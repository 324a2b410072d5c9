----------------------------- MODULE FastDataset -----------------------------
(***************************************************************************)
(* The RandomX memory the worker threads share (pow.rs).  A full dataset   *)
(* takes more than two gigabytes and belongs to one seed.  When the seed   *)
(* changes, the manager behind SHARED_FAST_DATASET keeps the old dataset   *)
(* until every worker has let go of it, and only then allocates the next;  *)
(* until then workers hash in light mode on a cache of 256 MiB and retry.  *)
(*                                                                         *)
(* A step is the code between two acquisitions of the manager's mutex.     *)
(* Building a dataset takes many seconds with that mutex held, so it is    *)
(* two steps.  Times are booleans: a retry delay is pending or over.       *)
(*                                                                         *)
(* ReleasingUnnamed, NeedsBuildForKey, ReadyForAnySeed, StillOwnedByOthers *)
(* and NeverReleasable are variants of the definitions that follow them,   *)
(* each with a plausible mistake.  No action uses one: PROJECT.json says   *)
(* which property refutes it.                                              *)
(***************************************************************************)
EXTENDS Integers, FiniteSets

CONSTANTS
  Workers,      \* worker threads
  Seeds,        \* RandomX keys the jobs name
  NoSeed,
  Datasets,     \* handles of full datasets: Arc<Dataset>
  NoDataset,
  SeedBound,    \* bound: times the jobs change their key
  UpsetBound    \* bound: allocations that fail

ASSUME FastDatasetAssumption ==
  /\ IsFiniteSet(Workers)
  /\ IsFiniteSet(Datasets)
  /\ NoSeed \notin Seeds
  /\ NoDataset \notin Datasets
  /\ {SeedBound, UpsetBound} \subseteq Nat

VARIABLES
  seed,       \* pow_key of the job in the slot
  seedOf,     \* the seed each dataset was initialised with
  manager,    \* SHARED_FAST_DATASET: SharedDatasetState
  lightSeed,  \* SHARED_LIGHT_CACHE: the seed of its cache
  wpc,        \* worker: where it is in randomx_hash
  wanted,     \* worker: pow_key of the job it holds
  engine,     \* worker: RANDOMX_VM_MINING, the key and mode of its VM
  arc,        \* worker: the Arc<Dataset> in its hands or in its VM
  light,      \* worker: the seed of the light cache its VM reads
  overdue,    \* worker: retry_fast_at has passed
  forceLight, \* the run was started with the light-memory profile
  moves, upsets   \* spent so far, for SeedBound and UpsetBound

workerVars == <<wpc, wanted, engine, arc, light, overdue>>
vars == <<seed, seedOf, manager, lightSeed, workerVars, forceLight, moves,
          upsets>>

\* SharedDatasetOutcome, with the key it is kept under.  `waiting` is
\* now < retry_at.
Outcome ==
  [kind : {"none", "ready", "releasing", "unavailable"},
   seed : Seeds \cup {NoSeed}, dataset : Datasets \cup {NoDataset},
   previous : Seeds \cup {NoSeed}, waiting : BOOLEAN]

None == [kind |-> "none", seed |-> NoSeed, dataset |-> NoDataset,
         previous |-> NoSeed, waiting |-> FALSE]
Ready(k, d) == [None EXCEPT !.kind = "ready", !.seed = k, !.dataset = d]
ReleasingUnnamed(k, p, d) ==
  [kind |-> "releasing", seed |-> k, dataset |-> d, previous |-> NoSeed,
   waiting |-> TRUE]
Releasing(k, p, d) ==
  [kind |-> "releasing", seed |-> k, dataset |-> d, previous |-> p,
   waiting |-> TRUE]
Unavailable(k) ==
  [None EXCEPT !.kind = "unavailable", !.seed = k, !.waiting = TRUE]

\* The VM a worker owns: RandomXEngine, under the key it was built for.
Engine == [seed : Seeds, mode : {"fast", "fallback", "recovery"}]
NoEngine == [seed |-> NoSeed, mode |-> "none"]

Owners(d) == {w \in Workers : arc[w] = d}
Live(d) == manager.dataset = d \/ Owners(d) # {}

Init ==
  /\ seed \in Seeds
  /\ seedOf = [d \in Datasets |-> NoSeed]
  /\ manager = None
  /\ lightSeed = NoSeed
  /\ wpc = [w \in Workers |-> "loop"]
  /\ wanted = [w \in Workers |-> seed]
  /\ engine = [w \in Workers |-> NoEngine]
  /\ arc = [w \in Workers |-> NoDataset]
  /\ light = [w \in Workers |-> NoSeed]
  /\ overdue = [w \in Workers |-> FALSE]
  /\ forceLight \in BOOLEAN
  /\ moves = 0 /\ upsets = 0

-----------------------------------------------------------------------------
(* Around the manager: new jobs, time, and allocations that fail.          *)

\* A template on the other side of a seed epoch, or of a reorganisation.
NewSeed ==
  /\ moves < SeedBound
  /\ moves' = moves + 1
  /\ seed' \in Seeds \ {seed}
  /\ UNCHANGED <<seedOf, manager, lightSeed, workerVars, forceLight, upsets>>

ManagerDelayOver ==
  /\ manager.waiting
  /\ manager' = [manager EXCEPT !.waiting = FALSE]
  /\ UNCHANGED <<seed, seedOf, lightSeed, workerVars, forceLight, moves,
                 upsets>>

WorkerDelayOver(w) ==
  /\ engine[w].mode = "fallback"
  /\ ~overdue[w]
  /\ overdue' = [overdue EXCEPT ![w] = TRUE]
  /\ UNCHANGED <<seed, seedOf, manager, lightSeed, wpc, wanted, engine, arc,
                 light, forceLight, moves, upsets>>

Upset == upsets < UpsetBound /\ upsets' = upsets + 1

-----------------------------------------------------------------------------
(* A worker, from one hash to the next.                                    *)

\* The head of the batch loop: the job may have changed.
TakeJob(w) ==
  /\ wpc[w] = "loop"
  /\ wanted' = [wanted EXCEPT ![w] = seed]
  /\ wpc' = [wpc EXCEPT ![w] = "hash"]
  /\ UNCHANGED <<seed, seedOf, manager, lightSeed, engine, arc, light, overdue,
                 forceLight, moves, upsets>>

\* engine_needs_build: another key, or a fallback whose retry is due.
NeedsBuildForKey(w) == engine[w].seed # wanted[w]
NeedsBuild(w) ==
  \/ engine[w].seed # wanted[w]
  \/ engine[w].mode = "fallback" /\ overdue[w]

Hash(w) ==
  /\ wpc[w] = "hash"
  /\ ~NeedsBuild(w)
  /\ wpc' = [wpc EXCEPT ![w] = "loop"]
  /\ UNCHANGED <<seed, seedOf, manager, lightSeed, wanted, engine, arc, light,
                 overdue, forceLight, moves, upsets>>

\* The slot is emptied, its memory given up, before anything is allocated.
DropEngine(w) ==
  /\ wpc[w] = "hash"
  /\ NeedsBuild(w)
  /\ engine' = [engine EXCEPT ![w] = NoEngine]
  /\ arc' = [arc EXCEPT ![w] = NoDataset]
  /\ light' = [light EXCEPT ![w] = NoSeed]
  /\ overdue' = [overdue EXCEPT ![w] = FALSE]
  /\ wpc' = [wpc EXCEPT ![w] = IF forceLight THEN "light" ELSE "ask"]
  /\ UNCHANGED <<seed, seedOf, manager, lightSeed, wanted, forceLight, moves,
                 upsets>>

-----------------------------------------------------------------------------
(* shared_fast_dataset(wanted[w]), with the mutex held.                    *)

Building == \E w \in Workers : wpc[w] = "build"

Asks(w) == wpc[w] = "ask" /\ ~Building

\* The dataset is handed out, and the manager keeps it under its own seed.
HandOut(w, d, k) ==
  /\ manager' = Ready(k, d)
  /\ arc' = [arc EXCEPT ![w] = d]
  /\ wpc' = [wpc EXCEPT ![w] = "attach"]
  /\ UNCHANGED <<seed, seedOf, lightSeed, wanted, engine, light, overdue,
                 forceLight, moves, upsets>>

\* The worker has to do without, and the manager waits FAST_RETRY_DELAY.
Refuse(w, outcome) ==
  /\ manager' = outcome
  /\ wpc' = [wpc EXCEPT ![w] = "release"]
  /\ UNCHANGED <<seed, seedOf, lightSeed, wanted, engine, arc, light, overdue,
                 forceLight, moves, upsets>>

ReadyForAnySeed(w) == manager.kind = "ready"
ReadyFor(w) == manager.kind = "ready" /\ manager.seed = wanted[w]

ShareReady(w) ==
  /\ Asks(w)
  /\ ReadyFor(w)
  /\ HandOut(w, manager.dataset, manager.seed)

\* The seed changed: keep the old dataset until nobody reads it.
BeginRelease(w) ==
  /\ Asks(w)
  /\ manager.kind = "ready"
  /\ ~ReadyFor(w)
  /\ Refuse(w, Releasing(wanted[w], manager.seed, manager.dataset))

\* The last allocation for this seed failed less than the delay ago.
StillUnavailable(w) ==
  /\ Asks(w)
  /\ manager.kind = "unavailable"
  /\ manager.seed = wanted[w]
  /\ manager.waiting
  /\ Refuse(w, manager)

\* releasing_action.  A reorganisation came back to the seed being released.
PromotePrevious(w) ==
  /\ Asks(w)
  /\ manager.kind = "releasing"
  /\ manager.previous = wanted[w]
  /\ HandOut(w, manager.dataset, manager.previous)

\* The seed changed again while the old dataset was draining.
Retarget(w) ==
  /\ Asks(w)
  /\ manager.kind = "releasing"
  /\ wanted[w] \notin {manager.previous, manager.seed}
  /\ Refuse(w, Releasing(wanted[w], manager.previous, manager.dataset))

\* Arc::strong_count(&previous) > 1: the manager's own handle is one of them.
StillOwnedByOthers == Cardinality(Owners(manager.dataset)) > 1
StillOwned == Cardinality(Owners(manager.dataset)) > 0

Drained(w) ==
  /\ manager.kind = "releasing"
  /\ manager.previous # wanted[w]
  /\ manager.seed = wanted[w]
  /\ ~manager.waiting
  /\ ~StillOwned

\* A worker is still on the old dataset, or the delay is not over; a delay
\* that is over starts again.
WaitForRelease(w) ==
  /\ Asks(w)
  /\ manager.kind = "releasing"
  /\ manager.previous # wanted[w]
  /\ manager.seed = wanted[w]
  /\ manager.waiting \/ StillOwned
  /\ Refuse(w, [manager EXCEPT !.waiting = TRUE])

\* Nothing to reuse and nothing to wait for: the manager's last handle is
\* dropped, and the next dataset is allocated with the mutex held.
StartBuild(w) ==
  /\ Asks(w)
  /\ \/ manager.kind = "none"
     \/ manager.kind = "unavailable" /\ ~(manager.seed = wanted[w] /\ manager.waiting)
     \/ Drained(w)
  /\ manager' = None
  /\ wpc' = [wpc EXCEPT ![w] = "build"]
  /\ UNCHANGED <<seed, seedOf, lightSeed, wanted, engine, arc, light, overdue,
                 forceLight, moves, upsets>>

BuildDone(w) ==
  /\ wpc[w] = "build"
  /\ \E d \in Datasets :
       /\ ~Live(d)
       /\ seedOf' = [seedOf EXCEPT ![d] = wanted[w]]
       /\ manager' = Ready(wanted[w], d)
       /\ arc' = [arc EXCEPT ![w] = d]
  /\ wpc' = [wpc EXCEPT ![w] = "attach"]
  /\ UNCHANGED <<seed, lightSeed, wanted, engine, light, overdue, forceLight,
                 moves, upsets>>

BuildFails(w) ==
  /\ wpc[w] = "build"
  /\ Upset
  /\ manager' = Unavailable(wanted[w])
  /\ wpc' = [wpc EXCEPT ![w] = "release"]
  /\ UNCHANGED <<seed, seedOf, lightSeed, wanted, engine, arc, light, overdue,
                 forceLight, moves>>

-----------------------------------------------------------------------------
(* build_mining_vm: a fast VM on the dataset, or a light one.              *)

Attach(w) ==
  /\ wpc[w] = "attach"
  /\ engine' = [engine EXCEPT ![w] = [seed |-> wanted[w], mode |-> "fast"]]
  /\ wpc' = [wpc EXCEPT ![w] = "loop"]
  /\ UNCHANGED <<seed, seedOf, manager, lightSeed, wanted, arc, light, overdue,
                 forceLight, moves, upsets>>

\* Neither the optimised nor the portable VM could be created; the handle
\* goes with it.
AttachFails(w) ==
  /\ wpc[w] = "attach"
  /\ Upset
  /\ arc' = [arc EXCEPT ![w] = NoDataset]
  /\ wpc' = [wpc EXCEPT ![w] = "release"]
  /\ UNCHANGED <<seed, seedOf, manager, lightSeed, wanted, engine, light,
                 overdue, forceLight, moves>>

\* release_fast_dataset_if_unused: strong_count == 1, under the mutex.
NeverReleasable(w) == FALSE
Releasable(w) ==
  /\ manager.kind = "ready"
  /\ manager.seed = wanted[w]
  /\ Owners(manager.dataset) = {}

ReleaseUnused(w) ==
  /\ wpc[w] = "release"
  /\ ~Building
  /\ manager' = IF Releasable(w) THEN Unavailable(wanted[w]) ELSE manager
  /\ wpc' = [wpc EXCEPT ![w] = "light"]
  /\ UNCHANGED <<seed, seedOf, lightSeed, wanted, engine, arc, light, overdue,
                 forceLight, moves, upsets>>

\* shared_light_cache and Vm::light, under the mutex of SHARED_LIGHT_CACHE.
BuildLight(w) ==
  /\ wpc[w] = "light"
  /\ lightSeed' = wanted[w]
  /\ light' = [light EXCEPT ![w] = lightSeed']
  /\ engine' = [engine EXCEPT ![w] =
                  [seed |-> wanted[w],
                   mode |-> IF forceLight THEN "recovery" ELSE "fallback"]]
  /\ wpc' = [wpc EXCEPT ![w] = "loop"]
  /\ UNCHANGED <<seed, seedOf, manager, wanted, arc, overdue, forceLight, moves,
                 upsets>>

\* No cache, and the manager has dropped the one it had; or a cache and no VM.
\* The worker tries again a second later.
LightFails(w) ==
  /\ wpc[w] = "light"
  /\ Upset
  /\ \/ lightSeed # wanted[w] /\ lightSeed' = NoSeed
     \/ lightSeed' = wanted[w]
  /\ wpc' = [wpc EXCEPT ![w] = "loop"]
  /\ UNCHANGED <<seed, seedOf, manager, wanted, engine, arc, light, overdue,
                 forceLight, moves>>

-----------------------------------------------------------------------------

WorkerStep(w) ==
  \/ TakeJob(w) \/ Hash(w) \/ DropEngine(w)
  \/ ShareReady(w) \/ BeginRelease(w) \/ StillUnavailable(w)
  \/ PromotePrevious(w) \/ Retarget(w) \/ WaitForRelease(w)
  \/ StartBuild(w) \/ BuildDone(w)
  \/ Attach(w) \/ ReleaseUnused(w) \/ BuildLight(w)

Failure(w) == BuildFails(w) \/ AttachFails(w) \/ LightFails(w)

Next ==
  \/ NewSeed
  \/ ManagerDelayOver
  \/ \E w \in Workers : WorkerStep(w) \/ Failure(w) \/ WorkerDelayOver(w)

Spec == Init /\ [][Next]_vars

\* Worker threads keep running and time passes; an allocation may fail, but
\* UpsetBound says how often.
FairSpec ==
  /\ Spec
  /\ WF_vars(ManagerDelayOver)
  /\ \A w \in Workers : WF_vars(WorkerStep(w)) /\ WF_vars(WorkerDelayOver(w))

-----------------------------------------------------------------------------

WorkerStates == {"loop", "hash", "ask", "build", "attach", "release", "light"}

TypeOK ==
  /\ seed \in Seeds
  /\ seedOf \in [Datasets -> Seeds \cup {NoSeed}]
  /\ manager \in Outcome
  /\ manager.kind # "none" => manager.seed \in Seeds
  /\ manager.kind \in {"ready", "releasing"} <=> manager.dataset \in Datasets
  /\ manager.kind = "releasing" <=> manager.previous \in Seeds
  /\ lightSeed \in Seeds \cup {NoSeed}
  /\ wpc \in [Workers -> WorkerStates]
  /\ wanted \in [Workers -> Seeds]
  /\ engine \in [Workers -> Engine \cup {NoEngine}]
  /\ arc \in [Workers -> Datasets \cup {NoDataset}]
  /\ light \in [Workers -> Seeds \cup {NoSeed}]
  /\ overdue \in [Workers -> BOOLEAN]
  /\ forceLight \in BOOLEAN
  /\ moves \in Nat /\ upsets \in Nat

\* Two full datasets never coexist, and none is being allocated while another
\* is alive in the manager, in a VM or in a worker's hands (shared_fast_dataset:
\* "Drop it before allocating the replacement so two full datasets never
\* coexist").
OneDataset ==
  /\ \A d, e \in Datasets : Live(d) /\ Live(e) => d = e
  /\ Building => \A d \in Datasets : ~Live(d)

\* The memory a VM hashes with belongs to the key it is filed under, so no
\* seal is computed with the dataset or the cache of another seed.
EngineMatchesKey ==
  \A w \in Workers :
    /\ engine[w].mode = "fast" => seedOf[arc[w]] = engine[w].seed
    /\ engine[w].mode \in {"fallback", "recovery"} => light[w] = engine[w].seed

\* A dataset that is ready is in use, or a worker is about to take it, replace
\* it or release it: workers that fall back to light mode leave no idle dataset
\* behind (release_fast_dataset_if_unused).
NoIdleDataset ==
  manager.kind = "ready" =>
    \E w \in Workers :
      \/ arc[w] = manager.dataset
      \/ wpc[w] = "ask"
      \/ wpc[w] = "release" /\ wanted[w] = manager.seed

\* Once the seed stays and allocations succeed again, every worker is back in
\* fast mode on that seed for good, unless the run is a light one.
FastAgain ==
  forceLight \/
  <>[](\A w \in Workers : engine[w] = [seed |-> seed, mode |-> "fast"])
=============================================================================
