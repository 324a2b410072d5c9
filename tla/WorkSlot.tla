------------------------------ MODULE WorkSlot ------------------------------
(***************************************************************************)
(* What the engine's shared work slot promises to the mining threads.      *)
(*                                                                         *)
(* `State` publishes work as a pair: the slot `job`, behind a lock, and    *)
(* the counter `generation`, read without the lock.  A writer changes the  *)
(* slot first and bumps the counter afterwards; a worker loads the counter *)
(* first and reads the slot afterwards.  The promise is that a worker      *)
(* whose remembered counter is the current one holds the current job,      *)
(* unless some writer still owes its bump.                                 *)
(*                                                                         *)
(* The direct-node and the pool sessions both implement this module.       *)
(***************************************************************************)
EXTENDS Integers, TLAPS

CONSTANTS
  Worker,   \* the mining threads
  Writer,   \* whoever may replace the job: the session thread, a worker
  Job,      \* the jobs a session may install
  NoJob     \* an empty slot

NoGeneration == -1   \* u64::MAX: equal to no value the counter reaches

VARIABLES
  slot,        \* the published job
  generation,  \* the counter workers compare against
  owing,       \* writers that replaced the slot and have not bumped yet
  phase,       \* phase[w]: "reading" between w's load of the counter and of the slot
  seen,        \* seen[w]: the counter value w last loaded
  held         \* held[w]: w's copy of the slot

vars == <<slot, generation, owing, phase, seen, held>>

TypeOK ==
  /\ slot \in Job \cup {NoJob}
  /\ generation \in Nat
  /\ owing \subseteq Writer
  /\ phase \in [Worker -> {"reading", "working"}]
  /\ seen \in [Worker -> Nat \cup {NoGeneration}]
  /\ held \in [Worker -> Job \cup {NoJob}]

Init ==
  /\ slot = NoJob
  /\ generation = 0
  /\ owing = {}
  /\ phase = [w \in Worker |-> "working"]
  /\ seen = [w \in Worker |-> NoGeneration]
  /\ held = [w \in Worker |-> NoJob]

-----------------------------------------------------------------------------

\* A writer publishes a job, or empties the slot.
Replace(x) ==
  /\ x \notin owing
  /\ slot' \in Job \cup {NoJob}
  /\ owing' = owing \cup {x}
  /\ UNCHANGED <<generation, phase, seen, held>>

\* The same writer announces the change.
Bump(x) ==
  /\ x \in owing
  /\ owing' = owing \ {x}
  /\ generation' = generation + 1
  /\ UNCHANGED <<slot, phase, seen, held>>

\* A worker notices that the counter moved ...
Load(w) ==
  /\ phase[w] = "working"
  /\ phase' = [phase EXCEPT ![w] = "reading"]
  /\ seen' = [seen EXCEPT ![w] = generation]
  /\ UNCHANGED <<slot, generation, owing, held>>

\* ... and takes whatever the slot holds by then.
Take(w) ==
  /\ phase[w] = "reading"
  /\ phase' = [phase EXCEPT ![w] = "working"]
  /\ held' = [held EXCEPT ![w] = slot]
  /\ UNCHANGED <<slot, generation, owing, seen>>

\* A worker that panicked starts over with nothing.
Restart(w) ==
  /\ phase[w] = "working"
  /\ seen' = [seen EXCEPT ![w] = NoGeneration]
  /\ held' = [held EXCEPT ![w] = NoJob]
  /\ UNCHANGED <<slot, generation, owing, phase>>

Next ==
  \/ \E x \in Writer : Replace(x) \/ Bump(x)
  \/ \E w \in Worker : Load(w) \/ Take(w) \/ Restart(w)

Spec == Init /\ [][Next]_vars

-----------------------------------------------------------------------------

\* The promise: with no bump owed, a worker that finds its remembered counter
\* current is mining the job in the slot (main.rs, State::install_job and the
\* reload at the head of worker_loop).
Coherent ==
  owing = {} =>
    \A w \in Worker :
      phase[w] = "working" /\ seen[w] = generation => held[w] = slot

-----------------------------------------------------------------------------
(* Its proof, for any number of workers and writers.                       *)

\* Nobody remembers a generation that has not been announced yet: this is what
\* makes a bump invalidate every copy at once.
SeenInPast == \A w \in Worker : seen[w] <= generation

Inv == TypeOK /\ SeenInPast /\ Coherent

\* Every initial state of the work slot satisfies its inductive invariant.
LEMMA InitInv == Init => Inv
  BY DEF Init, Inv, TypeOK, SeenInPast, Coherent, NoGeneration

\* Every step of the work slot keeps its inductive invariant.
LEMMA NextInv == Inv /\ [Next]_vars => Inv'
<1> SUFFICES ASSUME Inv, [Next]_vars PROVE Inv'
  OBVIOUS
<1> USE DEF Inv, TypeOK, SeenInPast, Coherent, NoGeneration
<1>1. ASSUME NEW x \in Writer, Replace(x) PROVE Inv'
  BY <1>1 DEF Replace
<1>2. ASSUME NEW x \in Writer, Bump(x) PROVE Inv'
  BY <1>2 DEF Bump
<1>3. ASSUME NEW w \in Worker, Load(w) PROVE Inv'
  BY <1>3 DEF Load
<1>4. ASSUME NEW w \in Worker, Take(w) PROVE Inv'
  BY <1>4 DEF Take
<1>5. ASSUME NEW w \in Worker, Restart(w) PROVE Inv'
  BY <1>5 DEF Restart
<1>6. CASE UNCHANGED vars
  BY <1>6 DEF vars
<1> QED
  BY <1>1, <1>2, <1>3, <1>4, <1>5, <1>6 DEF Next

\* With no bump owed, a worker that finds its remembered counter current is
\* mining the job in the slot (State::install_job, the head of worker_loop).
THEOREM SlotCoherent == Spec => []Coherent
<1>1. Inv => Coherent
  BY DEF Inv
<1> QED
  BY <1>1, InitInv, NextInv, PTL DEF Spec
=============================================================================
