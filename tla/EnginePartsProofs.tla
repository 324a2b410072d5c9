------------------------- MODULE EnginePartsProofs -------------------------
(***************************************************************************)
(* Five parts of the program that share no state.                          *)
(*                                                                         *)
(* The shared dataset, for any number of workers, seeds and handles: the   *)
(* manager never lets two full datasets coexist, and every VM hashes with  *)
(* the memory of the key it is filed under.  The argument is the           *)
(* ownership invariant Managed: whatever dataset a worker has in its hands *)
(* or in its VM is the one the manager keeps.  So when the manager has     *)
(* none, nobody has, and a worker whose handle is the manager's knows its  *)
(* seed from what the manager records.                                     *)
(*                                                                         *)
(* One RPC call, for any deadline, any budgets and any peer: it is over at *)
(* its deadline, what it reads is bounded, and a result comes only from a  *)
(* reply whose extent is certain.  Time needs to know when a system call   *)
(* may be in progress (InCall); the budgets need that the call is over as  *)
(* soon as one is exceeded (Budgets); a framed reply needs what the header *)
(* lines read so far can have been at each stage of the parser (Heard).    *)
(*                                                                         *)
(* What becomes a job, for any base, width and alphabet: the digits that   *)
(* target_from_compact places are the digits of the number the compact     *)
(* difficulty stands for, and it refuses exactly the numbers with more of  *)
(* them.  Digits and powers are recursive, so their lemmas go by           *)
(* induction: the set of counterexamples has no least number.              *)
(*                                                                         *)
(* The readers of bounded lines, for any limit and any split into reads.   *)
(* Each is in a line that begins after some byte p and keeps of it what    *)
(* the limit allows; what it has handed on are the complete lines before.  *)
(*                                                                         *)
(* The mempool and block-time panels, for any u64, any limits and any      *)
(* replies and headers: what is shown is the view of the last reply. A     *)
(* turn of packed_pending_blocks keeps the packing one (Packings: every    *)
(* block but the last holds capacity transactions, one after another), and *)
(* the sum of turns and transactions grows until all are placed. Bars are  *)
(* counted off by rank, and so are the sorted intervals, which puts half   *)
(* of them on either side of the median.                                   *)
(***************************************************************************)
EXTENDS FastDataset, NodeCall, JobIntake, StreamLines, MempoolView,
        FiniteSetTheorems, SequenceTheorems, WellFoundedInduction, NaturalsInduction, TLAPS

----
\* The dataset manager.

Managed ==
  \A w \in Workers : arc[w] # NoDataset => arc[w] = manager.dataset

\* The manager files every dataset under the seed it was initialised with.
FiledRight ==
  /\ manager.kind = "ready" => seedOf[manager.dataset] = manager.seed
  /\ manager.kind = "releasing" => seedOf[manager.dataset] = manager.previous

\* The mutex: one builder at a time, and the manager holds nothing meanwhile.
BuildAlone ==
  \A w \in Workers : wpc[w] = "build" =>
    /\ manager = None
    /\ \A v \in Workers : wpc[v] = "build" => v = w

\* What a worker has at each place of randomx_hash.
Hands ==
  \A w \in Workers :
    /\ wpc[w] \in {"ask", "build", "release", "light"} =>
         engine[w] = NoEngine /\ arc[w] = NoDataset
    /\ wpc[w] = "attach" =>
         /\ engine[w] = NoEngine
         /\ arc[w] \in Datasets
         /\ seedOf[arc[w]] = wanted[w]
    /\ engine[w].mode = "fast" =>
         arc[w] \in Datasets /\ seedOf[arc[w]] = engine[w].seed
    /\ engine[w].mode \in {"fallback", "recovery"} => light[w] = engine[w].seed

\* A light run never reaches the manager.
LightOnly ==
  forceLight =>
    /\ manager = None
    /\ \A w \in Workers : wpc[w] \in {"loop", "hash", "light"}

Inv == TypeOK /\ Managed /\ FiledRight /\ BuildAlone /\ Hands

\* The invariant holds at the start.
LEMMA InitInv == Init => Inv
  BY FastDatasetAssumption
  DEF Init, Inv, TypeOK, Managed, FiledRight, BuildAlone, Hands, Outcome, None,
      Engine, NoEngine, WorkerStates

\* Nobody but the manager owns the dataset whose strong count is one.
LEMMA Unowned ==
  ASSUME Inv, ~StillOwned, manager.dataset \in Datasets
  PROVE  \A w \in Workers : arc[w] = NoDataset
<1>1. IsFiniteSet(Owners(manager.dataset))
  BY FastDatasetAssumption, FS_Subset DEF Owners
<1>2. Owners(manager.dataset) = {}
  BY <1>1, FS_CardinalityType, FS_EmptySet DEF StillOwned
<1> QED
  BY <1>2 DEF Owners, Inv, Managed

\* Every step keeps it, one step per action.
LEMMA NextInv == Inv /\ [Next]_vars => Inv'
<1> SUFFICES ASSUME Inv, [Next]_vars PROVE Inv'
  OBVIOUS
<1> USE FastDatasetAssumption
    DEF Inv, TypeOK, Managed, FiledRight, BuildAlone, Hands, Outcome, None,
        Ready, Releasing, Unavailable, Engine, NoEngine, WorkerStates,
        workerVars, Building
<1>1. CASE NewSeed
  BY <1>1 DEF NewSeed
<1>2. CASE ManagerDelayOver
  <2>1. /\ manager' \in Outcome
        /\ manager'.kind = manager.kind /\ manager'.seed = manager.seed
        /\ manager'.dataset = manager.dataset
        /\ manager'.previous = manager.previous
    BY <1>2 DEF ManagerDelayOver
  <2>2. manager # None
    BY <1>2 DEF ManagerDelayOver
  <2> QED
    BY <1>2, <2>1, <2>2 DEF ManagerDelayOver
<1>3. ASSUME NEW w \in Workers, TakeJob(w) PROVE Inv'
  BY <1>3 DEF TakeJob
<1>4. ASSUME NEW w \in Workers, Hash(w) PROVE Inv'
  BY <1>4 DEF Hash
<1>5. ASSUME NEW w \in Workers, DropEngine(w) PROVE Inv'
  BY <1>5 DEF DropEngine
<1>6. ASSUME NEW w \in Workers, ShareReady(w) PROVE Inv'
  BY ZenonT(60), <1>6 DEF ShareReady, ReadyFor, HandOut, Asks
<1>7. ASSUME NEW w \in Workers, BeginRelease(w) PROVE Inv'
  BY <1>7 DEF BeginRelease, ReadyFor, Refuse, Asks
<1>8. ASSUME NEW w \in Workers, StillUnavailable(w) PROVE Inv'
  BY <1>8 DEF StillUnavailable, Refuse, Asks
<1>9. ASSUME NEW w \in Workers, PromotePrevious(w) PROVE Inv'
  BY ZenonT(60), <1>9 DEF PromotePrevious, HandOut, Asks
<1>10. ASSUME NEW w \in Workers, Retarget(w) PROVE Inv'
  BY <1>10 DEF Retarget, Refuse, Asks
<1>11. ASSUME NEW w \in Workers, WaitForRelease(w) PROVE Inv'
  BY ZenonT(60), <1>11 DEF WaitForRelease, Refuse, Asks
<1>12. ASSUME NEW w \in Workers, StartBuild(w) PROVE Inv'
  BY <1>12, Unowned DEF StartBuild, Asks, Drained, StillOwned
<1>13. ASSUME NEW w \in Workers, BuildDone(w) PROVE Inv'
  <2>1. PICK d \in Datasets :
          /\ ~Live(d)
          /\ seedOf' = [seedOf EXCEPT ![d] = wanted[w]]
          /\ manager' = Ready(wanted[w], d)
          /\ arc' = [arc EXCEPT ![w] = d]
    BY <1>13 DEF BuildDone
  <2>2. \A v \in Workers : arc[v] = NoDataset
    BY <1>13 DEF BuildDone
  <2>3. /\ wpc[w] = "build"
        /\ wpc' = [wpc EXCEPT ![w] = "attach"]
        /\ UNCHANGED <<seed, lightSeed, wanted, engine, light, overdue,
                       forceLight, moves, upsets>>
    BY <1>13 DEF BuildDone
  <2>4. TypeOK'
    BY <2>1, <2>3
  <2>5. Managed' /\ FiledRight'
    BY <2>1, <2>2, <2>3
  <2>6. BuildAlone'
    BY <2>3
  <2>7. Hands'
    BY <2>1, <2>2, <2>3
  <2> QED
    BY <2>4, <2>5, <2>6, <2>7
<1>14. ASSUME NEW w \in Workers, Attach(w) PROVE Inv'
  BY <1>14 DEF Attach
<1>15. ASSUME NEW w \in Workers, ReleaseUnused(w) PROVE Inv'
  <2>1. CASE Releasable(w)
    <3>1. \A v \in Workers : arc[v] = NoDataset
      BY <2>1 DEF Releasable, Owners
    <3> QED
      BY <1>15, <2>1, <3>1 DEF ReleaseUnused, Releasable
  <2>2. CASE ~Releasable(w)
    BY <1>15, <2>2 DEF ReleaseUnused
  <2> QED
    BY <2>1, <2>2
<1>16. ASSUME NEW w \in Workers, BuildLight(w) PROVE Inv'
  BY <1>16 DEF BuildLight
<1>17. ASSUME NEW w \in Workers, BuildFails(w) PROVE Inv'
  <2>1. \A v \in Workers : arc[v] = NoDataset
    BY <1>17 DEF BuildFails
  <2>2. /\ manager' = Unavailable(wanted[w])
        /\ wpc' = [wpc EXCEPT ![w] = "release"]
        /\ wpc[w] = "build"
        /\ upsets' \in Nat
        /\ UNCHANGED <<seed, seedOf, lightSeed, wanted, engine, arc, light,
                       overdue, forceLight, moves>>
    BY <1>17 DEF BuildFails, Upset
  <2>3. TypeOK'
    BY <2>2
  <2>4. Managed' /\ FiledRight'
    BY <2>1, <2>2
  <2>5. BuildAlone' /\ Hands'
    BY <2>2
  <2> QED
    BY <2>3, <2>4, <2>5
<1>18. ASSUME NEW w \in Workers, AttachFails(w) PROVE Inv'
  BY <1>18 DEF AttachFails, Upset
<1>19. ASSUME NEW w \in Workers, LightFails(w) PROVE Inv'
  BY <1>19 DEF LightFails, Upset
<1>20. ASSUME NEW w \in Workers, WorkerDelayOver(w) PROVE Inv'
  BY <1>20 DEF WorkerDelayOver
<1>21. CASE UNCHANGED vars
  BY <1>21 DEF vars
<1> QED
  BY <1>1, <1>2, <1>3, <1>4, <1>5, <1>6, <1>7, <1>8, <1>9, <1>10, <1>11, <1>12, <1>13, <1>14,
     <1>15, <1>16, <1>17, <1>18, <1>19, <1>20, <1>21
  DEF Next, WorkerStep, Failure

\* So it always holds.
LEMMA Invariant == Spec => []Inv
  BY InitInv, NextInv, PTL DEF Spec

\* The workers forced to light mode never hold a dataset.
LEMMA LightOnlyInv == Spec => []LightOnly
<1>1. Init => LightOnly
  BY DEF Init, LightOnly
<1>2. Inv /\ LightOnly /\ [Next]_vars => LightOnly'
  <2> SUFFICES ASSUME Inv, LightOnly, [Next]_vars, forceLight PROVE LightOnly'
    <3>1. [Next]_vars => forceLight' = forceLight
      BY DEF Next, WorkerStep, Failure, vars, workerVars, NewSeed,
             ManagerDelayOver, WorkerDelayOver, TakeJob, Hash, DropEngine,
             ShareReady, BeginRelease, StillUnavailable, PromotePrevious,
             Retarget, WaitForRelease, HandOut, Refuse, StartBuild, BuildDone,
             Attach, ReleaseUnused, BuildLight, BuildFails, AttachFails,
             LightFails
    <3> QED
      BY <3>1 DEF LightOnly
  <2> USE DEF Inv, TypeOK, LightOnly, workerVars
  <2>1. ASSUME NEW w \in Workers,
               \/ ShareReady(w) \/ BeginRelease(w) \/ StillUnavailable(w)
               \/ PromotePrevious(w) \/ Retarget(w) \/ WaitForRelease(w)
               \/ StartBuild(w) \/ BuildDone(w) \/ BuildFails(w) \/ Attach(w)
               \/ AttachFails(w) \/ ReleaseUnused(w)
        PROVE  FALSE
    BY <2>1 DEF Asks, ShareReady, BeginRelease, StillUnavailable, StartBuild,
                PromotePrevious, Retarget, WaitForRelease, BuildDone,
                BuildFails, Attach, AttachFails, ReleaseUnused
  <2>2. ASSUME NEW w \in Workers,
               \/ TakeJob(w) \/ Hash(w) \/ DropEngine(w) \/ BuildLight(w)
               \/ LightFails(w) \/ WorkerDelayOver(w)
        PROVE  LightOnly'
    BY <2>2 DEF TakeJob, Hash, DropEngine, BuildLight, LightFails,
                WorkerDelayOver
  <2>3. CASE NewSeed \/ UNCHANGED vars
    BY <2>3 DEF NewSeed, vars
  <2>4. CASE ManagerDelayOver
    BY <2>4 DEF ManagerDelayOver, None
  <2> QED
    BY <2>1, <2>2, <2>3, <2>4 DEF Next, WorkerStep, Failure
<1> QED
  BY <1>1, <1>2, Invariant, PTL DEF Spec

-----------------------------------------------------------------------------

\* Type correctness of the manager, the engines and the handles (pow.rs).
THEOREM TypeCorrect == Spec => []TypeOK
<1>1. Inv => TypeOK
  BY DEF Inv
<1> QED
  BY <1>1, Invariant, PTL

\* Two full datasets never coexist, and none is allocated while another lives
\* (shared_fast_dataset, whatever the workers ask for and in whatever order).
THEOREM NeverTwoDatasets == Spec => []OneDataset
<1>1. ASSUME Inv PROVE OneDataset
  <2>1. \A d \in Datasets : Live(d) => d = manager.dataset
    BY <1>1, FastDatasetAssumption DEF Inv, Managed, Live, Owners
  <2>2. Building => manager.dataset = NoDataset
    BY <1>1 DEF Inv, BuildAlone, Building, None
  <2> QED
    BY <2>1, <2>2, FastDatasetAssumption DEF OneDataset
<1> QED
  BY <1>1, Invariant, PTL

\* A VM hashes with the memory of the key it is filed under (randomx_hash,
\* build_mining_vm, shared_light_cache).
THEOREM RightMemory == Spec => []EngineMatchesKey
<1>1. Inv => EngineMatchesKey
  BY DEF Inv, Hands, EngineMatchesKey
<1> QED
  BY <1>1, Invariant, PTL

\* Workers that fall back to light mode leave no idle dataset behind
\* (release_fast_dataset_if_unused, under the manager's mutex).
THEOREM IdleIsReleased == Spec => []NoIdleDataset
<1>1. Init => NoIdleDataset
  BY DEF Init, NoIdleDataset, None
<1>2. Inv /\ LightOnly /\ NoIdleDataset /\ [Next]_vars => NoIdleDataset'
  <2> SUFFICES ASSUME Inv, LightOnly, NoIdleDataset, [Next]_vars,
                      manager'.kind = "ready"
               PROVE  \E w \in Workers :
                        \/ arc'[w] = manager'.dataset
                        \/ wpc'[w] = "ask"
                        \/ wpc'[w] = "release" /\ wanted'[w] = manager'.seed
    BY DEF NoIdleDataset
  <2> USE DEF Inv, TypeOK, None, workerVars
  <2> DEFINE Holds(v) == \/ arc[v] = manager.dataset
                         \/ wpc[v] = "ask"
                         \/ wpc[v] = "release" /\ wanted[v] = manager.seed
  <2>1. ASSUME manager' = manager PROVE \E v \in Workers : Holds(v)
    BY <2>1 DEF NoIdleDataset
  <2>2. CASE NewSeed \/ UNCHANGED vars
    BY <2>2, <2>1 DEF NewSeed, vars
  <2>3. CASE ManagerDelayOver
    <3>1. /\ manager.kind = manager'.kind /\ manager.seed = manager'.seed
          /\ manager.dataset = manager'.dataset
      BY <2>3 DEF ManagerDelayOver, Outcome
    <3> QED
      BY <2>3, <3>1 DEF ManagerDelayOver, NoIdleDataset
  <2>4. ASSUME NEW w \in Workers,
               \/ TakeJob(w) \/ Hash(w) \/ WorkerDelayOver(w) \/ Attach(w)
               \/ BuildLight(w) \/ LightFails(w)
        PROVE  \E v \in Workers : \/ arc'[v] = manager'.dataset
                                  \/ wpc'[v] = "ask"
                                  \/ wpc'[v] = "release" /\ wanted'[v] = manager'.seed
    <3>1. PICK v \in Workers : Holds(v)
      BY <2>1, <2>4 DEF TakeJob, Hash, WorkerDelayOver, Attach, BuildLight,
                        LightFails
    <3> QED
      BY <2>4, <3>1 DEF TakeJob, Hash, WorkerDelayOver, Attach, BuildLight,
                        LightFails
  <2>5. ASSUME NEW w \in Workers, DropEngine(w)
        PROVE  wpc'[w] = "ask"
    BY <2>5 DEF DropEngine, LightOnly
  <2>6. ASSUME NEW w \in Workers,
               ShareReady(w) \/ PromotePrevious(w) \/ BuildDone(w)
        PROVE  arc'[w] = manager'.dataset
    BY ZenonT(60), <2>6 DEF ShareReady, PromotePrevious, HandOut, BuildDone, Ready
  <2>7. ASSUME NEW w \in Workers,
               \/ BeginRelease(w) \/ StillUnavailable(w) \/ Retarget(w)
               \/ WaitForRelease(w) \/ StartBuild(w) \/ BuildFails(w)
        PROVE  FALSE
    <3>1. CASE StillUnavailable(w) \/ WaitForRelease(w)
      BY <3>1 DEF StillUnavailable, WaitForRelease, Refuse, Outcome
    <3>2. CASE BeginRelease(w) \/ Retarget(w)
      BY <3>2 DEF BeginRelease, Retarget, Refuse, Releasing
    <3>3. CASE StartBuild(w)
      BY <3>3 DEF StartBuild
    <3>4. CASE BuildFails(w)
      BY <3>4 DEF BuildFails, Unavailable
    <3> QED
      BY <2>7, <3>1, <3>2, <3>3, <3>4
  <2>8. ASSUME NEW w \in Workers, AttachFails(w)
        PROVE  wpc'[w] = "release" /\ wanted'[w] = manager'.seed
    <3>1. wpc[w] = "attach" /\ manager' = manager /\ wanted' = wanted
      BY <2>8 DEF AttachFails
    <3>2. arc[w] = manager.dataset /\ seedOf[arc[w]] = wanted[w]
      BY <3>1, FastDatasetAssumption DEF Managed, Hands
    <3>3. seedOf[manager.dataset] = manager.seed
      BY <3>1 DEF FiledRight
    <3> QED
      BY <2>8, <3>1, <3>2, <3>3 DEF AttachFails
  <2>9. ASSUME NEW w \in Workers, ReleaseUnused(w)
        PROVE  \E v \in Workers : \/ arc'[v] = manager'.dataset
                                  \/ wpc'[v] = "ask"
                                  \/ wpc'[v] = "release" /\ wanted'[v] = manager'.seed
    <3>1. ~Releasable(w) /\ manager' = manager
      BY <2>9 DEF ReleaseUnused, Unavailable
    <3>2. CASE Owners(manager.dataset) # {}
      BY <2>9, <3>1, <3>2 DEF ReleaseUnused, Owners
    <3>3. CASE manager.seed # wanted[w]
      <4>1. PICK v \in Workers : Holds(v)
        BY <2>1, <3>1
      <4> QED
        BY <2>9, <3>1, <3>3, <4>1 DEF ReleaseUnused
    <3> QED
      BY <3>1, <3>2, <3>3 DEF Releasable
  <2> QED
    BY <2>2, <2>3, <2>4, <2>5, <2>6, <2>7, <2>8, <2>9
    DEF Next, WorkerStep, Failure
<1> QED
  BY <1>1, <1>2, Invariant, LightOnlyInv, PTL DEF Spec

----
\* One RPC call.

CallSpec == CallBegins /\ [][CallNext]_callVars

----
\* The inductive invariants.

\* A system call in progress ends at the deadline; none is in progress between
\* two stages.
InCall ==
    /\ wake \in {NotBlocked, Timeout}
    /\ wake # NotBlocked => now <= Timeout
    /\ at \in {"resolve", "flush", "decode", "done"} => wake = NotBlocked
    /\ at = "resolve" => now = 0

TimeInv == InCall /\ InTime

\* A budget may be exceeded by one piece, with which the call ends; a call that
\* is connecting has an address left.
Budgets ==
    /\ used = Len(heard)
    /\ at # "done" => used <= MaxHeader /\ (length = Undeclared \/ length <= MaxBody)
    /\ at = "body" =>
          IF wake = NotBlocked THEN body <= BodyLimit ELSE body < BodyLimit
    /\ at = "decode" => body <= MaxBody
    /\ at = "connect" => addresses # 0
    /\ at \notin {"body", "decode", "done"} => body = 0

SizeInv == CallTypeOK /\ Budgets /\ Bounded

LastIsEnd == heard # <<>> /\ heard[Len(heard)].kind = "end"
StatusFirst ==
    \E i \in 1..Len(heard) :
        heard[i].kind = "status" /\ \A j \in 1..(i - 1) : heard[j].kind = "more"
NoBadLine ==
    \A i \in 1..Len(heard) :
        heard[i].kind \notin {"chunked", "encoded", "garbled", "failure"}
DeclaredOnce ==
    IF length = Undeclared
    THEN \A i \in 1..Len(heard) : heard[i].kind # "length"
    ELSE \E i \in 1..Len(heard) :
            /\ heard[i].kind = "length" /\ heard[i].n = length
            /\ \A j \in 1..Len(heard) : heard[j].kind = "length" => j = i

\* What the header has been so far, at each stage of the parser.
Heard ==
    /\ at \in {"resolve", "connect", "write", "flush"} => heard = <<>> /\ length = Undeclared
    /\ at = "status" =>
          length = Undeclared /\ \A i \in 1..Len(heard) : heard[i].kind = "more"
    /\ at \in {"headers", "body", "decode"} => StatusFirst /\ NoBadLine /\ DeclaredOnce
    /\ at \in {"body", "decode"} => LastIsEnd
    /\ at = "decode" => IF length = Undeclared THEN closed ELSE body = length
    /\ outcome = "ok" =>
          /\ StatusFirst /\ NoBadLine /\ DeclaredOnce /\ LastIsEnd
          /\ IF length = Undeclared THEN closed ELSE body = length

----
\* Time.

\* No step of a call moves its clock past what the deadline and the waits allow.
LEMMA TimeStep == CallTypeOK /\ TimeInv /\ [CallNext]_callVars => TimeInv'
<1> SUFFICES ASSUME CallTypeOK, TimeInv, [CallNext]_callVars PROVE TimeInv'
  OBVIOUS
<1> USE NodeCallAssumption DEF CallTypeOK, TimeInv, InCall, InTime, NotBlocked
<1>1. CASE Resolve
  BY <1>1 DEF Resolve, Fails, replyVars
<1>2. CASE CallEnters
  BY <1>2 DEF CallEnters, TryAddress, BeginWrite, BeginRead, BeginBodyRead, InHead,
     Enter, InBudget, GivesUp, Fails
<1>3. CASE Tick
  BY <1>3 DEF Tick
<1>4. CASE TimesOut \/ Breaks
  BY <1>4 DEF TimesOut, Breaks, Fails
<1>5. CASE Connected \/ NotConnected \/ Wrote
  BY <1>5 DEF Connected, NotConnected, Wrote, Blocked, Goes, Fails
<1>6. CASE Flush
  BY <1>6 DEF Flush, Goes, Fails, InBudget
<1>7. CASE HearPiece
  <2>1. PICK p \in Pieces :
          \/ Fails /\ UNCHANGED <<now, resolvedAt>>
          \/ Goes(at)
          \/ Goes(Parsed(p))
    BY <1>7 DEF HearPiece
  <2> QED BY <2>1, <1>7 DEF HearPiece, Goes, Fails, Parsed, InHead
<1>8. CASE HeadCutShort
  BY <1>8 DEF HeadCutShort, Fails
<1>9. CASE BodyFull \/ BodyPiece \/ BodyEnds
  BY <1>9 DEF BodyFull, BodyPiece, BodyEnds, Blocked, Goes, Fails
<1>10. CASE Decode
  BY <1>10 DEF Decode, InBudget
<1>11. CASE UNCHANGED callVars
  BY <1>11 DEF callVars
<1> QED BY <1>1, <1>2, <1>3, <1>4, <1>5, <1>6, <1>7, <1>8, <1>9, <1>10, <1>11
        DEF CallNext, CallReturns, PeerActs

----
\* Types and sizes.

\* What one header piece does, by what the parser makes of it.
LEMMA PieceHeard ==
  ASSUME HearPiece
  PROVE \E p \in Pieces :
          /\ heard' = Append(heard, p)
          /\ used' = used + 1
          /\ length' = IF p.kind = "length" THEN p.n ELSE length
          /\ \/ Fails /\ UNCHANGED <<now, resolvedAt>>
             \/ ~(used + 1 > MaxHeader) /\ p.kind = "more" /\ Goes(at)
             \/ ~(used + 1 > MaxHeader) /\ p.kind # "more" /\ Parsed(p) # "bad" /\ Goes(Parsed(p))
BY DEF HearPiece, Charged

\* No step of a call reads past its budgets for the header and the body.
LEMMA SizeStep == SizeInv /\ [CallNext]_callVars => SizeInv'
<1> SUFFICES ASSUME SizeInv, [CallNext]_callVars PROVE SizeInv'
  OBVIOUS
<1> USE NodeCallAssumption
    DEF SizeInv, CallTypeOK, Budgets, Bounded, BodyLimit, NotBlocked, Undeclared
<1>1. CASE Resolve
  BY <1>1 DEF Resolve, Fails, replyVars
<1>2. CASE CallEnters
  <2>1. PICK stage \in {"connect", "write", "status", "headers", "body"} :
          at = stage /\ Enter(stage) /\ (stage = "body" => body < BodyLimit)
    BY <1>2 DEF CallEnters, TryAddress, BeginWrite, BeginRead, BeginBodyRead, InHead
  <2>2. UNCHANGED <<now, addresses, resolvedAt>> /\ UNCHANGED replyVars /\ wake = NotBlocked
    BY <2>1 DEF Enter
  <2>3. CASE at' = stage /\ wake' = Timeout /\ UNCHANGED outcome
    BY <2>1, <2>2, <2>3 DEF replyVars
  <2>4. CASE Fails
    BY <2>1, <2>2, <2>4 DEF replyVars, Fails
  <2> QED BY <2>1, <2>3, <2>4 DEF Enter, GivesUp
<1>3. CASE Tick
  BY <1>3 DEF Tick, replyVars
<1>4. CASE TimesOut \/ Breaks
  BY SMTT(30), <1>4 DEF TimesOut, Breaks, Fails, replyVars
<1>5. CASE Connected
  <2>1. /\ at = "connect" /\ at' = "write" /\ wake' = NotBlocked
        /\ UNCHANGED <<now, resolvedAt, outcome, addresses, sent, used, heard, length, body, closed>>
    BY <1>5, Zenon DEF Connected, Blocked, Goes, replyVars
  <2> QED BY <2>1
<1>15. CASE NotConnected
  <2>1. /\ at = "connect" /\ addresses' = addresses - 1 /\ wake' = NotBlocked
        /\ UNCHANGED <<now, resolvedAt, sent, used, heard, length, body, closed>>
    BY <1>15, Zenon DEF NotConnected, Blocked, Goes, Fails, replyVars
  <2>2. \/ addresses = 1 /\ at' = "done" /\ outcome' = "failed"
        \/ addresses # 1 /\ at' = "connect" /\ UNCHANGED outcome
    BY <1>15, Zenon DEF NotConnected, Goes, Fails
  <2>3. addresses' \in 0..MaxAddresses /\ (addresses # 1 => addresses' # 0)
    BY <2>1
  <2> QED BY <2>1, <2>2, <2>3
<1>14. CASE Wrote
  <2>1. at = "write" /\ UNCHANGED <<addresses, used, heard, length, body, closed>>
    BY <1>14, Zenon DEF Wrote, Blocked
  <2>2. \E n \in (sent + 1)..Request :
          sent' = n /\ Goes(IF n = Request THEN "flush" ELSE "write")
    BY <1>14, Zenon DEF Wrote
  <2>3. sent' \in 0..Request
    BY <2>2
  <2>4. at' \in {"flush", "write"} /\ wake' = NotBlocked /\ UNCHANGED <<now, resolvedAt, outcome>>
    BY <2>2, Zenon DEF Goes
  <2> QED BY <2>1, <2>3, <2>4
<1>6. CASE Flush
  BY <1>6 DEF Flush, Goes, Fails, InBudget, replyVars
<1>7. CASE HearPiece
  <2>1. PICK p \in Pieces :
          /\ heard' = Append(heard, p)
          /\ used' = used + 1
          /\ length' = IF p.kind = "length" THEN p.n ELSE length
          /\ \/ Fails /\ UNCHANGED <<now, resolvedAt>>
             \/ ~(used + 1 > MaxHeader) /\ p.kind = "more" /\ Goes(at)
             \/ ~(used + 1 > MaxHeader) /\ p.kind # "more" /\ Parsed(p) # "bad" /\ Goes(Parsed(p))
    BY <1>7, PieceHeard, Zenon
  <2>2. UNCHANGED <<addresses, sent, body, closed>> /\ at \in InHead
    BY <1>7 DEF HearPiece
  <2>3. heard' \in Seq(Pieces) /\ Len(heard') = Len(heard) + 1
    BY <2>1
  <2>4. p.kind = "length" => p.n \in 0..(MaxBody + 1)
    BY DEF Pieces, Piece, Lines
  <2>5. p.kind = "length" /\ Parsed(p) # "bad" => p.n <= MaxBody
    BY <2>2 DEF Parsed, InHead
  <2>6. Parsed(p) \in {"bad", "headers", "body"}
    BY DEF Parsed
  <2> QED BY <2>1, <2>2, <2>3, <2>4, <2>5, <2>6 DEF InHead, Goes, Fails
<1>8. CASE HeadCutShort
  BY <1>8 DEF HeadCutShort, Fails, InHead
<1>9. CASE BodyFull
  BY <1>9 DEF BodyFull, Goes, Fails, replyVars
<1>10. CASE BodyPiece
  BY <1>10 DEF BodyPiece, Blocked, Goes, Fails
<1>11. CASE BodyEnds
  BY <1>11 DEF BodyEnds, Blocked, Goes, Fails
<1>12. CASE Decode
  BY <1>12 DEF Decode, replyVars
<1>13. CASE UNCHANGED callVars
  BY <1>13 DEF callVars
<1> QED BY <1>1, <1>2, <1>3, <1>4, <1>5, <1>6, <1>7, <1>8, <1>9, <1>10, <1>11, <1>12, <1>13, <1>14, <1>15
        DEF CallNext, CallReturns, PeerActs

----
\* Framing.

\* What the header was so far stays true to the stage of the parser.
LEMMA HeardStep == SizeInv /\ Heard /\ [CallNext]_callVars => Heard'
<1> SUFFICES ASSUME SizeInv, Heard, [CallNext]_callVars PROVE Heard'
  OBVIOUS
<1> USE NodeCallAssumption DEF Heard, NotBlocked
<1>t. CallTypeOK /\ Budgets
  BY DEF SizeInv
<1>n. at # "done" => outcome = "none"
  BY <1>t DEF CallTypeOK
\* A step that leaves the reply alone leaves what was heard alone.
<1>k. ASSUME UNCHANGED <<heard, length>>
      PROVE  UNCHANGED <<StatusFirst, NoBadLine, DeclaredOnce, LastIsEnd>>
  BY <1>k DEF StatusFirst, NoBadLine, DeclaredOnce, LastIsEnd
<1>1. CASE Resolve
  BY <1>1, <1>n DEF Resolve, Fails, replyVars
<1>2. CASE CallEnters
  BY <1>2, <1>n, <1>k DEF CallEnters, TryAddress, BeginWrite, BeginRead, BeginBodyRead,
     InHead, Enter, Fails, replyVars
<1>3. CASE Tick
  BY <1>3, <1>k DEF Tick, replyVars
<1>4. CASE TimesOut \/ Breaks
  BY <1>4 DEF TimesOut, Breaks, Fails
<1>5. CASE Connected \/ NotConnected \/ Wrote
  BY <1>5, <1>n DEF Connected, NotConnected, Wrote, Blocked, Goes, Fails, replyVars
<1>6. CASE Flush
  BY <1>6, <1>n DEF Flush, Goes, Fails, replyVars
<1>7. CASE HearPiece
  <2>1. PICK p \in Pieces :
          /\ heard' = Append(heard, p)
          /\ length' = IF p.kind = "length" THEN p.n ELSE length
          /\ \/ Fails
             \/ p.kind = "more" /\ Goes(at)
             \/ p.kind # "more" /\ Parsed(p) # "bad" /\ Goes(Parsed(p))
    BY <1>7, PieceHeard, Zenon
  <2>2. at \in InHead /\ UNCHANGED <<body, closed>>
    BY <1>7 DEF HearPiece
  <2>3. CASE Fails
    BY <2>3 DEF Fails
  <2>4. heard \in Seq(Pieces) /\ Len(heard') = Len(heard) + 1 /\ Len(heard) \in Nat
        /\ heard'[Len(heard) + 1] = p /\ \A i \in 1..Len(heard) : heard'[i] = heard[i]
    BY <2>1, <1>t DEF CallTypeOK
  <2>5. CASE p.kind = "more" /\ Goes(at)
    <3>1. length' = length /\ outcome' # "ok" /\ at' = at
      BY <2>1, <2>2, <2>5, <1>n DEF Goes, InHead
    <3>2. CASE at = "status"
      BY <2>4, <2>5, <3>1, <3>2
    <3>3. CASE at = "headers"
      <4>1. StatusFirst' /\ NoBadLine'
        BY <2>4, <2>5, <3>3 DEF StatusFirst, NoBadLine
      <4>2. DeclaredOnce'
        BY <2>4, <2>5, <3>1, <3>3 DEF DeclaredOnce
      <4> QED BY <3>1, <3>3, <4>1, <4>2
    <3> QED BY <2>2, <3>2, <3>3 DEF InHead
  <2>6. CASE p.kind # "more" /\ Parsed(p) # "bad" /\ Goes(Parsed(p))
    <3>1. outcome' # "ok" /\ at' = Parsed(p) /\ at' \in {"headers", "body"}
      BY <2>2, <2>6, <1>n DEF Goes, InHead, Parsed
    <3>2. CASE at = "status"
      <4>1. p.kind = "status" /\ at' = "headers" /\ length' = length /\ length = Undeclared
        BY <2>1, <2>6, <3>1, <3>2 DEF Parsed
      <4>2. StatusFirst' /\ NoBadLine'
        BY <2>4, <3>2, <4>1 DEF StatusFirst, NoBadLine
      <4>3. DeclaredOnce'
        BY <2>4, <3>2, <4>1 DEF DeclaredOnce
      <4> QED BY <3>1, <4>1, <4>2, <4>3
    <3>3. CASE at = "headers"
      <4>1. p.kind \in {"end", "plain", "length"} /\ (at' = "body" => p.kind = "end")
            /\ (p.kind = "length" => length = Undeclared /\ p.n <= MaxBody)
        BY <2>6, <3>1, <3>3 DEF Parsed, FirstLength
      <4>2. StatusFirst' /\ NoBadLine'
        BY <2>4, <3>3, <4>1 DEF StatusFirst, NoBadLine
      <4>3. at' = "body" => LastIsEnd'
        BY <2>4, <4>1 DEF LastIsEnd
      <4>4. DeclaredOnce'
        <5>1. CASE p.kind = "length"
          <6>1. length' = p.n /\ p.n # Undeclared
            BY <2>1, <4>1, <5>1, NodeCallAssumption DEF Undeclared, Pieces, Piece
          <6>2. \A i \in 1..Len(heard) : heard[i].kind # "length"
            BY <3>3, <4>1, <5>1 DEF DeclaredOnce
          <6> QED BY <2>4, <5>1, <6>1, <6>2 DEF DeclaredOnce
        <5>2. CASE p.kind # "length"
          BY <2>1, <2>4, <3>3, <5>2 DEF DeclaredOnce
        <5> QED BY <5>1, <5>2
      <4> QED BY <3>1, <4>2, <4>3, <4>4
    <3> QED BY <2>2, <3>2, <3>3 DEF InHead
  <2> QED BY <2>1, <2>3, <2>5, <2>6
<1>8. CASE HeadCutShort
  BY <1>8 DEF HeadCutShort, Fails
<1>9. CASE BodyFull
  <2>1. UNCHANGED <<heard, length, body, closed>> /\ at = "body" /\ body = BodyLimit
    BY <1>9 DEF BodyFull, replyVars
  <2>2. CASE Fails
    BY <2>2 DEF Fails
  <2>3. CASE Goes("decode") /\ body <= MaxBody
    <3>1. length # Undeclared /\ body = length
      BY <2>1, <2>3, <1>t DEF BodyLimit, CallTypeOK
    <3> QED BY <2>1, <2>3, <3>1, <1>k, <1>n DEF Goes
  <2> QED BY <1>9, <1>t, <2>2, <2>3 DEF BodyFull, CallTypeOK
<1>10. CASE BodyPiece
  BY <1>10, <1>n, <1>k DEF BodyPiece, Blocked, Goes
<1>11. CASE BodyEnds
  BY <1>11, <1>n, <1>k DEF BodyEnds, Blocked, Goes, Fails
<1>12. CASE Decode
  BY <1>12, <1>k DEF Decode, replyVars
<1>13. CASE UNCHANGED callVars
  BY <1>13, <1>k DEF callVars
<1> QED BY <1>1, <1>2, <1>3, <1>4, <1>5, <1>6, <1>7, <1>8, <1>9, <1>10, <1>11, <1>12, <1>13
        DEF CallNext, CallReturns, PeerActs

\* A result comes after a header that was read to its end and a whole body.
LEMMA HeardIsFramed == SizeInv /\ Heard => Framed
<1> SUFFICES ASSUME SizeInv, Heard, outcome = "ok" PROVE Framed
  BY DEF Framed
<1>1. StatusFirst /\ NoBadLine /\ DeclaredOnce /\ LastIsEnd
      /\ IF length = Undeclared THEN closed ELSE body = length
  BY DEF Heard
<1>2. {heard[i].kind : i \in 1..Len(heard)}
         \intersect {"chunked", "encoded", "garbled", "failure"} = {}
  BY <1>1 DEF NoBadLine
<1>3. CASE length = Undeclared
  <2>1. Declared = {}
    BY <1>1, <1>3 DEF DeclaredOnce, Declared
  <2> QED BY <1>1, <1>2, <1>3, <2>1 DEF Framed, StatusFirst, LastIsEnd
<1>4. CASE length # Undeclared
  <2>1. PICK i \in 1..Len(heard) :
          /\ heard[i].kind = "length" /\ heard[i].n = length
          /\ \A j \in 1..Len(heard) : heard[j].kind = "length" => j = i
    BY <1>1, <1>4 DEF DeclaredOnce
  <2>2. Declared = {i}
    BY <2>1 DEF Declared
  <2>3. Cardinality(Declared) = 1
    BY <2>2, FS_Singleton
  <2>4. Declared # {} /\ \A j \in Declared : heard[j].n = body /\ Cardinality(Declared) = 1
    BY <1>1, <1>4, <2>1, <2>2, <2>3
  <2> QED BY <1>1, <1>2, <2>4 DEF Framed, StatusFirst, LastIsEnd
<1> QED BY <1>3, <1>4

----
\* The theorems.

\* A call begins with its whole budget, and with nothing heard.
LEMMA AllInit == CallBegins => TimeInv /\ SizeInv /\ Heard
<1> SUFFICES ASSUME CallBegins PROVE TimeInv /\ SizeInv /\ Heard
  OBVIOUS
<1> USE NodeCallAssumption DEF NotBlocked, Undeclared
<1>1. TimeInv
  BY DEF CallBegins, CallAt, TimeInv, InCall, InTime
<1>2. SizeInv
  <2>1. heard \in Seq(Pieces) /\ Len(heard) = 0
    BY DEF CallBegins, CallAt
  <2>2. /\ at = "resolve" /\ now = 0 /\ wake = 0 /\ addresses = 0 /\ resolvedAt = 0
        /\ sent = 0 /\ used = 0 /\ length = Undeclared /\ body = 0
        /\ closed = FALSE /\ outcome = "none"
    BY DEF CallBegins, CallAt
  <2>3. CallTypeOK
    <3>1. (outcome = "none") = (at # "done") /\ closed \in BOOLEAN
      BY <2>2, Zenon
    <3>2. /\ now \in Nat /\ wake \in Nat /\ resolvedAt \in 0..Resolving
          /\ addresses \in 0..MaxAddresses /\ sent \in 0..Request
          /\ length \in 0..Undeclared /\ body \in 0..(MaxBody + 1)
          /\ used \in 0..(MaxHeader + 1) /\ used <= Len(heard)
      BY <2>1, <2>2
    <3> QED BY <2>1, <2>2, <3>1, <3>2 DEF CallTypeOK
  <2>4. Budgets /\ Bounded
    BY <2>1, <2>2 DEF Budgets, Bounded
  <2> QED BY <2>3, <2>4 DEF SizeInv
<1>3. Heard
  BY DEF CallBegins, CallAt, Heard
<1> QED BY <1>1, <1>2, <1>3

\* The types of the variables of a call: in particular the budgets, the
\* addresses and the request are never overrun.
THEOREM CallTypeCorrect == CallSpec => []CallTypeOK
<1>1. SizeInv => CallTypeOK
  BY DEF SizeInv
<1> QED BY AllInit, SizeStep, <1>1, PTL DEF CallSpec

\* However slowly the peer answers and whatever the deadline, the call is not
\* late (but for the resolution of the name) and a result is handed out only
\* before the deadline (rpc.rs: remaining, before every system call).
THEOREM NeverLate == CallSpec => []InTime
<1>1. SizeInv => CallTypeOK
  BY DEF SizeInv
<1>2. TimeInv => InTime
  BY DEF TimeInv
<1> QED BY AllInit, SizeStep, TimeStep, <1>1, <1>2, PTL DEF CallSpec

\* Whatever the peer sends, what the call reads is bounded by one header
\* budget and one body budget (rpc.rs: header_line, read_response).
THEOREM ReadsAreBounded == CallSpec => []Bounded
<1>1. SizeInv => Bounded
  BY DEF SizeInv
<1> QED BY AllInit, SizeStep, <1>1, PTL DEF CallSpec

\* A result comes from a reply whose extent is certain (rpc.rs: read_response).
THEOREM RepliesAreFramed == CallSpec => []Framed
<1> QED BY AllInit, SizeStep, HeardStep, HeardIsFramed, PTL DEF CallSpec

\* All of it: a call is over at its deadline, reads no more than its budgets and
\* returns what a whole reply said (rpc.rs: call).
THEOREM CallIsSound == CallSpec => []CallSound
<1>1. CallTypeOK /\ InTime /\ Framed /\ Bounded => CallSound
  BY DEF CallSound
<1> QED BY CallTypeCorrect, NeverLate, ReadsAreBounded, RepliesAreFramed, <1>1, PTL

----
\* Induction, without a predicate for a parameter.

\* A set of numbers has a least one: induction without a predicate parameter.
LEMMA LeastNumber ==
  ASSUME NEW T \in SUBSET Nat, T # {}
  PROVE  \E n \in T : \A m \in T : n <= m
<1>1. PICK R : /\ IsWellFoundedOn(R, Nat)
               /\ \A x, y \in Nat : <<y, x>> \in R <=> y < x
  <2>1. IsWellFoundedOn(OpToRel(<, Nat), Nat)
    BY NatLessThanWellFounded
  <2>2. \A x, y \in Nat : <<y, x>> \in OpToRel(<, Nat) <=> y < x
    BY DEF OpToRel
  <2> QED  BY <2>1, <2>2, Zenon
<1>2. PICK x \in T : \A y \in T : ~ (<<y, x>> \in R)
  BY <1>1, WFMin
<1>3. ASSUME NEW y \in T PROVE x <= y
  <2>1. x \in Nat /\ y \in Nat /\ <<y, x>> \notin R
    BY <1>2
  <2> QED
    BY <1>1, <2>1
<1> QED
  BY <1>3

\* Induction for the numbers in a set.
LEMMA Induct ==
  ASSUME NEW S, 0 \in S, \A n \in Nat : n \in S => n + 1 \in S
  PROVE  Nat \subseteq S
<1> DEFINE T == {n \in Nat : n \notin S}
<1> SUFFICES ASSUME T # {} PROVE FALSE
  OBVIOUS
<1>1. PICK n \in T : \A m \in T : n <= m
  BY LeastNumber
<1>2. n # 0 /\ n - 1 \in Nat
  OBVIOUS
<1>3. n - 1 \in S
  BY <1>1, <1>2
<1>4. (n - 1) + 1 = n
  OBVIOUS
<1> QED
  BY <1>1, <1>2, <1>3, <1>4

\* A function on the numbers given by its first value and a step.
Iterates(f, S, c, step) ==
  /\ f \in [Nat -> S] /\ f[0] = c
  /\ \A n \in Nat : f[n + 1] = step[<<n, f[n]>>]

\* ... up to n.
Begins(g, n, S, c, step) ==
  /\ g \in [0..n -> S] /\ g[0] = c
  /\ \A i \in Nat : i < n => g[i + 1] = step[<<i, g[i]>>]

\* A function may be iterated: the n-th value is the step of the one before.
LEMMA Iteration ==
  ASSUME NEW S, NEW c \in S, NEW step \in [Nat \X S -> S]
  PROVE  \E f : Iterates(f, S, c, step)
<1>1. ASSUME NEW n \in Nat, NEW g, Begins(g, n, S, c, step)
      PROVE  \E h : Begins(h, n + 1, S, c, step)
  <2> DEFINE h == [i \in 0..(n + 1) |-> IF i = n + 1 THEN step[<<n, g[n]>>] ELSE g[i]]
  <2>1. g \in [0..n -> S] /\ g[0] = c /\ \A i \in Nat : i < n => g[i + 1] = step[<<i, g[i]>>]
    BY <1>1 DEF Begins
  <2>2. step[<<n, g[n]>>] \in S
    BY <2>1
  <2>3. h \in [0..(n + 1) -> S]
    <3>1. ASSUME NEW i \in 0..(n + 1) PROVE (IF i = n + 1 THEN step[<<n, g[n]>>] ELSE g[i]) \in S
      BY <2>1, <2>2
    <3> QED BY <3>1
  <2>4. h[0] = c
    BY <2>1
  <2>5. ASSUME NEW i \in Nat, i < n + 1 PROVE h[i + 1] = step[<<i, h[i]>>]
    <3>1. h[i] = g[i]
      BY <2>5
    <3>2. CASE i = n
      <4>1. h[n + 1] = step[<<n, g[n]>>]
        OBVIOUS
      <4> QED BY <3>1, <3>2, <4>1
    <3>3. CASE i # n
      <4>1. h[i + 1] = g[i + 1]
        BY <2>5, <3>3
      <4>2. i < n
        BY <2>5, <3>3
      <4> QED BY <2>1, <3>1, <4>1, <4>2
    <3> QED BY <3>2, <3>3
  <2> HIDE DEF h
  <2> QED BY <2>3, <2>4, <2>5 DEF Begins
<1>2. ASSUME NEW n \in Nat, NEW m \in Nat, n <= m, NEW g, NEW h,
             Begins(g, n, S, c, step), Begins(h, m, S, c, step)
      PROVE  g[n] = h[n]
  <2> DEFINE T == {i \in Nat : i <= n => g[i] = h[i]}
  <2>1. 0 \in T
    BY <1>2 DEF Begins
  <2>2. ASSUME NEW i \in Nat, i \in T PROVE i + 1 \in T
    <3> SUFFICES ASSUME i + 1 <= n PROVE g[i + 1] = h[i + 1]
      OBVIOUS
    <3>1. i < n /\ i < m /\ g[i] = h[i]
      BY <1>2, <2>2
    <3> QED BY <1>2, <3>1 DEF Begins
  <2>3. Nat \subseteq T
    <3> HIDE DEF T
    <3> QED BY <2>1, <2>2, Induct
  <2> QED BY <2>3
<1>3. \A n \in Nat : \E g : Begins(g, n, S, c, step)
  <2> DEFINE T == {n \in Nat : \E g : Begins(g, n, S, c, step)}
  <2>1. 0 \in T
    <3>1. Begins([i \in 0..0 |-> c], 0, S, c, step)
      BY DEF Begins
    <3> QED BY <3>1
  <2>2. ASSUME NEW n \in Nat, n \in T PROVE n + 1 \in T
    BY <1>1, <2>2
  <2>3. Nat \subseteq T
    <3> HIDE DEF T
    <3> QED BY <2>1, <2>2, Induct
  <2> QED BY <2>3
<1> DEFINE pick(n) == CHOOSE g : Begins(g, n, S, c, step)
           f == [n \in Nat |-> pick(n)[n]]
<1>4. ASSUME NEW n \in Nat PROVE Begins(pick(n), n, S, c, step) /\ f[n] = pick(n)[n]
  <2>1. Begins(pick(n), n, S, c, step)
    BY <1>3
  <2> QED BY <2>1
<1> HIDE DEF pick, f
<1>5. ASSUME NEW n \in Nat PROVE f[n] \in S
  <2>1. pick(n) \in [0..n -> S]
    BY <1>4 DEF Begins
  <2> QED BY <1>4, <2>1
<1>6. f[0] = c
  BY <1>4 DEF Begins
<1>7. ASSUME NEW n \in Nat PROVE f[n + 1] = step[<<n, f[n]>>]
  <2>1. n + 1 \in Nat /\ n < n + 1 /\ n <= n + 1
    OBVIOUS
  <2>2. Begins(pick(n + 1), n + 1, S, c, step) /\ f[n + 1] = pick(n + 1)[n + 1]
    BY <1>4, <2>1
  <2>3. pick(n + 1)[n + 1] = step[<<n, pick(n + 1)[n]>>]
    BY <2>1, <2>2 DEF Begins
  <2>4. pick(n + 1)[n] = pick(n)[n]
    BY <1>2, <1>4, <2>1, <2>2
  <2> QED
    BY <1>4, <2>2, <2>3, <2>4
<1>8. f \in [Nat -> S]
  BY <1>5 DEF f
<1> QED
  BY <1>6, <1>7, <1>8 DEF Iterates

----
\* Products and quotients of numbers.

\* The laws of multiplication the quotients rest on.
LEMMA Products ==
  ASSUME NEW a \in Nat, NEW b \in Nat, NEW c \in Nat
  PROVE  /\ a * b \in Nat /\ a * b = b * a /\ (a * b) * c = a * (b * c)
         /\ a * (b + c) = a * b + a * c
         /\ a <= b => c * a <= c * b
         /\ a < b /\ c # 0 => c * a < c * b
<1>1. a * b \in Nat /\ a * b = b * a
  OBVIOUS
<1>2. (a * b) * c = a * (b * c)
  OBVIOUS
<1>3. a * (b + c) = a * b + a * c
  OBVIOUS
<1>4. ASSUME a <= b PROVE c * a <= c * b
  <2>1. PICK d \in Nat : b = a + d
    <3>1. b - a \in Nat /\ b = a + (b - a)
      BY <1>4
    <3> QED BY <3>1
  <2>2. c * b = c * a + c * d
    BY <2>1
  <2>3. c * d \in Nat /\ c * a \in Nat
    OBVIOUS
  <2> QED BY <2>2, <2>3
<1>5. ASSUME a < b, c # 0 PROVE c * a < c * b
  <2>1. PICK d \in Nat : b = (a + 1) + d
    <3>1. b - (a + 1) \in Nat /\ b = (a + 1) + (b - (a + 1))
      BY <1>5
    <3> QED BY <3>1
  <2>2. c * b = c * a + c + c * d
    BY <2>1
  <2>3. c * d \in Nat /\ c * a \in Nat
    OBVIOUS
  <2> QED BY <1>5, <2>2, <2>3
<1> QED BY <1>1, <1>2, <1>3, <1>4, <1>5

\* What division and remainder are.
LEMMA Quotients ==
  ASSUME NEW m \in Nat, NEW d \in Nat, d # 0
  PROVE  /\ m \div d \in Nat /\ m % d \in Nat /\ m % d < d
         /\ m = d * (m \div d) + (m % d)
OBVIOUS

\* Division and remainder are the only numbers that add up.
LEMMA QuotientIs ==
  ASSUME NEW m \in Nat, NEW d \in Nat, NEW q \in Nat, NEW r \in Nat, r < d, m = d * q + r
  PROVE  m \div d = q /\ m % d = r
<1> DEFINE p == m \div d
           s == m % d
<1>1. p \in Nat /\ s \in Nat /\ s < d /\ d * q + r = d * p + s
  BY Quotients
<1> HIDE DEF p, s
<1>2. ASSUME NEW x \in Nat, NEW y \in Nat, NEW u \in Nat, NEW v \in Nat, u < d, v < d,
             d * x + u = d * y + v
      PROVE  ~ (x < y)
  <2> SUFFICES ASSUME x < y PROVE FALSE
    OBVIOUS
  <2>1. d * (x + 1) <= d * y
    BY Products
  <2>2. d * (x + 1) = d * x + d
    OBVIOUS
  <2>3. d * x \in Nat /\ d * y \in Nat
    OBVIOUS
  <2> QED BY <1>2, <2>1, <2>2, <2>3
<1>3. p = q
  BY <1>1, <1>2
<1>4. s = r
  <2>1. d * q \in Nat
    OBVIOUS
  <2> QED BY <1>1, <1>3, <2>1
<1> QED BY <1>3, <1>4 DEF p, s

\* Dividing twice, and dividing a multiple.
LEMMA QuotientOfQuotient ==
  ASSUME NEW m \in Nat, NEW b \in Nat, NEW p \in Nat, b # 0, p # 0
  PROVE  b * p # 0 /\ m \div (b * p) = (m \div p) \div b
<1> DEFINE q == m \div p
           r == m % p
           x == q \div b
           y == q % b
<1>1. q \in Nat /\ r \in Nat /\ r < p /\ m = p * q + r
  BY Quotients
<1> HIDE DEF q, r
<1>2. x \in Nat /\ y \in Nat /\ y < b /\ q = b * x + y
  BY <1>1, Quotients
<1> HIDE DEF x, y
<1>3. m = (b * p) * x + (p * y + r)
  <2>1. p * q = p * (b * x) + p * y
    BY <1>2
  <2>2. p * (b * x) = (b * p) * x
    BY <1>2
  <2> QED BY <1>1, <1>2, <2>1, <2>2
<1>4. p * y + r < b * p /\ p * y + r \in Nat /\ b * p \in Nat /\ b * p # 0
  <2>1. y + 1 \in Nat /\ y + 1 <= b
    BY <1>2
  <2>2. p * (y + 1) <= p * b
    BY <2>1, Products
  <2>3. p * (y + 1) = p * y + p /\ p * b = b * p /\ p * y \in Nat /\ b * p \in Nat
    BY <1>2
  <2> QED BY <1>1, <2>2, <2>3
<1>5. m \div (b * p) = x
  <2> DEFINE d == b * p
             e == p * y + r
  <2>1. d \in Nat /\ e \in Nat /\ e < d /\ m = d * x + e
    BY <1>3, <1>4
  <2> HIDE DEF d, e
  <2>2. m \div d = x
    BY <1>2, <2>1, QuotientIs
  <2> QED BY <2>2 DEF d
<1> QED BY <1>4, <1>5 DEF x, q

\* A common factor cancels in a quotient.
LEMMA QuotientOfMultiple ==
  ASSUME NEW m \in Nat, NEW n \in Nat, NEW p \in Nat, p # 0, n # 0
  PROVE  (m * p) \div (n * p) = m \div n
<1>1. m \in Nat /\ m * p \in Nat /\ (m * p) \div p = m
  <2>1. m * p \in Nat /\ m * p = p * m + 0 /\ 0 < p
    OBVIOUS
  <2> DEFINE a == m * p
  <2> HIDE DEF a
  <2>2. a \div p = m
    BY <2>1, QuotientIs DEF a
  <2> QED BY <2>1, <2>2 DEF a
<1> DEFINE a == m * p
<1>2. a \div (n * p) = (a \div p) \div n
  <2> HIDE DEF a
  <2>1. a \in Nat
    BY <1>1 DEF a
  <2> QED BY <2>1, QuotientOfQuotient
<1> QED BY <1>1, <1>2

----
\* Powers of the base.

\* The powers of the base, defined by recursion.
LEMMA PowerIs ==
  /\ Power[0] = 1
  /\ \A n \in Nat : Power[n] \in Nat \ {0} /\ Power[n + 1] = Base * Power[n]
<1> DEFINE S == Nat \ {0}
           step == [p \in Nat \X S |-> Base * p[2]]
<1>1. Base \in Nat \ {0, 1}
  BY JobIntakeAssumption
<1>2. step \in [Nat \X S -> S]
  BY <1>1
<1>3. PICK f : Iterates(f, S, 1, step)
  <2>1. 1 \in S
    OBVIOUS
  <2> HIDE DEF step, S
  <2> QED BY <1>2, <2>1, Iteration
<1>4. f \in [Nat -> S] /\ f[0] = 1 /\ \A n \in Nat : f[n + 1] = Base * f[n]
  <2>1. f \in [Nat -> S] /\ f[0] = 1 /\ \A n \in Nat : f[n + 1] = step[<<n, f[n]>>]
    BY <1>3 DEF Iterates
  <2>2. ASSUME NEW n \in Nat PROVE step[<<n, f[n]>>] = Base * f[n]
    <3>1. <<n, f[n]>> \in Nat \X S
      BY <2>1
    <3> QED BY <3>1
  <2> QED BY <2>1, <2>2
<1> HIDE DEF step
<1>5. f = [n \in Nat |-> IF n = 0 THEN 1 ELSE Base * f[n - 1]]
  <2>1. ASSUME NEW n \in Nat PROVE f[n] = IF n = 0 THEN 1 ELSE Base * f[n - 1]
    <3>1. CASE n = 0
      BY <1>4, <3>1
    <3>2. CASE n # 0
      <4>1. n - 1 \in Nat /\ (n - 1) + 1 = n
        BY <3>2
      <4> QED BY <1>4, <3>2, <4>1
    <3> QED BY <3>1, <3>2
  <2> QED BY <1>4, <2>1
<1>6. Power = [n \in Nat |-> IF n = 0 THEN 1 ELSE Base * Power[n - 1]]
  BY <1>5 DEF Power
<1>7. Power[0] = 1 /\ \A n \in Nat : Power[n + 1] = Base * Power[n]
  <2>1. ASSUME NEW n \in Nat PROVE Power[n + 1] = Base * Power[n]
    <3>1. n + 1 \in Nat /\ n + 1 # 0 /\ (n + 1) - 1 = n
      OBVIOUS
    <3> QED BY <1>6, <3>1
  <2> QED BY <1>6, <2>1
<1> DEFINE T == {n \in Nat : Power[n] \in S}
<1>8. Nat \subseteq T
  <2>1. 0 \in T
    BY <1>7
  <2>2. ASSUME NEW n \in Nat, n \in T PROVE n + 1 \in T
    BY <1>1, <1>7, <2>2
  <2> HIDE DEF T
  <2> QED BY <2>1, <2>2, Induct
<1> QED BY <1>7, <1>8

\* Adding exponents, and a larger exponent.
LEMMA PowerSum ==
  ASSUME NEW m \in Nat, NEW n \in Nat
  PROVE  Power[m + n] = Power[m] * Power[n]
<1> DEFINE T == {k \in Nat : Power[m + k] = Power[m] * Power[k]}
<1>0. Base \in Nat
  BY JobIntakeAssumption
<1>1. 0 \in T
  BY PowerIs
<1>2. ASSUME NEW k \in Nat, k \in T PROVE k + 1 \in T
  <2>1. Power[m + k] = Power[m] * Power[k] /\ m + k \in Nat /\ m + (k + 1) = (m + k) + 1
    BY <1>2
  <2>2. Power[m + (k + 1)] = Base * Power[m + k] /\ Power[k + 1] = Base * Power[k]
    BY <2>1, PowerIs
  <2>3. Power[m] \in Nat /\ Power[k] \in Nat
    BY PowerIs
  <2>4. Base * (Power[m] * Power[k]) = Power[m] * (Base * Power[k])
    BY <1>0, <2>3
  <2> QED BY <2>1, <2>2, <2>4
<1>3. Nat \subseteq T
  <2> HIDE DEF T
  <2> QED BY <1>1, <1>2, Induct
<1> QED BY <1>3

\* A higher power is at least as large.
LEMMA PowerGrows ==
  ASSUME NEW m \in Nat, NEW n \in Nat, m <= n
  PROVE  Power[m] <= Power[n]
<1>1. n - m \in Nat /\ n = m + (n - m)
  OBVIOUS
<1> DEFINE p == Power[n - m]
<1>2. p \in Nat /\ 1 <= p /\ Power[m] \in Nat /\ Power[n] = Power[m] * p
  <2>1. p \in Nat \ {0} /\ Power[m] \in Nat
    BY <1>1, PowerIs
  <2>2. Power[m + (n - m)] = Power[m] * p
    BY <1>1, PowerSum
  <2> QED BY <1>1, <2>1, <2>2
<1> HIDE DEF p
<1>3. Power[m] * 1 <= Power[m] * p
  BY <1>2, Products
<1> QED BY <1>2, <1>3

\* The powers a compact target shifts its mantissa by.
LEMMA FirstPowers ==
  /\ Power[1] = Base /\ Power[2] = Base * Base /\ Power[3] = Base * Base * Base
<1>1. Power[0 + 1] = Base * Power[0] /\ Power[1 + 1] = Base * Power[1] /\ Power[2 + 1] = Base * Power[2]
  BY PowerIs
<1>2. Power[1] = Base
  BY <1>1, PowerIs, JobIntakeAssumption
<1>3. Power[2] = Base * Base
  BY <1>1, <1>2
<1>4. Power[3] = Base * Base * Base
  BY <1>1, <1>3, JobIntakeAssumption
<1> QED BY <1>2, <1>3, <1>4

----
\* The digits of a number.

IsDigits(t) == t \in [0..(Width - 1) -> 0..(Base - 1)]

\* Every digit adds itself to the base times the number before it.
LEMMA LeadingIs ==
  ASSUME NEW t, IsDigits(t)
  PROVE  /\ Leading(t)[0] = 0
         /\ \A i \in 0..(Width - 1) : Leading(t)[i + 1] = Base * Leading(t)[i] + t[i]
<1> DEFINE step == [p \in Nat \X Nat |-> IF p[1] < Width THEN Base * p[2] + t[p[1]] ELSE 0]
<1>1. Base \in Nat /\ Width \in Nat
  BY JobIntakeAssumption
<1>2. step \in [Nat \X Nat -> Nat]
  <2>1. ASSUME NEW p \in Nat \X Nat PROVE step[p] \in Nat
    <3>1. p[1] \in Nat /\ p[2] \in Nat /\ Base * p[2] \in Nat
      BY <1>1
    <3>2. p[1] < Width => t[p[1]] \in Nat
      BY <1>1, <3>1 DEF IsDigits
    <3> QED BY <3>1, <3>2
  <2> QED BY <2>1
<1>3. PICK f : Iterates(f, Nat, 0, step)
  <2> HIDE DEF step
  <2> QED BY <1>2, Iteration
<1>4. f \in [Nat -> Nat] /\ f[0] = 0 /\ \A n \in Nat : n < Width => f[n + 1] = Base * f[n] + t[n]
  <2>1. f \in [Nat -> Nat] /\ f[0] = 0 /\ \A n \in Nat : f[n + 1] = step[<<n, f[n]>>]
    BY <1>3 DEF Iterates
  <2>2. ASSUME NEW n \in Nat, n < Width PROVE step[<<n, f[n]>>] = Base * f[n] + t[n]
    <3>1. <<n, f[n]>> \in Nat \X Nat
      BY <2>1
    <3> QED BY <2>2, <3>1
  <2> QED BY <2>1, <2>2
<1> HIDE DEF step
<1> DEFINE g == [i \in 0..Width |-> f[i]]
           isUpto(u) == u = [i \in 0..Width |-> IF i = 0 THEN 0 ELSE Base * u[i - 1] + t[i - 1]]
<1>5. isUpto(g)
  <2>1. ASSUME NEW i \in 0..Width PROVE g[i] = IF i = 0 THEN 0 ELSE Base * g[i - 1] + t[i - 1]
    <3>1. CASE i = 0
      BY <1>4, <3>1
    <3>2. CASE i # 0
      <4>1. i - 1 \in Nat /\ i - 1 < Width /\ (i - 1) + 1 = i /\ i - 1 \in 0..Width /\ i \in Nat
        BY <1>1, <3>2
      <4>2. g[i - 1] = f[i - 1] /\ g[i] = f[i]
        BY <4>1
      <4>3. f[i] = Base * f[i - 1] + t[i - 1]
        BY <1>4, <4>1
      <4> QED BY <3>2, <4>2, <4>3
    <3> QED BY <3>1, <3>2
  <2> QED BY <2>1
<1>6. isUpto(Leading(t))
  <2>1. Leading(t) = CHOOSE u : isUpto(u)
    BY DEF Leading
  <2> HIDE DEF isUpto, g
  <2> QED BY <1>5, <2>1
<1>7. Leading(t)[0] = 0
  BY <1>1, <1>6
<1>8. ASSUME NEW i \in 0..(Width - 1) PROVE Leading(t)[i + 1] = Base * Leading(t)[i] + t[i]
  <2>1. i + 1 \in 0..Width /\ i + 1 # 0 /\ (i + 1) - 1 = i
    BY <1>1
  <2> QED BY <1>6, <2>1
<1> QED BY <1>7, <1>8

\* The digits of a number are digits, and which ones.
LEMMA DigitsAreDigits ==
  ASSUME NEW n \in Nat
  PROVE  /\ IsDigits(Digits(n))
         /\ \A i \in 0..(Width - 1) : Digits(n)[i] = (n \div Power[Width - 1 - i]) % Base
<1>1. Base \in Nat /\ Base # 0 /\ Width \in Nat
  BY JobIntakeAssumption
<1>2. ASSUME NEW i \in 0..(Width - 1) PROVE (n \div Power[Width - 1 - i]) % Base \in 0..(Base - 1)
  <2> DEFINE p == Power[Width - 1 - i]
  <2>1. p \in Nat /\ p # 0
    <3>1. Width - 1 - i \in Nat
      BY <1>1
    <3> QED BY <3>1, PowerIs
  <2> HIDE DEF p
  <2>2. n \div p \in Nat
    BY <2>1, Quotients
  <2>3. (n \div p) % Base \in Nat /\ (n \div p) % Base < Base
    BY <1>1, <2>2, Quotients
  <2> QED BY <1>1, <2>3 DEF p
<1> QED BY <1>2 DEF IsDigits, Digits

\* A number is the value of its digits, if they are enough.
LEMMA ValueOfDigits ==
  ASSUME NEW n \in Nat, n < Power[Width]
  PROVE  Value(Digits(n)) = n
<1> DEFINE u == Leading(Digits(n))
           T == {i \in Nat : i <= Width => u[i] = n \div Power[Width - i]}
<1>1. Base \in Nat /\ Base # 0 /\ Width \in Nat
  BY JobIntakeAssumption
<1>2. u[0] = 0 /\ \A i \in 0..(Width - 1) : u[i + 1] = Base * u[i] + ((n \div Power[Width - 1 - i]) % Base)
  BY DigitsAreDigits, LeadingIs
<1>3. 0 \in T
  <2>1. Power[Width] \in Nat /\ n = Power[Width] * 0 + n
    BY <1>1, PowerIs
  <2>2. n \div Power[Width] = 0
    BY <2>1, QuotientIs
  <2>3. Width - 0 = Width
    BY <1>1
  <2> QED BY <1>2, <2>2, <2>3
<1>4. ASSUME NEW i \in Nat, i \in T PROVE i + 1 \in T
  <2> SUFFICES ASSUME i + 1 <= Width PROVE u[i + 1] = n \div Power[Width - (i + 1)]
    OBVIOUS
  <2> DEFINE k == Width - (i + 1)
             p == Power[k]
             q == n \div p
  <2>1. /\ k \in Nat /\ Width - i = k + 1 /\ Width - 1 - i = k /\ i \in 0..(Width - 1) /\ i <= Width
    BY <1>1
  <2>2. p \in Nat /\ p # 0 /\ Power[Width - i] = Base * p
    BY <2>1, PowerIs
  <2>3. q \in Nat
    <3> HIDE DEF p
    <3> QED BY <2>2, Quotients
  <2>4. n \div Power[Width - i] = q \div Base
    <3> HIDE DEF p, k
    <3>1. n \div (Base * p) = (n \div p) \div Base
      BY <1>1, <2>2, QuotientOfQuotient
    <3> QED BY <2>2, <3>1
  <2>5. u[i] = q \div Base
    BY <1>4, <2>1, <2>4
  <2>6. u[i + 1] = Base * u[i] + (q % Base)
    BY <1>2, <2>1
  <2>7. q = Base * (q \div Base) + (q % Base)
    <3> HIDE DEF q
    <3> QED BY <1>1, <2>3, Quotients
  <2>8. u[i + 1] = q
    <3> HIDE DEF q, u
    <3> QED BY <2>5, <2>6, <2>7
  <2> QED BY <2>8
<1>5. Nat \subseteq T
  <2> HIDE DEF T
  <2> QED BY <1>3, <1>4, Induct
<1>6. u[Width] = n \div Power[0]
  <2>1. Width \in T /\ Width <= Width /\ Width - Width = 0
    BY <1>1, <1>5
  <2> QED BY <2>1
<1>7. n \div 1 = n
  <2>1. n = 1 * n + 0
    OBVIOUS
  <2> QED BY <2>1, QuotientIs
<1> QED BY <1>6, <1>7, PowerIs DEF Value

----
\* target_from_compact.

\* The sign bit of a mantissa is within its three digits.
LEMMA HalfIs == Half \in Nat /\ Half # 0 /\ Half <= Power[3]
<1> DEFINE c == Base * Base * Base
<1>1. Base \in Nat /\ 2 <= Base
  BY JobIntakeAssumption
<1>2. c \in Nat /\ 2 <= c
  <2>1. 2 * 2 <= Base * Base /\ Base * Base \in Nat
    <3>1. Base * 2 <= Base * Base
      BY <1>1, Products
    <3> QED BY <1>1, <3>1
  <2>2. (Base * Base) * 2 <= (Base * Base) * Base
    BY <1>1, <2>1, Products
  <2> QED BY <1>1, <2>1, <2>2
<1> HIDE DEF c
<1>3. c \div 2 \in Nat /\ c \div 2 # 0 /\ c \div 2 <= c
  BY <1>2
<1> QED BY <1>3, FirstPowers DEF Half, c

\* A mantissa placed at an offset has the digits of a multiple of it.
LEMMA PlacedIs ==
  ASSUME NEW n \in Nat, NEW size \in Nat, size >= 3, n < Power[3]
  PROVE  Placed(n, size) = Digits(n * Power[size - 3])
<1>1. Base \in Nat /\ Base # 0 /\ Width \in Nat /\ Width >= 3
  BY JobIntakeAssumption
<1> DEFINE e == size - 3
           m == n * Power[e]
           P(k) == Power[k]
<1>2. e \in Nat /\ Power[e] \in Nat /\ Power[e] # 0 /\ m \in Nat
  BY PowerIs
<1>3. ASSUME NEW i \in 0..(Width - 1)
      PROVE  (IF i + size - Width \in 0..2 THEN Digit(n, i + size - Width) ELSE 0)
                = (m \div Power[Width - 1 - i]) % Base
  <2> DEFINE o == i + size - Width
             k == Width - 1 - i
  <2>1. k \in Nat /\ o \in Int /\ k = e + (2 - o) /\ Power[k] \in Nat /\ Power[k] # 0
    BY <1>1, <1>2, PowerIs
  <2>2. CASE o \in 0..2
    <3>1. 2 - o \in Nat /\ Power[2 - o] \in Nat /\ Power[2 - o] # 0
      BY <2>2, PowerIs
    <3>2. Power[k] = Power[2 - o] * Power[e]
      <4>1. Power[(2 - o) + e] = Power[2 - o] * Power[e]
        BY <1>2, <3>1, PowerSum
      <4>2. (2 - o) + e = k
        BY <1>2, <2>1
      <4> QED BY <4>1, <4>2
    <3>3. m \div Power[k] = n \div Power[2 - o]
      <4> DEFINE x == Power[e]
                 y == Power[2 - o]
      <4>1. x \in Nat /\ x # 0 /\ y \in Nat /\ y # 0
        BY <1>2, <3>1
      <4> HIDE DEF x, y
      <4>2. (n * x) \div (y * x) = n \div y
        BY <4>1, QuotientOfMultiple
      <4> QED BY <3>2, <4>2 DEF x, y
    <3> QED BY <2>2, <3>3 DEF Digit
  <2>3. CASE o < 0
    <3>1. size \in Nat /\ size <= k
      BY <1>2, <2>1, <2>3
    <3>2. m < Power[k]
      <4>1. Power[3 + e] = Power[3] * Power[e] /\ 3 + e = size
        BY <1>2, PowerSum
      <4>2. n * Power[e] < Power[3] * Power[e]
        <5>1. Power[e] * n < Power[e] * Power[3] /\ Power[3] \in Nat
          BY <1>2, PowerIs, Products
        <5>2. Power[e] * n = n * Power[e] /\ Power[e] * Power[3] = Power[3] * Power[e]
          BY <1>2, <5>1, Products
        <5> QED BY <5>1, <5>2
      <4>3. Power[size] <= Power[k] /\ Power[size] \in Nat
        BY <2>1, <3>1, PowerGrows, PowerIs
      <4> QED BY <1>2, <2>1, <4>1, <4>2, <4>3
    <3>3. m \div Power[k] = 0
      <4>1. m = Power[k] * 0 + m
        BY <1>2, <2>1
      <4> HIDE DEF m, k
      <4> QED BY <1>2, <2>1, <3>2, <4>1, QuotientIs
    <3>4. 0 % Base = 0
      <4>1. 0 = Base * 0 + 0 /\ 0 < Base
        BY <1>1
      <4> QED BY <1>1, <4>1, QuotientIs
    <3> QED BY <2>3, <3>3, <3>4
  <2>4. CASE o > 2
    <3> DEFINE d == o - 3
               q == n * Power[d]
    <3>1. d \in Nat /\ e = (d + k) + 1 /\ Power[d] \in Nat
      <4>1. d \in Nat /\ e = (d + k) + 1
        BY <1>2, <2>1, <2>4
      <4> QED BY <4>1, PowerIs
    <3>2. Power[e] = Base * (Power[d] * Power[k])
      <4>1. d + k \in Nat
        BY <2>1, <3>1
      <4>2. Power[(d + k) + 1] = Base * Power[d + k] /\ Power[d + k] = Power[d] * Power[k]
        <5> HIDE DEF d, k
        <5> QED BY <2>1, <3>1, <4>1, PowerIs, PowerSum
      <4> QED BY <3>1, <4>2
    <3>3. q \in Nat /\ Base * q \in Nat
      BY <1>1, <3>1
    <3>4. m = (Base * q) * Power[k]
      <4> DEFINE x == Power[d]
                 y == Power[k]
      <4>1. x \in Nat /\ y \in Nat
        BY <2>1, <3>1
      <4> HIDE DEF x, y
      <4>2. n * (Base * (x * y)) = (Base * (n * x)) * y
        BY <1>1, <4>1
      <4> QED BY <3>2, <4>2 DEF x, y
    <3>5. m \div Power[k] = Base * q
      <4> DEFINE r == Base * q
                 y == Power[k]
      <4>1. r \in Nat /\ y \in Nat /\ y # 0 /\ m = r * y
        BY <2>1, <3>3, <3>4
      <4> HIDE DEF r, y, m
      <4>2. r * y = y * r + 0 /\ 0 < y
        BY <4>1
      <4>3. m \div y = r
        BY <1>2, <4>1, <4>2, QuotientIs
      <4> QED BY <4>3 DEF r, y
    <3>6. (Base * q) % Base = 0
      <4> DEFINE r == Base * q
      <4>1. r = Base * q + 0 /\ 0 < Base /\ r \in Nat
        BY <1>1, <3>3
      <4> HIDE DEF r, q
      <4>2. r % Base = 0
        BY <1>1, <3>3, <4>1, QuotientIs
      <4> QED BY <4>2 DEF r
    <3> QED BY <2>4, <3>5, <3>6
  <2> QED BY <2>1, <2>2, <2>3, <2>4
<1> HIDE DEF m
<1>4. Placed(n, size) = [i \in 0..(Width - 1) |-> (m \div Power[Width - 1 - i]) % Base]
  BY <1>3 DEF Placed
<1> QED BY <1>4 DEF Digits, m

\* A mantissa at the end has its own digits.
LEMMA EndingIs ==
  ASSUME NEW n \in Nat, n < Power[3]
  PROVE  Ending(n) = Digits(n)
<1>1. Base \in Nat /\ Base # 0 /\ Width \in Nat /\ Width >= 3
  BY JobIntakeAssumption
<1>2. ASSUME NEW i \in 0..(Width - 1)
      PROVE  (IF i < Width - 3 THEN 0 ELSE Digit(n, i - (Width - 3)))
                = (n \div Power[Width - 1 - i]) % Base
  <2> DEFINE k == Width - 1 - i
  <2>1. k \in Nat /\ Power[k] \in Nat /\ Power[k] # 0
    BY <1>1, PowerIs
  <2>2. CASE i < Width - 3
    <3>1. 3 <= k
      BY <1>1, <2>2
    <3>2. Power[3] <= Power[k] /\ Power[3] \in Nat
      BY <2>1, <3>1, PowerGrows, PowerIs
    <3>3. n \div Power[k] = 0
      <4>1. n = Power[k] * 0 + n /\ n < Power[k]
        BY <2>1, <3>2
      <4> HIDE DEF k
      <4> QED BY <2>1, <4>1, QuotientIs
    <3>4. 0 % Base = 0
      <4>1. 0 = Base * 0 + 0 /\ 0 < Base
        BY <1>1
      <4> QED BY <1>1, <4>1, QuotientIs
    <3> QED BY <2>2, <3>3, <3>4
  <2>3. CASE ~ (i < Width - 3)
    <3>1. 2 - (i - (Width - 3)) = k
      BY <1>1
    <3> QED BY <2>3, <3>1 DEF Digit
  <2> QED BY <2>2, <2>3
<1> QED BY <1>2 DEF Ending, Digits

\* The thresholds of target_from_compact are those of the numbers that need
\* more than Width digits.
LEMMA OverflowsIs ==
  ASSUME NEW n \in Nat, n # 0, n < Power[3], NEW size \in Nat, size >= 3
  PROVE  Overflows(n, size) <=> n * Power[size - 3] >= Power[Width]
<1>1. Base \in Nat /\ Base # 0 /\ Width \in Nat /\ Width >= 3
  BY JobIntakeAssumption
<1> DEFINE e == size - 3
<1>2. e \in Nat /\ Power[e] \in Nat /\ Power[e] # 0 /\ Power[Width] \in Nat
  BY <1>1, PowerIs
<1>3. \A a, b \in Nat : a < b <=> a * Power[e] < b * Power[e]
  <2> DEFINE x == Power[e]
  <2>1. x \in Nat /\ x # 0
    BY <1>2
  <2> HIDE DEF x
  <2>2. ASSUME NEW a \in Nat, NEW b \in Nat PROVE a < b <=> a * x < b * x
    <3>1. a * x = x * a /\ b * x = x * b /\ x * a \in Nat /\ x * b \in Nat
      BY <2>1, Products
    <3>2. a < b => x * a < x * b
      BY <2>1, Products
    <3>3. b <= a => x * b <= x * a
      BY <2>1, Products
    <3> QED BY <3>1, <3>2, <3>3
  <2> QED BY <2>2 DEF x
<1>4. CASE size <= Width
  <2>1. ~ Overflows(n, size)
    BY <1>1, <1>4 DEF Overflows
  <2>2. Power[3 + e] = Power[3] * Power[e] /\ 3 + e = size /\ Power[3] \in Nat
    <3>1. Power[3 + e] = Power[3] * Power[e]
      BY <1>2, PowerSum
    <3>2. 3 + e = size
      OBVIOUS
    <3> QED BY <3>1, <3>2, PowerIs
  <2>3. n * Power[e] < Power[3] * Power[e]
    BY <1>3, <2>2
  <2>4. Power[size] <= Power[Width] /\ Power[size] \in Nat
    BY <1>1, <1>4, PowerGrows, PowerIs
  <2>5. n * Power[e] \in Nat
    BY <1>2
  <2> QED BY <1>2, <2>1, <2>2, <2>3, <2>4, <2>5
<1>5. CASE size = Width + 1
  <2>1. Overflows(n, size) <=> n > Base * Base - 1 \/ (n > Base - 1 /\ size > Width + 1)
    BY <1>1, <1>5 DEF Overflows
  <2>2. Power[2 + e] = Power[2] * Power[e] /\ 2 + e = Width /\ Power[2] = Base * Base /\ Power[2] \in Nat
    <3>1. Power[2 + e] = Power[2] * Power[e]
      BY <1>2, PowerSum
    <3>2. 2 + e = Width
      BY <1>1, <1>5
    <3> QED BY <3>1, <3>2, PowerIs, FirstPowers
  <2>3. n < Power[2] <=> n * Power[e] < Power[Width]
    BY <1>3, <2>2
  <2>4. n * Power[e] \in Nat
    BY <1>2
  <2> QED BY <1>1, <1>2, <1>5, <2>1, <2>2, <2>3, <2>4
<1>6. CASE size = Width + 2
  <2>1. Overflows(n, size) <=> n > Base - 1
    <3>1. Base - 1 <= Base * Base - 1 /\ Base * Base \in Nat
      <4>1. Base * 1 <= Base * Base
        BY <1>1, Products
      <4> QED BY <1>1, <4>1
    <3> QED BY <1>1, <1>6, <3>1 DEF Overflows
  <2>2. Power[1 + e] = Power[1] * Power[e] /\ 1 + e = Width /\ Power[1] = Base
    <3>1. Power[1 + e] = Power[1] * Power[e]
      BY <1>2, PowerSum
    <3>2. 1 + e = Width
      BY <1>1, <1>6
    <3> QED BY <3>1, <3>2, FirstPowers
  <2>3. n < Base <=> n * Power[e] < Power[Width]
    BY <1>1, <1>3, <2>2
  <2>4. n * Power[e] \in Nat
    BY <1>2
  <2> QED BY <1>1, <1>2, <2>1, <2>3, <2>4
<1>7. CASE size > Width + 2
  <2>1. Overflows(n, size)
    BY <1>7 DEF Overflows
  <2>2. Power[Width] <= Power[e]
    BY <1>1, <1>2, <1>7, PowerGrows
  <2>3. 1 * Power[e] <= n * Power[e] /\ n * Power[e] \in Nat
    <3>1. ~ (n < 1)
      OBVIOUS
    <3> QED BY <1>2, <1>3, <3>1
  <2>4. 1 * Power[e] = Power[e]
    BY <1>2
  <2> QED BY <1>2, <2>1, <2>2, <2>3, <2>4
<1> QED BY <1>1, <1>4, <1>5, <1>6, <1>7

IsBits(bits) == bits.size \in Nat /\ bits.mantissa \in Nat /\ bits.mantissa < Power[3]

\* The target of a compact difficulty is the digits of the number it stands
\* for, and there is none just when that number is negative or too large.
LEMMA CompactIsExact ==
  ASSUME NEW bits, IsBits(bits)
  PROVE  /\ Meant(bits) \in Nat
         /\ CompactTarget(bits) = IF Meaningful(bits) THEN {Digits(Meant(bits))} ELSE {}
<1> DEFINE n == bits.mantissa % Half
           size == bits.size
<1>1. Base \in Nat /\ Base # 0 /\ Width \in Nat /\ Width >= 3
  BY JobIntakeAssumption
<1>2. n \in Nat /\ n < Half /\ n < Power[3] /\ size \in Nat /\ Half \in Nat /\ Power[3] \in Nat
  <2>1. n \in Nat /\ n < Half
    <3>1. bits.mantissa \in Nat
      BY DEF IsBits
    <3> QED BY <3>1, HalfIs, Quotients
  <2> QED BY <2>1, HalfIs, PowerIs DEF IsBits
<1>3. Power[Width] \in Nat /\ Power[Width] # 0 /\ Power[3] <= Power[Width]
  BY <1>1, PowerIs, PowerGrows
<1>4. size >= 3 => Meant(bits) = n * Power[size - 3] /\ Meant(bits) \in Nat
  <2> SUFFICES ASSUME size >= 3 PROVE Meant(bits) = n * Power[size - 3] /\ Meant(bits) \in Nat
    OBVIOUS
  <2>1. size - 3 \in Nat /\ Power[size - 3] \in Nat
    BY <1>2, PowerIs
  <2> QED BY <1>2, <2>1 DEF Meant, Mantissa
<1>5. size < 3 => /\ Meant(bits) = n \div Power[3 - size] /\ Meant(bits) \in Nat
                  /\ Meant(bits) <= n
  <2> SUFFICES ASSUME size < 3
               PROVE  Meant(bits) = n \div Power[3 - size] /\ Meant(bits) \in Nat /\ Meant(bits) <= n
    OBVIOUS
  <2> DEFINE p == Power[3 - size]
             q == n \div p
  <2>1. 3 - size \in Nat /\ p \in Nat /\ p # 0
    BY <1>2, PowerIs
  <2>2. q \in Nat /\ n % p \in Nat /\ n = p * q + (n % p)
    <3> HIDE DEF n, p
    <3> QED BY <1>2, <2>1, Quotients
  <2>3. q * 1 <= q * p /\ q * p = p * q /\ p * q \in Nat
    <3> HIDE DEF n, p, q
    <3> QED BY <2>1, <2>2, Products
  <2>4. q <= n
    <3> HIDE DEF n, p, q
    <3> QED BY <1>2, <2>1, <2>2, <2>3
  <2>5. Meant(bits) = q
    BY <1>2 DEF Meant, Mantissa
  <2> QED BY <2>2, <2>4, <2>5
<1>6. Meant(bits) \in Nat
  BY <1>2, <1>4, <1>5
<1>7. CASE Negative(bits)
  <2>1. CompactTarget(bits) = {}
    BY <1>7 DEF CompactTarget
  <2>2. ~ Meaningful(bits)
    BY <1>2, <1>7 DEF Meaningful, Negative, IsBits
  <2> QED BY <1>6, <2>1, <2>2
<1>8. CASE ~ Negative(bits)
  <2>0. bits.mantissa < Half
    BY <1>2, <1>8 DEF Negative, IsBits
  <2>1. CASE n = 0
    <3>1. Meant(bits) = 0
      <4>1. size >= 3 => 0 * Power[size - 3] = 0
        <5>1. size >= 3 => size - 3 \in Nat
          BY <1>2
        <5> QED BY <5>1, PowerIs
      <4> QED BY <1>2, <1>4, <1>5, <1>6, <2>1, <4>1
    <3>2. Digits(0) = Zero
      <4>1. ASSUME NEW i \in 0..(Width - 1) PROVE (0 \div Power[Width - 1 - i]) % Base = 0
        <5> DEFINE p == Power[Width - 1 - i]
        <5>1. p \in Nat /\ p # 0
          <6>1. Width - 1 - i \in Nat
            BY <1>1
          <6> QED BY <6>1, PowerIs
        <5> HIDE DEF p
        <5>2. 0 = p * 0 + 0 /\ 0 < p /\ 0 = Base * 0 + 0 /\ 0 < Base
          BY <1>1, <5>1
        <5>3. 0 \div p = 0 /\ 0 % Base = 0
          BY <1>1, <5>1, <5>2, QuotientIs
        <5> QED BY <5>3 DEF p
      <4> QED BY <4>1 DEF Digits, Zero
    <3>3. CompactTarget(bits) = {Zero}
      BY <1>8, <2>1 DEF CompactTarget
    <3>4. Meaningful(bits)
      BY <1>3, <2>0, <3>1 DEF Meaningful
    <3> QED BY <1>6, <3>1, <3>2, <3>3, <3>4
  <2>2. CASE n # 0 /\ size > 3
    <3>1. Overflows(n, size) <=> Meant(bits) >= Power[Width]
      <4> HIDE DEF n, size
      <4> QED BY <1>2, <1>4, <2>2, OverflowsIs
    <3>2. Placed(n, size) = Digits(Meant(bits))
      <4> HIDE DEF n, size
      <4> QED BY <1>2, <1>4, <2>2, PlacedIs
    <3>3. CompactTarget(bits) = IF Overflows(n, size) THEN {} ELSE {Placed(n, size)}
      BY <1>2, <1>8, <2>2 DEF CompactTarget, Size
    <3>4. Meaningful(bits) <=> ~ Overflows(n, size)
      <4> HIDE DEF n, size
      <4> QED BY <1>3, <1>6, <2>0, <3>1 DEF Meaningful
    <3> HIDE DEF n, size
    <3> QED BY <1>6, <3>2, <3>3, <3>4
  <2>3. CASE n # 0 /\ size <= 3
    <3>1. Meant(bits) = n \div Power[3 - size] /\ Meant(bits) <= n
      <4>1. CASE size < 3
        BY <1>5, <4>1
      <4>2. CASE size = 3
        <5>1. Power[size - 3] = 1 /\ Power[3 - size] = 1
          BY <4>2, PowerIs
        <5>2. n = 1 * n + 0 /\ 0 < 1 /\ n * 1 = n
          BY <1>2
        <5>3. n \div 1 = n
          <6> HIDE DEF n
          <6> QED BY <1>2, <5>2, QuotientIs
        <5> HIDE DEF n
        <5> QED BY <1>2, <1>4, <4>2, <5>1, <5>2, <5>3
      <4> QED BY <1>2, <2>3, <4>1, <4>2
    <3>2. ~ Overflows(n, size)
      BY <1>1, <1>2, <2>3 DEF Overflows
    <3>3. CompactTarget(bits) = {Ending(ShortMantissa(bits))}
      <4> HIDE DEF n
      <4>1. CompactTarget(bits) = {Ending(ShortMantissa(bits))} \/ Negative(bits) \/ n = 0 \/ Overflows(n, size)
        BY <2>3 DEF CompactTarget, Size, n
      <4> QED BY <1>8, <2>3, <3>2, <4>1
    <3>4. ShortMantissa(bits) = Meant(bits)
      BY <3>1 DEF ShortMantissa, Size
    <3>5. Meant(bits) < Power[3]
      <4> HIDE DEF n
      <4> QED BY <1>2, <1>6, <3>1
    <3>6. Ending(Meant(bits)) = Digits(Meant(bits))
      BY <1>6, <3>5, EndingIs
    <3>7. Meaningful(bits)
      BY <1>2, <1>3, <1>6, <2>0, <3>5 DEF Meaningful
    <3> QED BY <1>6, <3>3, <3>4, <3>6, <3>7
  <2> QED BY <1>2, <2>1, <2>2, <2>3
<1> QED BY <1>7, <1>8

----
\* What becomes a job.

IntakeSpec == IntakeInit /\ [][IntakeNext]_intakeVars

\* A job is what the parser of its kind made of the one offer received.
JobsAreParsed ==
    \/ offer = {} /\ job = {}
    \/ \E t \in Templates : offer = {t} /\ job = FromRpc(t)
    \/ \E o \in PoolJobs : offer = {o} /\ job = FromStratum(o)

\* Of a template only this matters: that it is one, and that its header is made
\* of a compact difficulty and a word.
IsTemplate(t) ==
    /\ {"kind", "blob"} \subseteq DOMAIN t /\ t.kind = "template"
    /\ IsBits(t.blob.header.bits) /\ t.blob.header.versionBits = 1
    /\ t.blob.header.proposer \in Seq(Characters)

\* Every template that is enumerated is one, however many fields deviate.
LEMMA TemplatesAreTemplates == \A t \in Templates : IsTemplate(t)
<1> DEFINE Compact == {b \in [size : Nat, mantissa : Nat] : b.mantissa < Power[3]}
<1>1. ASSUME NEW b \in Compact, NEW a \in Seq(Characters) PROVE IsTemplate(Honest(b, a))
  <2>1. IsBits(b)
    BY DEF IsBits
  <2> HIDE DEF Compact
  <2> QED
    BY <1>1, <2>1 DEF IsTemplate, Honest, HonestOf, Blob, Header
<1>2. SomeAccount \in Seq(Characters)
  BY DEF SomeAccount, Characters, Letter, Separator, Other
<1>3. ASSUME NEW a \in Accounts PROVE a \in Seq(Characters)
  BY <1>3, JobIntakeAssumption DEF Accounts
<1>4. SomeBits \subseteq Compact /\ AllBits \subseteq Compact
  <2>1. Base \in Nat /\ Power[3] = Base * Base * Base /\ Power[3] \in Nat /\ 1 < Power[3]
    <3>1. Half \in Nat /\ Half # 0 /\ Half <= Power[3] /\ Half < Power[3]
      <4> DEFINE c == Base * Base * Base
      <4>1. c \in Nat /\ c = Power[3] /\ Half = c \div 2 /\ Half # 0 /\ Half <= c
        BY FirstPowers, HalfIs, JobIntakeAssumption DEF Half
      <4> HIDE DEF c
      <4> QED BY <4>1
    <3> QED BY <3>1, FirstPowers, PowerIs, JobIntakeAssumption
  <2>2. \A m \in 0..(Base * Base * Base - 1) : m \in Nat /\ m < Power[3]
    <3> DEFINE c == Base * Base * Base
    <3>1. c \in Nat /\ c = Power[3]
      BY <2>1
    <3> HIDE DEF c
    <3>2. \A m \in 0..(c - 1) : m \in Nat /\ m < Power[3]
      BY <3>1
    <3> QED BY <3>2 DEF c
  <2>3. Sizes \subseteq Nat
    BY JobIntakeAssumption DEF Sizes
  <2>4. SomeBits \subseteq Compact
    BY <2>1 DEF SomeBits
  <2>5. ASSUME NEW b \in AllBits PROVE b \in Compact
    <3> DEFINE c == Base * Base * Base - 1
    <3>1. b \in [size : Sizes, mantissa : 0..c]
      BY DEF AllBits
    <3> HIDE DEF c
    <3>2. b.size \in Nat /\ b.mantissa \in 0..c /\ b = [size |-> b.size, mantissa |-> b.mantissa]
      BY <2>3, <3>1
    <3>3. b.mantissa \in Nat /\ b.mantissa < Power[3]
      BY <2>2, <3>2 DEF c
    <3> QED BY <3>2, <3>3
  <2> QED
    BY <2>4, <2>5
<1> HIDE DEF Compact
<1>5. /\ "kind" \notin DOMAIN Deviations
      /\ \A v \in Deviations["blob"] : \E b \in SomeBits : v.header = Header(b, SomeAccount)
  BY DEF Deviations
<1>6. ASSUME NEW b \in SomeBits
      PROVE  /\ IsBits(Header(b, SomeAccount).bits) /\ Header(b, SomeAccount).versionBits = 1
             /\ Header(b, SomeAccount).proposer \in Seq(Characters)
  <2>1. IsBits(b)
    BY <1>4 DEF IsBits, Compact
  <2> QED BY <1>2, <2>1 DEF Header
<1>7. ASSUME NEW t, IsTemplate(t), NEW f \in DOMAIN Deviations, NEW u \in Varied(t, f)
      PROVE  IsTemplate(u)
  <2>1. PICK v \in Deviations[f] : u = [t EXCEPT ![f] = v]
    BY DEF Varied
  <2>2. DOMAIN u = DOMAIN t
    BY <2>1
  <2>3. u.kind = t.kind
    BY <1>5, <1>7, <2>1 DEF IsTemplate
  <2>4. u.blob = IF f = "blob" THEN v ELSE t.blob
    BY <1>7, <2>1 DEF IsTemplate
  <2>5. CASE f = "blob"
    <3>1. PICK b \in SomeBits : u.blob.header = Header(b, SomeAccount)
      BY <1>5, <2>1, <2>4, <2>5
    <3> QED
      BY <1>6, <1>7, <2>2, <2>3, <3>1 DEF IsTemplate
  <2>6. CASE f # "blob"
    BY <1>7, <2>2, <2>3, <2>4, <2>6 DEF IsTemplate
  <2> QED
    BY <2>5, <2>6
<1>8. \A t \in OneDeviation : IsTemplate(t)
  BY <1>1, <1>2, <1>4, <1>7 DEF OneDeviation
<1>9. \A t \in TwoDeviations : IsTemplate(t)
  BY <1>7, <1>8 DEF TwoDeviations
<1> QED
  BY <1>1, <1>2, <1>3, <1>4, <1>8, <1>9 DEF Templates

\* The parser's grammar is the chain's.
LEMMA ValidIsWellFormed ==
  ASSUME NEW a \in Seq(Characters), ValidAccount(a)
  PROVE  WellFormed(a)
<1>1. Len(a) \in Nat /\ Len(a) >= MinAccount /\ Len(a) <= MaxAccount /\ Len(a) > 0
  BY JobIntakeAssumption DEF ValidAccount
<1>2. {i \in 1..Len(a) : a[i] = Other} = {}
  BY DEF ValidAccount
<1>3. ASSUME NEW i \in 1..Len(a), a[i] = Separator
      PROVE  i - 1 \in 1..Len(a) /\ i + 1 \in 1..Len(a) /\ a[i - 1] = Letter /\ a[i + 1] = Letter
  <2>1. i # 1 /\ i # Len(a)
    BY <1>3 DEF ValidAccount
  <2>2. i - 1 \in 1..Len(a) /\ i + 1 \in 1..Len(a) /\ i \in 2..Len(a) /\ i + 1 \in 2..Len(a)
    BY <1>1, <2>1
  <2>3. a[i - 1] # Separator
    BY <1>3, <2>2 DEF ValidAccount, SeparatorsApart
  <2>4. a[i + 1] # Separator
    <3>1. (i + 1) - 1 = i
      OBVIOUS
    <3> QED
      BY <1>3, <2>2, <3>1 DEF ValidAccount, SeparatorsApart
  <2>5. a[i - 1] \in Characters \ {Other} /\ a[i + 1] \in Characters \ {Other}
    BY <1>1, <1>2, <2>2
  <2> QED
    BY <2>2, <2>3, <2>4, <2>5 DEF Characters
<1> QED
  BY <1>1, <1>2, <1>3 DEF WellFormed

\* ... and nothing the chain accepts is refused or trimmed.
LEMMA WellFormedIsValid ==
  ASSUME NEW a \in Seq(Characters), WellFormed(a)
  PROVE  Trim(a) = a /\ a # <<>> /\ ValidAccount(a)
<1>1. Len(a) \in Nat /\ Len(a) \in MinAccount..MaxAccount /\ Len(a) > 0
  BY JobIntakeAssumption DEF WellFormed
<1>2. \A i \in 1..Len(a) : a[i] # Other
  BY DEF WellFormed
<1>3. \A i \in 1..Len(a) : a[i] = Separator => i - 1 \in 1..Len(a) /\ i + 1 \in 1..Len(a) /\ a[i - 1] = Letter
  BY DEF WellFormed
<1>4. Letter # Separator
  BY DEF Letter, Separator
<1>5. ValidAccount(a)
  <2>1. a[1] # Separator /\ a[Len(a)] # Separator
    BY <1>1, <1>3
  <2>2. SeparatorsApart(a)
    <3>1. \A i \in 2..Len(a) : i \in 1..Len(a)
      OBVIOUS
    <3> QED BY <1>3, <1>4, <3>1 DEF SeparatorsApart
  <2> QED BY <1>1, <1>2, <2>1, <2>2 DEF ValidAccount
<1>6. Trim(a) = a
  <2> DEFINE kept == {i \in 1..Len(a) : a[i] # Other}
  <2>1. kept = 1..Len(a) /\ kept # {}
    BY <1>1, <1>2
  <2>2. Smallest(1..Len(a)) = 1
    <3>1. 1 \in 1..Len(a) /\ \A m \in 1..Len(a) : 1 <= m
      BY <1>1
    <3>2. \A n \in 1..Len(a) : (\A m \in 1..Len(a) : n <= m) => n = 1
      BY <3>1
    <3> QED BY <3>1, <3>2 DEF Smallest
  <2>3. Largest(1..Len(a)) = Len(a)
    <3>1. Len(a) \in 1..Len(a) /\ \A m \in 1..Len(a) : Len(a) >= m
      BY <1>1
    <3>2. \A n \in 1..Len(a) : (\A m \in 1..Len(a) : n >= m) => n = Len(a)
      BY <1>1, <3>1
    <3> QED BY <3>1, <3>2 DEF Largest
  <2>4. SubSeq(a, 1, Len(a)) = a
    OBVIOUS
  <2> QED BY <2>1, <2>2, <2>3, <2>4 DEF Trim
<1> QED BY <1>1, <1>5, <1>6

\* What an honest node says of a blob is accepted.
LEMMA HonestIsAccepted ==
  ASSUME NEW t, IsTemplate(t), t = HonestOf(t.blob), BlobFits(t), t.blob.decodes,
         Meaningful(t.blob.header.bits), WellFormed(t.blob.header.proposer)
  PROVE  FromRpc(t) # {}
<1> DEFINE blob == t.blob
           h == blob.header
<1>1. /\ t.id = TemplateId(blob) /\ t.nonceOffset = blob.len - NonceSize /\ t.algo = "RandomX"
      /\ t.keyLen = KeySize /\ t.proposer = h.proposer /\ t.height = h.height
      /\ t.timestamp = h.timestamp /\ t.versionBits = h.versionBits /\ t.bits = NoNumber
      /\ t.target = Digits(Meant(h.bits) % Power[Width])
  <2> HIDE DEF blob
  <2>1. t = HonestOf(blob)
    BY DEF blob
  <2> QED BY <2>1 DEF HonestOf
<1>2. NonceTrails(t)
  BY <1>1 DEF NonceTrails
<1>3. Coinbase(t.proposer) = h.proposer /\ h.proposer # <<>> /\ ValidAccount(h.proposer)
  BY <1>1, WellFormedIsValid DEF IsTemplate, Coinbase
<1>4. Agrees(t.versionBits, h.versionBits) /\ \A n : Agrees(t.bits, n)
  BY <1>1, JobIntakeAssumption DEF Agrees, IsTemplate
<1>5. TargetAgrees(t)
  <2>1. Meant(h.bits) \in Nat /\ CompactTarget(h.bits) = {Digits(Meant(h.bits))}
    BY CompactIsExact DEF IsTemplate
  <2>2. Meant(h.bits) % Power[Width] = Meant(h.bits)
    <3> DEFINE m == Meant(h.bits)
               p == Power[Width]
    <3>1. m \in Nat /\ p \in Nat /\ m < p
      BY <2>1, PowerIs, JobIntakeAssumption DEF Meaningful
    <3> HIDE DEF m, p
    <3>2. m = p * 0 + m
      BY <3>1
    <3>3. m % p = m
      BY <3>1, <3>2, QuotientIs
    <3> QED BY <3>3 DEF m, p
  <2> QED BY <1>1, <2>1, <2>2 DEF TargetAgrees
<1> HIDE DEF h, blob
<1>6. t.algo \in {"RandomX", "Sha256d"}
  BY <1>1
<1> QED
  BY <1>1, <1>2, <1>3, <1>4, <1>5, <1>6 DEF FromRpc, h, blob

AtMostOne(S) == S = {} \/ \E x : S = {x}

\* What is absent, or there once, is there at most once.
LEMMA OneIsAtMostOne == AtMostOne({}) /\ \A x : AtMostOne({x})
BY DEF AtMostOne

\* What is there at most once has at most one member.
LEMMA AtMostOneSize == \A S : AtMostOne(S) => Cardinality(S) <= 1
BY FS_EmptySet, FS_Singleton DEF AtMostOne

\* What every job has, of whatever offer it was made.
LEMMA WorkIsUsable ==
  ASSUME NEW o, offer = {o}, NEW j, job = {j},
         j.blob = o.blob, j.nonceOffset = o.nonceOffset, j.algo = o.algo, j.keyLen = o.keyLen,
         AtMostOne(j.blockTarget), AtMostOne(j.coinbase),
         BlobFits(o), NonceTrails(o), o.algo \in {"RandomX", "Sha256d"},
         o.algo = "RandomX" => o.keyLen > 0
  PROVE  IntakeTypeOK /\ JobUsable
<1>1. Cardinality(offer) <= 1 /\ Cardinality(job) <= 1
  BY AtMostOneSize DEF AtMostOne
<1>2. Cardinality(j.blockTarget) <= 1 /\ Cardinality(j.coinbase) <= 1
  BY AtMostOneSize
<1>3. IntakeTypeOK
  BY <1>1, <1>2 DEF IntakeTypeOK, BlobFits
<1>4. JobUsable
  BY JobIntakeAssumption DEF JobUsable, BlobFits, NonceTrails
<1> QED
  BY <1>3, <1>4

\* Without a job on display nothing can be wrong with one.
LEMMA NoJobIsSound ==
  ASSUME AtMostOne(offer), job = {}
  PROVE  IntakeTypeOK /\ CompactExact /\ WorkIsAuthentic /\ AccountGrammar /\ JobUsable
BY AtMostOneSize, FS_EmptySet
   DEF IntakeTypeOK, CompactExact, WorkIsAuthentic, AccountGrammar, JobUsable

\* The job of a template is that of its header ...
LEMMA RpcJobIsSound ==
  ASSUME NEW t, IsTemplate(t), offer = {t}, job = FromRpc(t)
  PROVE  JobSound
<1>0. HonestAccepted
  <2>1. ASSUME t = HonestOf(t.blob), BlobFits(t), t.blob.decodes,
               Meaningful(t.blob.header.bits), WellFormed(t.blob.header.proposer)
        PROVE  job # {}
    BY <2>1, HonestIsAccepted
  <2> QED BY <2>1 DEF HonestAccepted
<1>1. CASE job = {}
  BY <1>0, <1>1, NoJobIsSound DEF AtMostOne, JobSound
<1>2. CASE job # {}
  <2> DEFINE h == t.blob.header
  <2>1. PICK j : job = {j}
    BY <1>2 DEF FromRpc
  <2>2. /\ j.blob = t.blob /\ j.nonceOffset = t.nonceOffset /\ j.algo = t.algo /\ j.keyLen = t.keyLen
        /\ j.target = t.target /\ j.blockTarget = {t.target} /\ j.coinbase = {h.proposer} /\ j.height = h.height
    BY <1>2, <2>1 DEF FromRpc
  <2>3. /\ BlobFits(t) /\ NonceTrails(t)
        /\ t.algo \in {"RandomX", "Sha256d"} /\ t.keyLen = KeySize
        /\ ValidAccount(h.proposer) /\ t.blob.decodes /\ h.timestamp = t.timestamp
        /\ Agrees(t.versionBits, h.versionBits) /\ t.id = TemplateId(t.blob)
        /\ TargetAgrees(t)
    BY <1>2 DEF FromRpc
  <2>4. IntakeTypeOK /\ JobUsable
    <3>1. AtMostOne(j.blockTarget) /\ AtMostOne(j.coinbase)
      BY <2>2, OneIsAtMostOne
    <3>2. t.keyLen > 0
      BY <2>3, JobIntakeAssumption
    <3> QED
      BY <2>1, <2>2, <2>3, <3>1, <3>2, WorkIsUsable
  <2>5. WorkIsAuthentic
    BY <2>1, <2>2, <2>3 DEF WorkIsAuthentic, Agrees
  <2>6. AccountGrammar
    <3>1. WellFormed(h.proposer)
      BY <2>3, ValidIsWellFormed DEF IsTemplate
    <3> QED
      BY <2>1, <2>2, <3>1 DEF AccountGrammar
  <2>7. CompactExact
    <3>1. /\ Meant(h.bits) \in Nat
          /\ CompactTarget(h.bits) = IF Meaningful(h.bits) THEN {Digits(Meant(h.bits))} ELSE {}
      BY CompactIsExact DEF IsTemplate
    <3>2. Meaningful(h.bits) /\ t.target = Digits(Meant(h.bits))
      BY <2>3, <3>1 DEF TargetAgrees
    <3>3. Value(Digits(Meant(h.bits))) = Meant(h.bits)
      BY <3>1, <3>2, ValueOfDigits DEF Meaningful
    <3> QED
      BY <2>1, <2>2, <3>2, <3>3 DEF CompactExact
  <2> QED
    BY <1>0, <2>4, <2>5, <2>6, <2>7 DEF JobSound
<1> QED
  BY <1>1, <1>2

\* ... and so is that of a pool's offer, as far as it says.
LEMMA StratumJobIsSound ==
  ASSUME NEW o \in PoolJobs, offer = {o}, job = FromStratum(o)
  PROVE  JobSound
<1>1. o.kind = "pool" /\ o.keyLen \in Nat
  BY DEF PoolJobs
<1>0. CompactExact /\ WorkIsAuthentic /\ AccountGrammar /\ HonestAccepted
  BY <1>1 DEF CompactExact, WorkIsAuthentic, AccountGrammar, HonestAccepted, FromNode
<1>2. CASE job = {}
  BY <1>0, <1>2, NoJobIsSound DEF AtMostOne, JobSound
<1>3. CASE job # {}
  <2>1. PICK j : job = {j}
    BY <1>3 DEF FromStratum
  <2>2. /\ j.blob = o.blob /\ j.nonceOffset = o.nonceOffset /\ j.algo = o.algo /\ j.keyLen = o.keyLen
    BY <1>3, <2>1 DEF FromStratum
  <2>3. AtMostOne(j.blockTarget) /\ AtMostOne(j.coinbase)
    <3>1. j.blockTarget = {} \/ j.blockTarget = {<<"network">>}
      BY <1>3, <2>1 DEF FromStratum
    <3>2. \E x : j.coinbase = {} \/ j.coinbase = {x}
      BY <1>3, <2>1 DEF FromStratum
    <3> QED
      BY <3>1, <3>2, OneIsAtMostOne
  <2>4. BlobFits(o) /\ NonceTrails(o) /\ o.algo \in {"RandomX", "Sha256d"} /\ KeyGiven(o)
    BY <1>3 DEF FromStratum
  <2>5. IntakeTypeOK /\ JobUsable
    BY <2>1, <2>2, <2>3, <2>4, WorkIsUsable DEF KeyGiven
  <2> QED
    BY <1>0, <2>5 DEF JobSound
<1> QED
  BY <1>2, <1>3

\* Whatever a node or a pool offers, what becomes of it is usable work, and of a
\* node's offer the work of the blob it will hash: everything the window shows
\* or the reward goes by is the header's, the target is the number its compact
\* difficulty stands for, and the account is one the chain accepts.  What an
\* honest node offers is not refused.
THEOREM JobIsSound == IntakeSpec => []JobSound
<1>1. IntakeInit => JobsAreParsed
  BY DEF IntakeInit, JobsAreParsed
<1>2. JobsAreParsed /\ [IntakeNext]_intakeVars => JobsAreParsed'
  BY DEF JobsAreParsed, IntakeNext, ReceiveTemplate, ReceivePoolJob, intakeVars
<1>3. JobsAreParsed => JobSound
  <2>1. CASE offer = {} /\ job = {}
    <3>1. CompactExact /\ WorkIsAuthentic /\ AccountGrammar /\ JobUsable /\ IntakeTypeOK
      BY <2>1, NoJobIsSound DEF AtMostOne
    <3> QED BY <2>1, <3>1 DEF JobSound, HonestAccepted, FromNode
  <2> QED
    BY <2>1, TemplatesAreTemplates, RpcJobIsSound, StratumJobIsSound DEF JobsAreParsed
<1> QED
  BY <1>1, <1>2, <1>3, PTL DEF IntakeSpec

----
\* The complete lines of a stream.

\* No newline among bytes i to j of s.
NoneIn(s, i, j) == \A k \in i..j : s[k] # Newline

\* A line begins after byte p, and is not complete at byte n.
Begun(s, p, n) == (p = 0 \/ s[p] = Newline) /\ NoneIn(s, p + 1, n)

\* The newlines up to a byte can be counted.
LEMMA EndsFinite ==
  ASSUME NEW s, NEW n \in Nat
  PROVE  IsFiniteSet(Ends(s, n)) /\ Cardinality(Ends(s, n)) \in Nat
<1>1. Ends(s, n) \subseteq 1..n /\ IsFiniteSet(1..n)
  BY FS_Interval DEF Ends
<1>2. IsFiniteSet(Ends(s, n))
  BY <1>1, FS_Subset
<1> QED BY <1>2, FS_CardinalityType

\* Bytes that are no newline end no line.
LEMMA EndsSame ==
  ASSUME NEW s, NEW n \in Nat, NEW m \in Nat, n <= m, NoneIn(s, n + 1, m)
  PROVE  Ends(s, m) = Ends(s, n)
BY DEF Ends, NoneIn

\* The next newline is one more.
LEMMA EndsNext ==
  ASSUME NEW s, NEW n \in Nat, NEW i \in Nat, n < i, NoneIn(s, n + 1, i - 1), s[i] = Newline
  PROVE  /\ Ends(s, i) = Ends(s, n) \cup {i} /\ i \notin Ends(s, n)
         /\ Cardinality(Ends(s, i)) = Cardinality(Ends(s, n)) + 1
<1>1. Ends(s, i) = Ends(s, n) \cup {i} /\ i \notin Ends(s, n)
  BY DEF Ends, NoneIn
<1>2. IsFiniteSet(Ends(s, n))
  BY EndsFinite
<1>3. Cardinality(Ends(s, n) \cup {i}) = Cardinality(Ends(s, n)) + 1
  BY <1>1, <1>2, FS_AddElement
<1> QED BY <1>1, <1>3

\* Further on there are no fewer newlines, and more beyond each of them.
LEMMA EndsGrow ==
  ASSUME NEW s, NEW n \in Nat, NEW m \in Nat, n <= m
  PROVE  /\ Ends(s, n) \subseteq Ends(s, m)
         /\ Cardinality(Ends(s, n)) <= Cardinality(Ends(s, m))
         /\ \A k \in Ends(s, m) : k > n => Cardinality(Ends(s, k)) > Cardinality(Ends(s, n))
<1>1. ASSUME NEW a \in Nat, NEW b \in Nat, a <= b
      PROVE  Ends(s, a) \subseteq Ends(s, b) /\ Cardinality(Ends(s, a)) <= Cardinality(Ends(s, b))
  <2>1. Ends(s, a) \subseteq Ends(s, b)
    BY <1>1 DEF Ends
  <2>2. IsFiniteSet(Ends(s, b))
    BY EndsFinite
  <2> QED BY <2>1, <2>2, FS_Subset
<1>2. ASSUME NEW k \in Ends(s, m), k > n PROVE Cardinality(Ends(s, k)) > Cardinality(Ends(s, n))
  <2>1. k \in Nat /\ k - 1 \in Nat /\ n <= k - 1 /\ s[k] = Newline
    BY <1>2 DEF Ends
  <2>2. NoneIn(s, (k - 1) + 1, k - 1)
    BY <2>1 DEF NoneIn
  <2>3. Cardinality(Ends(s, k)) = Cardinality(Ends(s, k - 1)) + 1
    BY <2>1, <2>2, EndsNext
  <2>4. Cardinality(Ends(s, n)) <= Cardinality(Ends(s, k - 1))
    BY <1>1, <2>1
  <2>5. Cardinality(Ends(s, n)) \in Nat /\ Cardinality(Ends(s, k - 1)) \in Nat
    BY <2>1, EndsFinite
  <2> QED BY <2>3, <2>4, <2>5
<1> QED BY <1>1, <1>2

\* There are as many complete lines as newlines, each ending at its own.
LEMMA CompleteLen ==
  ASSUME NEW s, NEW n \in Nat
  PROVE  /\ Len(Complete(s, n)) = Cardinality(Ends(s, n)) /\ Len(Complete(s, n)) \in Nat
         /\ \A k \in 1..Len(Complete(s, n)) : Complete(s, n)[k] = LineOf(s, TheOne(EndOf(s, n, k)))
<1> DEFINE c == Cardinality(Ends(s, n))
<1>1. c \in Nat
  BY EndsFinite
<1> HIDE DEF c
<1>2. Complete(s, n) = [k \in 1..c |-> LineOf(s, TheOne(EndOf(s, n, k)))]
  BY DEF Complete, c
<1>3. Len(Complete(s, n)) = c
  BY <1>1, <1>2
<1> QED BY <1>1, <1>2, <1>3 DEF c

\* What comes later changes no line that was complete.
LEMMA CompleteGrows ==
  ASSUME NEW s, NEW n \in Nat, NEW m \in Nat, n <= m
  PROVE  /\ Len(Complete(s, n)) <= Len(Complete(s, m))
         /\ \A k \in 1..Len(Complete(s, n)) : Complete(s, m)[k] = Complete(s, n)[k]
<1>1. Len(Complete(s, n)) <= Len(Complete(s, m))
  BY CompleteLen, EndsGrow
<1>2. ASSUME NEW k \in 1..Len(Complete(s, n)) PROVE EndOf(s, m, k) = EndOf(s, n, k)
  <2>1. k <= Cardinality(Ends(s, n))
    BY <1>2, CompleteLen
  <2>2. \A i \in Ends(s, m) : Cardinality(Ends(s, i)) = k => i \in Ends(s, n)
    <3>1. ASSUME NEW i \in Ends(s, m), Cardinality(Ends(s, i)) = k, i \notin Ends(s, n) PROVE FALSE
      <4>1. i > n
        BY <3>1 DEF Ends
      <4>2. Cardinality(Ends(s, i)) > Cardinality(Ends(s, n))
        BY <4>1, EndsGrow
      <4>3. Cardinality(Ends(s, n)) \in Nat /\ k \in Nat
        BY EndsFinite, CompleteLen
      <4> QED BY <2>1, <3>1, <4>2, <4>3
    <3> QED BY <3>1
  <2>3. Ends(s, n) \subseteq Ends(s, m)
    BY EndsGrow
  <2> QED BY <2>2, <2>3 DEF EndOf
<1>3. ASSUME NEW k \in 1..Len(Complete(s, n)) PROVE Complete(s, m)[k] = Complete(s, n)[k]
  <2>1. k \in 1..Len(Complete(s, m))
    BY <1>1, <1>3, CompleteLen
  <2>2. /\ Complete(s, m)[k] = LineOf(s, TheOne(EndOf(s, m, k)))
        /\ Complete(s, n)[k] = LineOf(s, TheOne(EndOf(s, n, k)))
    BY <1>3, <2>1, CompleteLen
  <2> QED BY <1>2, <2>2
<1> QED BY <1>1, <1>3

\* Bytes without a newline complete no line.
LEMMA CompleteSame ==
  ASSUME NEW s, NEW n \in Nat, NEW m \in Nat, n <= m, NoneIn(s, n + 1, m)
  PROVE  Complete(s, m) = Complete(s, n)
<1>1. Ends(s, m) = Ends(s, n)
  BY EndsSame
<1>2. \A k : EndOf(s, m, k) = EndOf(s, n, k)
  BY <1>1 DEF EndOf
<1> QED BY <1>1, <1>2 DEF Complete

\* A newline completes the line that has begun.
LEMMA CompleteNext ==
  ASSUME NEW s, NEW p \in Nat, NEW i \in Nat, p < i, Begun(s, p, i - 1), s[i] = Newline
  PROVE  /\ Len(Complete(s, i)) = Len(Complete(s, p)) + 1
         /\ Complete(s, i)[Len(Complete(s, p)) + 1] = SubSeq(s, p + 1, i - 1)
<1> DEFINE c == Cardinality(Ends(s, p))
<1>1. c \in Nat /\ Cardinality(Ends(s, i)) = c + 1 /\ Ends(s, i) = Ends(s, p) \cup {i} /\ i \notin Ends(s, p)
  BY EndsFinite, EndsNext DEF Begun
<1>2. Len(Complete(s, p)) = c /\ Len(Complete(s, i)) = c + 1
  BY <1>1, CompleteLen
<1>3. EndOf(s, i, c + 1) = {i}
  <2>1. ASSUME NEW j \in Ends(s, p) PROVE Cardinality(Ends(s, j)) <= c
    <3>1. j \in Nat /\ j <= p
      BY DEF Ends
    <3> QED BY <3>1, EndsGrow
  <2>2. \A j \in Ends(s, p) : Cardinality(Ends(s, j)) # c + 1
    <3>1. \A j \in Ends(s, p) : j \in Nat
      BY DEF Ends
    <3> HIDE DEF c
    <3> QED BY <1>1, <2>1, <3>1, EndsFinite
  <2> HIDE DEF c
  <2> QED BY <1>1, <2>2 DEF EndOf
<1>4. Starts(s, i) = {p}
  <2>1. i - 1 \in Nat /\ p \in 0..(i - 1)
    OBVIOUS
  <2>2. Ends(s, p) = Ends(s, i - 1)
    BY <2>1, EndsSame DEF Begun
  <2>3. ASSUME NEW j \in 0..(i - 1), j = 0 \/ s[j] = Newline, Ends(s, j) = Ends(s, i - 1) PROVE j = p
    <3>1. CASE j < p
      <4>1. s[p] = Newline /\ p \in Ends(s, p) /\ p \notin Ends(s, j)
        BY <3>1 DEF Begun, Ends
      <4> QED BY <2>2, <2>3, <4>1
    <3>2. CASE j > p
      BY <2>3, <3>2 DEF Begun, NoneIn
    <3> QED BY <3>1, <3>2
  <2> QED BY <2>1, <2>2, <2>3 DEF Starts, Begun
<1>5. TheOne(EndOf(s, i, c + 1)) = i /\ TheOne(Starts(s, i)) = p
  BY <1>3, <1>4 DEF TheOne
<1>6. Complete(s, i)[c + 1] = LineOf(s, i)
  <2>1. c + 1 \in 1..Len(Complete(s, i))
    BY <1>1, <1>2
  <2> HIDE DEF c
  <2> QED BY <1>5, <2>1, CompleteLen
<1>7. LineOf(s, i) = SubSeq(s, p + 1, i - 1)
  <2>1. 1 + p = p + 1
    OBVIOUS
  <2> QED BY <1>5, <2>1 DEF LineOf
<1> QED BY <1>2, <1>6, <1>7

\* A byte appended changes nothing before it.
LEMMA CompleteAppend ==
  ASSUME NEW s \in Seq(Bytes), NEW b \in Bytes, NEW n \in 0..Len(s)
  PROVE  Complete(Append(s, b), n) = Complete(s, n)
<1> DEFINE t == Append(s, b)
<1>1. t \in Seq(Bytes) /\ Len(t) = Len(s) + 1 /\ \A i \in 1..Len(s) : t[i] = s[i]
  OBVIOUS
<1> HIDE DEF t
<1>2. ASSUME NEW k \in 0..Len(s) PROVE Ends(t, k) = Ends(s, k)
  BY <1>1 DEF Ends
<1>3. ASSUME NEW k PROVE EndOf(t, n, k) = EndOf(s, n, k)
  <2>1. Ends(t, n) = Ends(s, n) /\ \A i \in Ends(s, n) : i \in 0..Len(s)
    BY <1>2 DEF Ends
  <2> QED BY <1>2, <2>1 DEF EndOf
<1>4. ASSUME NEW i \in 1..Len(s) PROVE LineOf(t, i) = LineOf(s, i)
  <2>1. Starts(t, i) = Starts(s, i)
    BY <1>1, <1>2 DEF Starts
  <2>2. Starts(s, i) # {}
    <3> DEFINE T == {d \in 0..(i - 1) : (i - 1 - d = 0 \/ s[i - 1 - d] = Newline)}
    <3>1. i - 1 \in T /\ T \in SUBSET Nat
      OBVIOUS
    <3> HIDE DEF T
    <3>2. PICK d \in T : \A e \in T : d <= e
      BY <3>1, LeastNumber
    <3>3. d \in 0..(i - 1) /\ (i - 1 - d = 0 \/ s[i - 1 - d] = Newline)
      BY <3>2 DEF T
    <3>4. NoneIn(s, (i - 1 - d) + 1, i - 1)
      <4>1. ASSUME NEW j \in ((i - 1 - d) + 1)..(i - 1), s[j] = Newline PROVE FALSE
        <5>1. i - 1 - j \in 0..(i - 1) /\ i - 1 - (i - 1 - j) = j /\ i - 1 - j < d
          BY <3>3
        <5>2. i - 1 - j \in T
          BY <4>1, <5>1 DEF T
        <5> QED BY <3>2, <3>3, <5>1, <5>2
      <4> QED BY <4>1 DEF NoneIn
    <3>5. i - 1 - d \in Nat /\ i - 1 - d <= i - 1 /\ i - 1 \in Nat
      BY <3>3
    <3>6. Ends(s, i - 1) = Ends(s, i - 1 - d)
      <4> DEFINE j == i - 1 - d
      <4> HIDE DEF j
      <4> QED BY <3>4, <3>5, EndsSame DEF j
    <3>7. i - 1 - d \in Starts(s, i)
      BY <3>3, <3>5, <3>6 DEF Starts
    <3> QED BY <3>7
  <2>3. TheOne(Starts(s, i)) \in 0..(i - 1)
    BY <2>2 DEF TheOne, Starts
  <2> DEFINE o == TheOne(Starts(s, i))
  <2>4. SubSeq(t, 1 + o, i - 1) = SubSeq(s, 1 + o, i - 1)
    <3> HIDE DEF o
    <3>1. o \in 0..(i - 1)
      BY <2>3 DEF o
    <3> QED BY <1>1, <3>1
  <2> QED BY <2>1, <2>4 DEF LineOf
<1>5. ASSUME NEW k \in 1..Cardinality(Ends(s, n)) PROVE TheOne(EndOf(s, n, k)) \in 1..Len(s)
  <2> DEFINE T == {i \in 0..n : Cardinality(Ends(s, i)) >= k}
  <2>1. n \in T /\ T \in SUBSET Nat
    <3>1. n \in Nat /\ Cardinality(Ends(s, n)) \in Nat
      BY EndsFinite
    <3> QED BY <3>1
  <2> HIDE DEF T
  <2>2. PICK i \in T : \A j \in T : i <= j
    BY <2>1, LeastNumber
  <2>3. i \in 0..n /\ Cardinality(Ends(s, i)) >= k
    BY <2>2 DEF T
  <2>4. i # 0
    <3> SUFFICES ASSUME i = 0 PROVE FALSE
      OBVIOUS
    <3>1. Ends(s, 0) = {} /\ Cardinality({}) = 0
      BY FS_EmptySet DEF Ends
    <3>2. k >= 1 /\ k \in Int
      OBVIOUS
    <3>3. 0 >= k
      BY <2>3, <3>1
    <3> QED BY <3>2, <3>3
  <2>5. i - 1 \in 0..n /\ i - 1 \in Nat /\ i \in Nat /\ ~ (Cardinality(Ends(s, i - 1)) >= k)
    <3>1. i - 1 \in 0..n /\ i - 1 \notin T
      BY <2>2, <2>3, <2>4
    <3> QED BY <2>3, <3>1 DEF T
  <2>6. s[i] = Newline
    <3> SUFFICES ASSUME s[i] # Newline PROVE FALSE
      OBVIOUS
    <3>1. NoneIn(s, (i - 1) + 1, i)
      BY <2>5 DEF NoneIn
    <3>2. Ends(s, i) = Ends(s, i - 1)
      BY <2>5, <3>1, EndsSame
    <3> QED BY <2>3, <2>5, <3>2
  <2>7. Cardinality(Ends(s, i)) = Cardinality(Ends(s, i - 1)) + 1
    <3>1. NoneIn(s, (i - 1) + 1, i - 1)
      BY <2>5 DEF NoneIn
    <3> QED BY <2>5, <2>6, <3>1, EndsNext
  <2>8. Cardinality(Ends(s, i)) = k
    <3>1. Cardinality(Ends(s, i - 1)) \in Nat
      BY <2>5, EndsFinite
    <3> QED BY <2>3, <2>5, <2>7, <3>1
  <2>9. i \in EndOf(s, n, k)
    BY <2>3, <2>4, <2>6, <2>8 DEF EndOf, Ends
  <2> DEFINE E == EndOf(s, n, k)
  <2>10. E \subseteq 1..n /\ n <= Len(s) /\ n \in Nat /\ Len(s) \in Nat
    BY DEF EndOf, Ends
  <2>11. i \in E
    BY <2>9
  <2> HIDE DEF E
  <2>12. TheOne(E) \in E
    BY <2>11 DEF TheOne
  <2>13. ASSUME NEW x \in 1..n PROVE x \in 1..Len(s)
    <3>1. x \in Nat /\ 1 <= x /\ x <= n
      BY <2>10
    <3> HIDE DEF E
    <3> QED BY <2>10, <3>1
  <2>14. TheOne(E) \in 1..Len(s)
    BY <2>10, <2>12, <2>13
  <2> QED BY <2>14 DEF E
<1>6. Ends(t, n) = Ends(s, n)
  BY <1>2
<1> QED BY <1>3, <1>4, <1>5, <1>6 DEF Complete, t

----
\* What is kept of a stream.

\* The bytes of s after the first a, up to the b-th.
Span(s, a, b) == SubSeq(s, a + 1, b)

\* The length and the bytes of a span.
LEMMA SpanIs ==
  ASSUME NEW s \in Seq(Bytes), NEW a \in Nat, NEW b \in Nat, a <= b, b <= Len(s)
  PROVE  /\ Span(s, a, b) \in Seq(Bytes) /\ Len(Span(s, a, b)) = b - a
         /\ \A i \in 1..(b - a) : Span(s, a, b)[i] = s[a + i]
<1>1. \A i \in (a + 1)..b : s[i] \in Bytes
  <2>1. \A i \in (a + 1)..b : i \in 1..Len(s)
    OBVIOUS
  <2> QED BY <2>1, ElementOfSeq
<1>2. /\ SubSeq(s, a + 1, b) \in Seq(Bytes)
      /\ Len(SubSeq(s, a + 1, b)) = (IF a + 1 <= b THEN b - (a + 1) + 1 ELSE 0)
      /\ \A i \in 1..(b - (a + 1) + 1) : SubSeq(s, a + 1, b)[i] = s[(a + 1) + i - 1]
  <2>1. a + 1 \in Int /\ b \in Int
    OBVIOUS
  <2> QED BY <1>1, <2>1, SubSeqProperties
<1>3. (IF a + 1 <= b THEN b - (a + 1) + 1 ELSE 0) = b - a /\ b - (a + 1) + 1 = b - a
  OBVIOUS
<1>4. \A i \in 1..(b - a) : (a + 1) + i - 1 = a + i
  OBVIOUS
<1> QED BY <1>2, <1>3, <1>4 DEF Span

\* Two sequences of bytes are equal when they agree everywhere.
LEMMA SameBytes ==
  ASSUME NEW s \in Seq(Bytes), NEW t \in Seq(Bytes), Len(s) = Len(t),
         \A i \in 1..Len(s) : s[i] = t[i]
  PROVE  s = t
BY SeqEqual

\* The beginning of a span is a span.
LEMMA SpanOfSpan ==
  ASSUME NEW s \in Seq(Bytes), NEW a \in Nat, NEW b \in Nat, a <= b, b <= Len(s),
         NEW n \in Nat, n <= b - a
  PROVE  SubSeq(Span(s, a, b), 1, n) = Span(s, a, a + n)
<1>1. /\ Span(s, a, b) \in Seq(Bytes) /\ Len(Span(s, a, b)) = b - a
      /\ \A i \in 1..(b - a) : Span(s, a, b)[i] = s[a + i]
  BY SpanIs
<1> DEFINE t == Span(s, a, b)
<1> HIDE DEF t
<1>2. /\ Span(t, 0, n) \in Seq(Bytes) /\ Len(Span(t, 0, n)) = n - 0
      /\ \A i \in 1..(n - 0) : Span(t, 0, n)[i] = t[0 + i]
  <2>1. t \in Seq(Bytes) /\ 0 \in Nat /\ 0 <= n /\ n <= Len(t)
    BY <1>1 DEF t
  <2> QED BY <2>1, SpanIs
<1>3. /\ Span(s, a, a + n) \in Seq(Bytes) /\ Len(Span(s, a, a + n)) = (a + n) - a
      /\ \A i \in 1..((a + n) - a) : Span(s, a, a + n)[i] = s[a + i]
  <2>1. a + n \in Nat /\ a <= a + n /\ a + n <= Len(s)
    BY LenProperties
  <2> QED BY <2>1, SpanIs
<1>4. (a + n) - a = n /\ n - 0 = n
  OBVIOUS
<1>5. \A i \in 1..n : Span(t, 0, n)[i] = Span(s, a, a + n)[i]
  <2>1. \A i \in 1..n : i \in 1..(b - a) /\ 0 + i = i
    OBVIOUS
  <2> QED BY <1>1, <1>2, <1>3, <1>4, <2>1 DEF t
<1>6. Span(t, 0, n) = Span(s, a, a + n)
  BY <1>2, <1>3, <1>4, <1>5, SameBytes
<1>7. Span(t, 0, n) = SubSeq(t, 1, n)
  <2>1. 0 + 1 = 1
    OBVIOUS
  <2> QED BY <2>1 DEF Span
<1> QED BY <1>6, <1>7 DEF t

\* Two spans that meet are one.
LEMMA SpansMeet ==
  ASSUME NEW s \in Seq(Bytes), NEW a \in Nat, NEW b \in Nat, NEW c \in Nat,
         a <= b, b <= c, c <= Len(s)
  PROVE  Span(s, a, b) \o Span(s, b, c) = Span(s, a, c)
<1>1. Len(s) \in Nat
  BY LenProperties
<1>2. /\ Span(s, a, b) \in Seq(Bytes) /\ Len(Span(s, a, b)) = b - a
      /\ \A i \in 1..(b - a) : Span(s, a, b)[i] = s[a + i]
  <2>1. b <= Len(s)
    BY <1>1
  <2> QED BY <2>1, SpanIs
<1>3. /\ Span(s, b, c) \in Seq(Bytes) /\ Len(Span(s, b, c)) = c - b
      /\ \A i \in 1..(c - b) : Span(s, b, c)[i] = s[b + i]
  BY SpanIs
<1>4. /\ Span(s, a, c) \in Seq(Bytes) /\ Len(Span(s, a, c)) = c - a
      /\ \A i \in 1..(c - a) : Span(s, a, c)[i] = s[a + i]
  <2>1. a <= c
    OBVIOUS
  <2> QED BY <2>1, SpanIs
<1> DEFINE x == Span(s, a, b)
           y == Span(s, b, c)
<1> HIDE DEF x, y
<1>5. /\ x \o y \in Seq(Bytes) /\ Len(x \o y) = (b - a) + (c - b)
      /\ \A i \in 1..((b - a) + (c - b)) : (x \o y)[i] = IF i <= b - a THEN x[i] ELSE y[i - (b - a)]
  <2>1. x \in Seq(Bytes) /\ y \in Seq(Bytes) /\ Len(x) = b - a /\ Len(y) = c - b
    BY <1>2, <1>3 DEF x, y
  <2>2. /\ x \o y \in Seq(Bytes) /\ Len(x \o y) = Len(x) + Len(y)
        /\ \A i \in 1..(Len(x) + Len(y)) : (x \o y)[i] = IF i <= Len(x) THEN x[i] ELSE y[i - Len(x)]
    BY <2>1, ConcatProperties
  <2> QED BY <2>1, <2>2
<1>6. (b - a) + (c - b) = c - a
  OBVIOUS
<1>7. ASSUME NEW i \in 1..(c - a) PROVE (x \o y)[i] = Span(s, a, c)[i]
  <2>1. CASE i <= b - a
    <3>1. i \in 1..(b - a)
      BY <2>1
    <3> QED BY <1>2, <1>4, <1>5, <1>6, <2>1, <3>1 DEF x
  <2>2. CASE ~ (i <= b - a)
    <3>1. i - (b - a) \in 1..(c - b) /\ b + (i - (b - a)) = a + i
      BY <2>2
    <3> QED BY <1>3, <1>4, <1>5, <1>6, <2>2, <3>1 DEF y
  <2> QED BY <2>1, <2>2
<1>8. x \o y = Span(s, a, c)
  BY <1>4, <1>5, <1>6, <1>7, SameBytes
<1> QED BY <1>8 DEF x, y

\* A byte more at the end changes no span before it.
LEMMA SpanAppend ==
  ASSUME NEW s \in Seq(Bytes), NEW b \in Bytes, NEW i \in Nat, NEW j \in Nat, i <= j, j <= Len(s)
  PROVE  Span(Append(s, b), i, j) = Span(s, i, j)
<1> DEFINE t == Append(s, b)
<1>1. t \in Seq(Bytes) /\ Len(t) = Len(s) + 1 /\ \A k \in 1..Len(s) : t[k] = s[k]
  BY AppendProperties
<1> HIDE DEF t
<1>2. Len(s) \in Nat
  BY LenProperties
<1>3. /\ Span(s, i, j) \in Seq(Bytes) /\ Len(Span(s, i, j)) = j - i
      /\ \A k \in 1..(j - i) : Span(s, i, j)[k] = s[i + k]
  BY SpanIs
<1>4. /\ Span(t, i, j) \in Seq(Bytes) /\ Len(Span(t, i, j)) = j - i
      /\ \A k \in 1..(j - i) : Span(t, i, j)[k] = t[i + k]
  <2>1. j <= Len(t)
    BY <1>1, <1>2
  <2> QED BY <1>1, <2>1, SpanIs
<1>5. ASSUME NEW k \in 1..(j - i) PROVE Span(t, i, j)[k] = Span(s, i, j)[k]
  <2>1. i + k \in 1..Len(s)
    BY <1>2
  <2> QED BY <1>1, <1>3, <1>4, <2>1
<1>6. Span(t, i, j) = Span(s, i, j)
  BY <1>3, <1>4, <1>5, SameBytes
<1> QED BY <1>6 DEF t

\* The whole, and nothing.
LEMMA SpanEnds ==
  ASSUME NEW s \in Seq(Bytes)
  PROVE  /\ Span(s, 0, Len(s)) = s
         /\ \A a \in 0..Len(s) : (Span(s, a, Len(s)) = <<>>) <=> (a = Len(s))
         /\ \A a \in 0..Len(s) : Span(s, a, a) = <<>>
<1>1. Len(s) \in Nat
  BY LenProperties
<1>2. Span(s, 0, Len(s)) = s
  <2>1. 0 + 1 = 1
    OBVIOUS
  <2> QED BY <2>1, SubSeqFull DEF Span
<1>3. ASSUME NEW a \in 0..Len(s)
      PROVE  ((Span(s, a, Len(s)) = <<>>) <=> (a = Len(s))) /\ Span(s, a, a) = <<>>
  <2>1. a \in Nat /\ a <= Len(s) /\ Len(s) <= Len(s)
    BY <1>1
  <2>2. Span(s, a, Len(s)) \in Seq(Bytes) /\ Len(Span(s, a, Len(s))) = Len(s) - a
    BY <1>1, <2>1, SpanIs
  <2>3. Span(s, a, a) \in Seq(Bytes) /\ Len(Span(s, a, a)) = a - a
    <3>1. a <= a
      BY <2>1
    <3> QED BY <2>1, <3>1, SpanIs
  <2>4. \A t \in Seq(Bytes) : (t = <<>>) <=> (Len(t) = 0)
    BY EmptySeq
  <2>5. a - a = 0 /\ ((Len(s) - a = 0) <=> (a = Len(s)))
    BY <1>1, <2>1
  <2> QED BY <2>2, <2>3, <2>4, <2>5
<1> QED BY <1>2, <1>3

----
\* What is made of what was read.

\* What comes before the first newline: everything, or the bytes up to it.
LEMMA UpToIs ==
  ASSUME NEW s \in Seq(Bytes)
  PROVE  \/ NoneIn(s, 1, Len(s)) /\ UpToNewline(s) = s
         \/ \E i \in 1..Len(s) :
               s[i] = Newline /\ NoneIn(s, 1, i - 1) /\ UpToNewline(s) = Span(s, 0, i - 1)
<1>1. CASE ~ HasNewline(s)
  BY <1>1 DEF HasNewline, NoneIn, UpToNewline
<1>2. CASE HasNewline(s)
  <2> DEFINE T == {i \in 1..Len(s) : s[i] = Newline}
             IsFirst(i) == s[i] = Newline /\ \A j \in 1..(i - 1) : s[j] # Newline
  <2>1. T \in SUBSET Nat /\ T # {}
    BY <1>2 DEF HasNewline
  <2> HIDE DEF T
  <2>2. PICK i \in T : \A j \in T : i <= j
    BY <2>1, LeastNumber
  <2>3. i \in 1..Len(s) /\ s[i] = Newline
    BY <2>2 DEF T
  <2>4. \A j \in 1..(i - 1) : s[j] # Newline
    <3>1. ASSUME NEW j \in 1..(i - 1), s[j] = Newline PROVE FALSE
      <4>1. j \in 1..Len(s) /\ ~ (i <= j)
        BY <2>3, LenProperties
      <4> QED BY <2>2, <3>1, <4>1 DEF T
    <3> QED BY <3>1
  <2>5. IsFirst(i)
    BY <2>3, <2>4
  <2> HIDE DEF IsFirst
  <2>6. \E f \in 1..Len(s) : IsFirst(f) /\ FirstNewline(s) = f
    <3>1. (CHOOSE f \in 1..Len(s) : IsFirst(f)) \in 1..Len(s) /\ IsFirst(CHOOSE f \in 1..Len(s) : IsFirst(f))
      BY <2>3, <2>5
    <3> QED BY <3>1 DEF FirstNewline, IsFirst
  <2>7. PICK f \in 1..Len(s) : IsFirst(f) /\ FirstNewline(s) = f
    BY <2>6
  <2>8. s[f] = Newline /\ NoneIn(s, 1, f - 1)
    BY <2>7 DEF IsFirst, NoneIn
  <2>9. UpToNewline(s) = Span(s, 0, f - 1)
    <3>1. 0 + 1 = 1
      OBVIOUS
    <3> QED BY <1>2, <2>7, <3>1 DEF UpToNewline, Span
  <2> QED BY <2>8, <2>9
<1> QED BY <1>1, <1>2

\* A read returns some of what waits.
LEMMA ChunkIs ==
  ASSUME NEW s \in Seq(Bytes), NEW r \in 0..Len(s), NEW chunk \in Chunks(Span(s, r, Len(s)))
  PROVE  \E e \in Nat : r < e /\ e <= Len(s) /\ chunk = Span(s, r, e)
<1>1. Len(s) \in Nat /\ r \in Nat /\ r <= Len(s) /\ Len(s) <= Len(s)
  BY LenProperties
<1>2. Len(Span(s, r, Len(s))) = Len(s) - r
  BY <1>1, SpanIs
<1> DEFINE t == Span(s, r, Len(s))
<1> HIDE DEF t
<1>3. PICK n \in 1..(Len(s) - r) : chunk = SubSeq(t, 1, n)
  BY <1>2 DEF Chunks, t
<1>4. n \in Nat /\ n <= Len(s) - r /\ r + n \in Nat /\ r < r + n /\ r + n <= Len(s)
  BY <1>1
<1>5. SubSeq(t, 1, n) = Span(s, r, r + n)
  BY <1>1, <1>4, SpanOfSpan DEF t
<1> QED BY <1>3, <1>4, <1>5

\* ... and its content is what precedes the first newline in it.
LEMMA ContentIs ==
  ASSUME NEW s \in Seq(Bytes), NEW r \in Nat, NEW e \in Nat, r < e, e <= Len(s),
         NEW chunk, chunk = Span(s, r, e)
  PROVE  \E q \in Nat :
           /\ r <= q /\ q <= e /\ UpToNewline(chunk) = Span(s, r, q) /\ NoneIn(s, r + 1, q)
           /\ \/ q = e /\ UpToNewline(chunk) = chunk
              \/ q < e /\ UpToNewline(chunk) # chunk /\ s[q + 1] = Newline
<1>1. /\ chunk \in Seq(Bytes) /\ Len(chunk) = e - r
      /\ \A i \in 1..(e - r) : chunk[i] = s[r + i]
  <2>1. r <= e
    OBVIOUS
  <2> QED BY <2>1, SpanIs
<1>0. Len(s) \in Nat
  BY LenProperties
<1>2. ASSUME NEW i \in 0..(e - r), NoneIn(chunk, 1, i) PROVE NoneIn(s, r + 1, r + i)
  <2>1. ASSUME NEW k \in (r + 1)..(r + i), s[k] = Newline PROVE FALSE
    <3>1. k - r \in 1..i /\ k - r \in 1..(e - r) /\ r + (k - r) = k
      OBVIOUS
    <3> QED BY <1>1, <1>2, <2>1, <3>1 DEF NoneIn
  <2> QED BY <2>1 DEF NoneIn
<1>3. CASE NoneIn(chunk, 1, Len(chunk)) /\ UpToNewline(chunk) = chunk
  <2>1. e - r \in 0..(e - r) /\ r + (e - r) = e /\ r <= e /\ e <= e
    OBVIOUS
  <2>2. NoneIn(s, r + 1, r + (e - r))
    BY <1>1, <1>2, <1>3, <2>1
  <2>3. NoneIn(s, r + 1, e)
    BY <2>1, <2>2
  <2> QED BY <1>3, <2>1, <2>3
<1>4. CASE \E i \in 1..Len(chunk) :
              chunk[i] = Newline /\ NoneIn(chunk, 1, i - 1) /\ UpToNewline(chunk) = Span(chunk, 0, i - 1)
  <2>1. PICK i \in 1..(e - r) :
              chunk[i] = Newline /\ NoneIn(chunk, 1, i - 1) /\ UpToNewline(chunk) = Span(chunk, 0, i - 1)
    BY <1>1, <1>4
  <2> DEFINE n == i - 1
  <2>2. n \in Nat /\ n \in 0..(e - r) /\ n <= e - r /\ n < e - r /\ n + 1 = i
    OBVIOUS
  <2>3. NoneIn(chunk, 1, n) /\ UpToNewline(chunk) = Span(chunk, 0, n) /\ chunk[n + 1] = Newline
    BY <2>1, <2>2
  <2> HIDE DEF n
  <2>4. NoneIn(s, r + 1, r + n)
    BY <1>2, <2>2, <2>3
  <2>5. s[r + n + 1] = Newline
    <3>1. n + 1 \in 1..(e - r) /\ r + (n + 1) = r + n + 1
      BY <2>2
    <3> QED BY <1>1, <2>3, <3>1
  <2>6. Span(chunk, 0, n) = Span(s, r, r + n)
    <3>1. SubSeq(Span(s, r, e), 1, n) = Span(s, r, r + n)
      <4>1. r <= e
        OBVIOUS
      <4> QED BY <2>2, <4>1, SpanOfSpan
    <3>2. 0 + 1 = 1
      OBVIOUS
    <3>3. Span(chunk, 0, n) = SubSeq(chunk, 1, n)
      BY <3>2 DEF Span
    <3> QED BY <3>1, <3>3
  <2>7. r + n \in Nat /\ r <= r + n /\ r + n < e /\ r + n <= e /\ r + n <= Len(s)
    BY <1>0, <2>2
  <2>8. UpToNewline(chunk) # chunk
    <3>1. Len(Span(s, r, r + n)) = (r + n) - r
      BY <2>7, SpanIs
    <3>2. (r + n) - r # e - r
      BY <2>2
    <3> QED BY <1>1, <2>3, <2>6, <3>1, <3>2
  <2> QED BY <2>3, <2>4, <2>5, <2>6, <2>7, <2>8
<1> QED BY <1>1, <1>3, <1>4, UpToIs

\* Decoding makes at most a replacement character of each byte.
LEMMA DecodedIs ==
  ASSUME NEW s \in Seq(Bytes)
  PROVE  /\ Decoded(s) \in Nat /\ Decoded(s) <= Len(s) * Replaced
         /\ Len(s) = 0 => Decoded(s) = 0
<1> DEFINE I == {i \in 1..Len(s) : s[i] = Invalid}
           k == Cardinality(I)
<1>1. Len(s) \in Nat /\ Replaced \in Nat /\ Replaced >= 1 /\ Replaced - 1 \in Nat
  BY LenProperties, StreamLinesAssumption
<1>2. IsFiniteSet(1..Len(s)) /\ Cardinality(1..Len(s)) = Len(s)
  <2>1. IsFiniteSet(1..Len(s)) /\ Cardinality(1..Len(s)) = IF 1 > Len(s) THEN 0 ELSE Len(s) - 1 + 1
    BY <1>1, FS_Interval
  <2> QED BY <1>1, <2>1
<1>3. k \in Nat /\ k <= Len(s)
  <2>1. I \subseteq 1..Len(s)
    OBVIOUS
  <2> HIDE DEF I
  <2>2. IsFiniteSet(I) /\ Cardinality(I) <= Cardinality(1..Len(s))
    BY <1>2, <2>1, FS_Subset
  <2> QED BY <1>2, <2>2, FS_CardinalityType
<1>4. Decoded(s) = Len(s) + (Replaced - 1) * k
  BY DEF Decoded
<1> HIDE DEF k, I
<1> DEFINE d == Replaced - 1
<1>5. d \in Nat /\ Replaced = 1 + d
  BY <1>1
<1> HIDE DEF d
<1>6. Decoded(s) = Len(s) + d * k
  BY <1>4 DEF d
<1>7. d * k \in Nat /\ d * k <= d * Len(s) /\ d * Len(s) = Len(s) * d /\ d * Len(s) \in Nat
  BY <1>1, <1>3, <1>5, Products
<1>8. Len(s) * Replaced = Len(s) * 1 + Len(s) * d
  BY <1>1, <1>5, Products
<1>9. Decoded(s) \in Nat /\ Decoded(s) <= Len(s) * Replaced
  <2>1. Len(s) * 1 = Len(s)
    BY <1>1
  <2> QED BY <1>1, <1>6, <1>7, <1>8, <2>1
<1>10. Len(s) = 0 => Decoded(s) = 0
  <2>1. d * 0 = 0
    BY <1>5
  <2>2. Len(s) = 0 => k = 0
    BY <1>3
  <2> QED BY <1>6, <2>1, <2>2
<1> QED BY <1>9, <1>10

\* There is a longest beginning that fits beside the mark.
LEMMA ShortenedIs ==
  ASSUME NEW s \in Seq(Bytes)
  PROVE  \E n \in 0..Len(s) : Shortened(s) = Span(s, 0, n) /\ Decoded(Shortened(s)) <= Cap - Mark
<1>0. Len(s) \in Nat /\ Cap - Mark \in Nat
  BY LenProperties, StreamLinesAssumption
<1>1. ASSUME NEW n \in 0..Len(s)
      PROVE  /\ SubSeq(s, 1, n) = Span(s, 0, n) /\ SubSeq(s, 1, n) \in Seq(Bytes)
             /\ Len(SubSeq(s, 1, n)) = n /\ Decoded(SubSeq(s, 1, n)) \in Nat
  <2>1. SubSeq(s, 1, n) = Span(s, 0, n)
    <3>1. 0 + 1 = 1
      OBVIOUS
    <3> QED BY <3>1 DEF Span
  <2>2. n \in Nat /\ 0 <= n /\ n <= Len(s) /\ n - 0 = n
    BY <1>0
  <2>3. Span(s, 0, n) \in Seq(Bytes) /\ Len(Span(s, 0, n)) = n
    BY <2>2, SpanIs
  <2> QED BY <2>1, <2>3, DecodedIs
<1> DEFINE Fits(n) == Decoded(SubSeq(s, 1, n)) <= Cap - Mark
           Full(n) == n = Len(s) \/ Decoded(SubSeq(s, 1, n + 1)) > Cap - Mark
           T == {n \in 0..Len(s) : Full(n)}
<1>2. Len(s) \in T /\ T \in SUBSET Nat
  BY <1>0
<1> HIDE DEF T
<1>3. PICK n \in T : \A m \in T : n <= m
  BY <1>2, LeastNumber
<1>4. n \in 0..Len(s) /\ Full(n)
  BY <1>3 DEF T
<1>5. Fits(n)
  <2>1. CASE n = 0
    <3>1. Decoded(SubSeq(s, 1, 0)) = 0
      <4>1. 0 \in 0..Len(s)
        BY <1>0
      <4> QED BY <1>1, <4>1, DecodedIs
    <3> QED BY <1>0, <2>1, <3>1
  <2>2. CASE n # 0
    <3>1. n - 1 \in 0..Len(s) /\ ~ (n <= n - 1) /\ (n - 1) + 1 = n
      BY <1>0, <1>4, <2>2
    <3>2. ~ Full(n - 1)
      BY <1>3, <3>1 DEF T
    <3> HIDE DEF Fits
    <3>3. ~ (Decoded(SubSeq(s, 1, (n - 1) + 1)) > Cap - Mark)
      BY <3>2
    <3>4. ~ (Decoded(SubSeq(s, 1, n)) > Cap - Mark)
      BY <3>1, <3>3
    <3>5. Decoded(SubSeq(s, 1, n)) \in Nat
      BY <1>1, <1>4
    <3> QED BY <1>0, <3>4, <3>5 DEF Fits
  <2> QED BY <2>1, <2>2
<1> HIDE DEF Fits, Full
<1> DEFINE best == CHOOSE m \in 0..Len(s) : Fits(m) /\ Full(m)
<1>6. best \in 0..Len(s) /\ Fits(best)
  BY <1>4, <1>5
<1>7. Shortened(s) = SubSeq(s, 1, best)
  BY DEF Shortened, Fits, Full
<1> HIDE DEF best
<1>8. SubSeq(s, 1, best) = Span(s, 0, best)
  BY <1>1, <1>6
<1>9. Decoded(SubSeq(s, 1, best)) <= Cap - Mark
  BY <1>6 DEF Fits
<1> QED BY <1>6, <1>7, <1>8, <1>9

----
\* A line on its way out.

Messages == [text : Seq(Bytes), cut : BOOLEAN]

\* What a handed-on line takes, its mark included.
Within(m, limit) == Decoded(m.text) + (IF m.cut THEN Mark ELSE 0) <= limit

\* A beginning of a line, shorter than it or not.
StartOf(text, line) == \E n \in 0..Len(line) : text = Span(line, 0, n)

\* The beginning of a line is a prefix of it.
LEMMA BeginningIsPrefix ==
  ASSUME NEW line \in Seq(Bytes), NEW text, StartOf(text, line)
  PROVE  IsPrefix(text, line) /\ text \in Seq(Bytes)
<1>1. PICK n \in 0..Len(line) : text = Span(line, 0, n)
  BY DEF StartOf
<1>2. n \in Nat /\ 0 \in Nat /\ 0 <= n /\ n <= Len(line) /\ n - 0 = n /\ Len(line) \in Nat
  BY LenProperties
<1>3. Span(line, 0, n) \in Seq(Bytes) /\ Len(Span(line, 0, n)) = n
  BY <1>2, SpanIs
<1>4. SubSeq(text, 1, Len(text)) = text
  BY <1>1, <1>3, SubSeqFull
<1>5. SubSeq(line, 1, n) = Span(line, 0, n)
  <2>1. 0 + 1 = 1
    OBVIOUS
  <2> QED BY <2>1 DEF Span
<1> QED BY <1>1, <1>2, <1>3, <1>4, <1>5 DEF IsPrefix

\* The beginning of a beginning is a beginning.
LEMMA BeginsAgain ==
  ASSUME NEW line \in Seq(Bytes), NEW t, StartOf(t, line), NEW u, StartOf(u, t)
  PROVE  StartOf(u, line)
<1>1. PICK n \in 0..Len(line) : t = Span(line, 0, n)
  BY DEF StartOf
<1>2. n \in Nat /\ 0 \in Nat /\ 0 <= n /\ n <= Len(line) /\ n - 0 = n /\ Len(line) \in Nat
  BY LenProperties
<1>3. t \in Seq(Bytes) /\ Len(t) = n
  BY <1>1, <1>2, SpanIs
<1>4. PICK m \in 0..n : u = Span(t, 0, m)
  BY <1>3 DEF StartOf
<1>5. m \in Nat /\ m <= n - 0 /\ m \in 0..Len(line) /\ 0 + m = m
  BY <1>2
<1>6. SubSeq(Span(line, 0, n), 1, m) = Span(line, 0, 0 + m)
  BY <1>2, <1>5, SpanOfSpan
<1>7. Span(t, 0, m) = SubSeq(t, 1, m)
  <2>1. 0 + 1 = 1
    OBVIOUS
  <2> QED BY <2>1 DEF Span
<1> QED BY <1>1, <1>4, <1>5, <1>6, <1>7 DEF StartOf

\* A bounded text is the text itself if that fits, and a marked beginning if not.
LEMMA BoundedIs ==
  ASSUME NEW s \in Seq(Bytes), NEW cut \in BOOLEAN
  PROVE  /\ BoundedText(s, cut) \in Messages /\ Within(BoundedText(s, cut), Cap)
         /\ \/ ~ cut /\ Decoded(s) <= Cap /\ BoundedText(s, cut) = [text |-> s, cut |-> FALSE]
            \/ /\ cut \/ ~ (Decoded(s) <= Cap)
               /\ BoundedText(s, cut).cut /\ StartOf(BoundedText(s, cut).text, s)
<1>0. Cap \in Nat /\ Mark \in Nat /\ Decoded(s) \in Nat
  BY StreamLinesAssumption, DecodedIs
<1>1. CASE cut \/ Decoded(s) > Cap
  <2> DEFINE m == [text |-> Shortened(s), cut |-> TRUE]
  <2>1. BoundedText(s, cut) = m
    BY <1>1 DEF BoundedText
  <2>2. m.text = Shortened(s) /\ m.cut
    OBVIOUS
  <2>3. PICK n \in 0..Len(s) : Shortened(s) = Span(s, 0, n) /\ Decoded(Shortened(s)) <= Cap - Mark
    BY ShortenedIs
  <2>4. StartOf(m.text, s)
    BY <2>2, <2>3 DEF StartOf
  <2>5. Shortened(s) \in Seq(Bytes) /\ Decoded(Shortened(s)) \in Nat
    BY <2>2, <2>4, BeginningIsPrefix, DecodedIs
  <2>6. m \in Messages
    BY <2>5 DEF Messages
  <2> HIDE DEF m
  <2>7. Within(m, Cap)
    <3>1. Decoded(Shortened(s)) + Mark <= Cap
      BY <1>0, <2>3, <2>5
    <3> QED BY <2>2, <3>1 DEF Within
  <2>8. cut \/ ~ (Decoded(s) <= Cap)
    BY <1>0, <1>1
  <2> QED BY <2>1, <2>2, <2>4, <2>6, <2>7, <2>8
<1>2. CASE ~ cut /\ ~ (Decoded(s) > Cap)
  <2> DEFINE m == [text |-> s, cut |-> FALSE]
  <2>1. BoundedText(s, cut) = m
    BY <1>2 DEF BoundedText
  <2>2. m.text = s /\ ~ m.cut /\ m \in Messages
    BY DEF Messages
  <2> HIDE DEF m
  <2>3. Decoded(s) <= Cap /\ Decoded(s) + 0 <= Cap
    BY <1>0, <1>2
  <2>4. Within(m, Cap)
    BY <2>2, <2>3 DEF Within
  <2> QED BY <1>2, <2>1, <2>2, <2>3, <2>4 DEF m
<1> QED BY <1>1, <1>2

\* n bytes, of which no more are kept than the limit.
Limited(n) == IF n < Cap THEN n ELSE Cap

\* Without its last byte a text is a beginning of itself.
LEMMA FrontIs ==
  ASSUME NEW s \in Seq(Bytes)
  PROVE  s # <<>> => StartOf(Front(s), s)
<1> SUFFICES ASSUME s # <<>> PROVE StartOf(Front(s), s)
  OBVIOUS
<1>1. Len(s) \in Nat \ {0}
  BY EmptySeq
<1>2. Len(s) - 1 \in 0..Len(s) /\ 0 + 1 = 1
  BY <1>1
<1>3. Front(s) = Span(s, 0, Len(s) - 1)
  BY <1>2 DEF Front, Span
<1> QED BY <1>2, <1>3 DEF StartOf

\* A text is a beginning of itself.
LEMMA WholeBegins ==
  ASSUME NEW s \in Seq(Bytes)
  PROVE  StartOf(s, s)
<1>1. Len(s) \in 0..Len(s) /\ s = Span(s, 0, Len(s))
  BY LenProperties, SpanEnds
<1> QED BY <1>1 DEF StartOf

\* A line without its line ending is a beginning of it.
LEMMA StrippedIs ==
  ASSUME NEW s \in Seq(Bytes), NEW ended, NEW cut
  PROVE  StartOf(Stripped(s, ended, cut), s) /\ Stripped(s, ended, cut) \in Seq(Bytes)
<1>1. StartOf(Stripped(s, ended, cut), s)
  BY FrontIs, WholeBegins DEF Stripped
<1> QED BY <1>1, BeginningIsPrefix

\* A line of which the limit was kept is handed on as its reader should.
LEMMA HandedOnRight ==
  ASSUME NEW line \in Seq(Bytes), NEW kept, kept = Span(line, 0, Limited(Len(line))),
         NEW cut \in BOOLEAN, cut <=> (Len(line) > Cap)
  PROVE  LET m == BoundedText(Stripped(kept, TRUE, cut), cut)
         IN  m \in Messages /\ Within(m, Cap) /\ Renders(m, line)
<1> DEFINE text == Stripped(kept, TRUE, cut)
           m == BoundedText(text, cut)
<1>0. Len(line) \in Nat /\ Cap \in Nat
  BY LenProperties, StreamLinesAssumption
<1>1. StartOf(kept, line) /\ kept \in Seq(Bytes)
  <2>1. Limited(Len(line)) \in 0..Len(line)
    BY <1>0 DEF Limited
  <2>2. StartOf(kept, line)
    BY <2>1 DEF StartOf
  <2> QED BY <2>2, BeginningIsPrefix
<1>2. StartOf(text, kept) /\ text \in Seq(Bytes)
  BY <1>1, StrippedIs
<1>3. ~ cut => text = IF line # <<>> /\ Last(line) = Return THEN Front(line) ELSE line
  <2> SUFFICES ASSUME ~ cut
               PROVE  text = IF line # <<>> /\ Last(line) = Return THEN Front(line) ELSE line
    OBVIOUS
  <2>1. Limited(Len(line)) = Len(line)
    BY <1>0 DEF Limited
  <2>2. kept = line
    BY <2>1, SpanEnds
  <2> QED BY <2>2 DEF Stripped
<1> HIDE DEF text
<1>4. /\ m \in Messages /\ Within(m, Cap)
      /\ \/ ~ cut /\ Decoded(text) <= Cap /\ m = [text |-> text, cut |-> FALSE]
         \/ (cut \/ ~ (Decoded(text) <= Cap)) /\ m.cut /\ StartOf(m.text, text)
  BY <1>2, BoundedIs
<1> HIDE DEF m
<1>5. Renders(m, line)
  <2> DEFINE plain == IF line # <<>> /\ Last(line) = Return THEN Front(line) ELSE line
  <2>1. ~ cut => text = plain
    BY <1>3
  <2>2. Renders(m, line) <=> IF Len(line) <= Cap /\ Decoded(plain) <= Cap
                             THEN m = [text |-> plain, cut |-> FALSE]
                             ELSE m.cut /\ IsPrefix(m.text, line)
    BY DEF Renders
  <2> HIDE DEF plain
  <2>3. CASE ~ cut /\ Decoded(text) <= Cap /\ m = [text |-> text, cut |-> FALSE]
    <3>1. Len(line) <= Cap
      BY <1>0, <2>3
    <3> QED BY <2>1, <2>2, <2>3, <3>1
  <2>4. CASE (cut \/ ~ (Decoded(text) <= Cap)) /\ m.cut /\ StartOf(m.text, text)
    <3>1. StartOf(m.text, line)
      BY <1>1, <1>2, <2>4, BeginsAgain
    <3>2. IsPrefix(m.text, line)
      BY <3>1, BeginningIsPrefix
    <3>3. ~ (Len(line) <= Cap /\ Decoded(plain) <= Cap)
      <4>1. CASE cut
        BY <1>0, <4>1
      <4>2. CASE ~ cut
        BY <2>1, <2>4, <4>2
      <4> QED BY <4>1, <4>2
    <3> QED BY <2>2, <2>4, <3>2, <3>3
  <2> QED BY <1>4, <2>3, <2>4
<1> QED BY <1>4, <1>5 DEF m, text

\* What is kept of the bytes since p grows with them, up to the limit.
Keeps(s, p, r, kept) == kept = Span(s, p, p + Limited(r - p))
Adds(kept, content) == kept \o SubSeq(content, 1, Retained(Cap - Len(kept), content))
Exceeds(p, r) == r - p > Cap
Drops(kept, content) == Retained(Cap - Len(kept), content) < Len(content)

\* One more chunk: the reader keeps what fits, and knows whether something did not.
LEMMA KeepsMore ==
  ASSUME NEW s \in Seq(Bytes), NEW p \in Nat, NEW r \in Nat, NEW q \in Nat,
         p <= r, r <= q, q <= Len(s),
         NEW kept, Keeps(s, p, r, kept), NEW content, content = Span(s, r, q)
  PROVE  /\ Keeps(s, p, q, Adds(kept, content))
         /\ Exceeds(p, r) \/ Drops(kept, content) <=> Exceeds(p, q)
<1> DEFINE n == Retained(Cap - Len(kept), content)
<1>0. Len(s) \in Nat /\ Cap \in Nat
  BY LenProperties, StreamLinesAssumption
<1>1. /\ Limited(r - p) \in Nat /\ Limited(r - p) <= r - p /\ Limited(r - p) <= Cap
      /\ p + Limited(r - p) \in Nat /\ p <= p + Limited(r - p) /\ p + Limited(r - p) <= Len(s)
      /\ (p + Limited(r - p)) - p = Limited(r - p)
  BY <1>0 DEF Limited
<1>2. kept = Span(s, p, p + Limited(r - p)) /\ Len(kept) = Limited(r - p)
  BY <1>1, SpanIs DEF Keeps
<1>3. Len(content) = q - r
  BY SpanIs
<1>4. n = IF q - r < Cap - Limited(r - p) THEN q - r ELSE Cap - Limited(r - p)
  BY <1>2, <1>3 DEF Retained
<1>5. n \in Nat /\ n <= q - r
  BY <1>0, <1>1, <1>4
<1> HIDE DEF n
<1>6. SubSeq(content, 1, n) = Span(s, r, r + n)
  BY <1>5, SpanOfSpan
<1>7. (r - p > Cap \/ n < q - r) <=> q - p > Cap
  BY <1>0, <1>4 DEF Limited
<1>8. kept \o SubSeq(content, 1, n) = Span(s, p, p + Limited(q - p))
  <2>1. CASE r - p <= Cap
    <3>1. Limited(r - p) = r - p /\ p + Limited(r - p) = r
      BY <1>0, <2>1 DEF Limited
    <3>2. r + n \in Nat /\ r <= r + n /\ r + n <= Len(s) /\ r + n = p + Limited(q - p)
      BY <1>0, <1>4, <1>5, <2>1, <3>1 DEF Limited
    <3>3. Span(s, p, r) \o Span(s, r, r + n) = Span(s, p, r + n)
      BY <3>2, SpansMeet
    <3> QED BY <1>2, <1>6, <3>1, <3>2, <3>3
  <2>2. CASE ~ (r - p <= Cap)
    <3>1. Limited(r - p) = Cap /\ Limited(q - p) = Cap /\ n = 0 /\ r + n = r
      BY <1>0, <1>4, <2>2 DEF Limited
    <3>2. Span(s, r, r + n) = <<>>
      <4>1. r \in 0..Len(s)
        BY <1>0
      <4> QED BY <3>1, <4>1, SpanEnds
    <3>3. kept \in Seq(Bytes)
      BY <1>1, <1>2, SpanIs
    <3> QED BY <1>2, <1>6, <3>1, <3>2, <3>3, ConcatEmptySeq
  <2> QED BY <2>1, <2>2
<1> QED BY <1>3, <1>7, <1>8 DEF n, Keeps, Adds, Exceeds, Drops

----
\* What each reader has made of the stream.

StreamSpec == StreamInit /\ [][StreamNext]_streamVars

StreamTypes ==
  /\ reader \in {"child", "pool", "command"} /\ readerState \in {"reading", "ended", "failed"}
  /\ written \in Seq(Bytes) /\ read \in 0..Len(written) /\ open \in BOOLEAN
  /\ captured \in Seq(Bytes) /\ sawBytes \in BOOLEAN /\ truncated \in BOOLEAN
  /\ lines \in Seq(Messages)

\* All of the stream has been read, and there will be no more.
Exhausted == ~ open /\ read = Len(written)

\* The window's reader is in the line that begins after p, of which it keeps
\* what the limit allows; or has handed on that line, which no newline ended.
InChildLine(p) ==
  /\ p \in 0..read /\ Begun(written, p, read)
  /\ \/ /\ Len(lines) = Len(Complete(written, read))
        /\ captured = Span(written, p, p + Limited(read - p))
        /\ sawBytes <=> p < read
        /\ truncated <=> read - p > Cap
        /\ readerState = "ended" => Exhausted /\ p = read
     \/ /\ Len(lines) = Len(Complete(written, read)) + 1
        /\ captured = <<>> /\ ~ sawBytes /\ ~ truncated
        /\ p < read /\ Exhausted

ChildInv ==
  /\ readerState # "failed"
  /\ \E p \in Nat : InChildLine(p)
  /\ \A i \in 1..Len(Complete(written, read)) : Renders(lines[i], Complete(written, read)[i])
  /\ \A i \in 1..Len(lines) : Within(lines[i], Cap)

\* The pool's lines are the complete ones among the first p bytes.  It reads
\* the line after them, or gave up on it: it has no end within the limit, or
\* none at all.
InPoolLine(p) ==
  /\ p \in 0..read /\ (p = 0 \/ written[p] = Newline)
  /\ Len(lines) = Len(Complete(written, p))
  /\ \A i \in 1..Len(lines) :
        lines[i] = [text |-> Complete(written, p)[i], cut |-> FALSE] /\ Len(lines[i].text) < Cap
  /\ \/ /\ readerState # "failed"
        /\ captured = Span(written, p, read) /\ read - p <= Cap /\ NoneIn(written, p + 1, read)
     \/ /\ readerState = "failed" /\ Len(captured) <= Cap + 1
        /\ \/ p + Cap <= Len(written) /\ NoneIn(written, p + 1, p + Cap)
           \/ ~ open /\ p < Len(written) /\ NoneIn(written, p + 1, Len(written))

PoolInv == \E p \in Nat : InPoolLine(p)

CommandInv ==
  /\ captured = Span(written, 0, Limited(read)) /\ (truncated <=> read > Cap)
  /\ readerState # "reading" => Exhausted
  /\ readerState = "ended" => ~ truncated /\ lines = <<[text |-> captured, cut |-> FALSE]>>
  /\ readerState = "failed" => truncated
  /\ readerState # "ended" => lines = <<>>

StreamInv ==
  /\ StreamTypes
  /\ reader = "child" => ChildInv
  /\ reader = "pool" => PoolInv
  /\ reader = "command" => CommandInv

\* No newline here and none there is none in both.
LEMMA NoneInIs ==
  ASSUME NEW s, NEW p \in Nat, NEW r \in Nat, NEW q \in Nat,
         NoneIn(s, p + 1, r), NoneIn(s, r + 1, q)
  PROVE  NoneIn(s, p + 1, q)
<1>1. ASSUME NEW k \in (p + 1)..q PROVE s[k] # Newline
  <2>1. k \in (p + 1)..r \/ k \in (r + 1)..q
    OBVIOUS
  <2> QED BY <2>1 DEF NoneIn
<1> QED BY <1>1 DEF NoneIn

\* No line is complete before the first byte.
LEMMA NothingComplete ==
  ASSUME NEW s
  PROVE  Len(Complete(s, 0)) = 0
<1>1. Ends(s, 0) = {} /\ Cardinality({}) = 0
  BY FS_EmptySet DEF Ends
<1>2. Len(Complete(s, 0)) = Cardinality(Ends(s, 0))
  <2>1. 0 \in Nat
    OBVIOUS
  <2> QED BY <2>1, CompleteLen
<1> QED BY <1>1, <1>2

\* The complete lines can be counted.
LEMMA CompleteSize ==
  ASSUME NEW s, NEW n \in Nat
  PROVE  Len(Complete(s, n)) \in Nat
BY CompleteLen

\* Nothing is written or read at the start.
LEMMA StreamBegins == StreamInit => StreamInv
<1> SUFFICES ASSUME StreamInit PROVE StreamInv
  OBVIOUS
<1>1. /\ reader \in {"child", "pool", "command"} /\ readerState = "reading" /\ written = <<>> /\ read = 0
      /\ open = TRUE /\ captured = <<>> /\ sawBytes = FALSE /\ truncated = FALSE /\ lines = <<>>
  BY DEF StreamInit, StreamAt
<1>2. written \in Seq(Bytes) /\ Len(written) = 0 /\ lines \in Seq(Messages) /\ Len(lines) = 0 /\ Cap \in Nat
  BY <1>1, EmptySeq, StreamLinesAssumption
<1>3. StreamTypes
  <2>1. captured \in Seq(Bytes) /\ read \in 0..Len(written)
    BY <1>1, <1>2
  <2> QED BY <1>1, <1>2, <2>1 DEF StreamTypes
<1>4. Span(written, 0, 0) = <<>> /\ Limited(0 - 0) = 0 /\ Limited(0) = 0 /\ Len(Complete(written, 0)) = 0
  <2>1. 0 \in 0..Len(written)
    BY <1>2
  <2>2. Limited(0) = 0 /\ 0 - 0 = 0
    BY <1>2 DEF Limited
  <2>3. written \in Seq(Bytes)
    BY <1>2
  <2> QED BY <2>1, <2>2, <2>3, SpanEnds, NothingComplete
<1>5. NoneIn(written, 0 + 1, 0)
  BY DEF NoneIn
<1>6. InChildLine(0)
  <2>1. Begun(written, 0, 0)
    BY <1>5 DEF Begun
  <2>2. ~ (0 - 0 > Cap) /\ ~ (0 < 0) /\ 0 + 0 = 0
    BY <1>2
  <2> QED BY <1>1, <1>2, <1>4, <2>1, <2>2 DEF InChildLine
<1>7. ChildInv
  <2>1. \A i \in 1..0 : FALSE
    OBVIOUS
  <2> QED BY <1>1, <1>2, <1>4, <1>6, <2>1 DEF ChildInv
<1>8. PoolInv
  <2>1. (\A i \in 1..0 : FALSE) /\ 0 - 0 <= Cap
    BY <1>2
  <2>2. InPoolLine(0)
    BY <1>1, <1>2, <1>4, <1>5, <2>1 DEF InPoolLine
  <2> QED BY <2>2 DEF PoolInv
<1>9. CommandInv
  <2>1. ~ (0 > Cap)
    BY <1>2
  <2> QED BY <1>1, <1>4, <2>1 DEF CommandInv
<1> QED BY <1>3, <1>7, <1>8, <1>9 DEF StreamInv

\* A byte more behind the readers changes nothing they have read.
LEMMA WriteByteStep == StreamInv /\ WriteByte => StreamInv'
<1> SUFFICES ASSUME StreamInv, WriteByte PROVE StreamInv'
  OBVIOUS
<1>1. PICK b \in Bytes : written' = Append(written, b)
  BY DEF WriteByte
<1>2. /\ open /\ open' = open /\ reader' = reader /\ read' = read /\ captured' = captured
      /\ sawBytes' = sawBytes /\ truncated' = truncated /\ lines' = lines /\ readerState' = readerState
  BY DEF WriteByte
<1>3. StreamTypes
  BY DEF StreamInv
<1>4. /\ written \in Seq(Bytes) /\ Len(written) \in Nat /\ read \in Nat /\ read <= Len(written)
      /\ written' \in Seq(Bytes) /\ Len(written') = Len(written) + 1
      /\ \A i \in 1..Len(written) : written'[i] = written[i]
  BY <1>1, <1>3, AppendProperties, LenProperties DEF StreamTypes
<1>5. StreamTypes'
  <2>1. read \in 0..Len(written')
    BY <1>4
  <2> QED BY <1>2, <1>3, <1>4, <2>1 DEF StreamTypes
<1>6. \A n \in 0..Len(written) : Complete(written', n) = Complete(written, n)
  BY <1>1, <1>4, CompleteAppend
<1>7. \A i, j \in Nat : i <= j /\ j <= Len(written) => Span(written', i, j) = Span(written, i, j)
  BY <1>1, <1>4, SpanAppend
<1>8. \A i, j \in Nat : j <= Len(written) /\ NoneIn(written, i + 1, j) => NoneIn(written', i + 1, j)
  <2>1. ASSUME NEW i \in Nat, NEW j \in Nat, j <= Len(written), NoneIn(written, i + 1, j)
        PROVE  NoneIn(written', i + 1, j)
    <3>1. \A k \in (i + 1)..j : k \in 1..Len(written)
      BY <1>4, <2>1
    <3> QED BY <1>4, <2>1, <3>1 DEF NoneIn
  <2> QED BY <2>1
<1>9. \A p \in 0..read : (p = 0 \/ written[p] = Newline) => (p = 0 \/ written'[p] = Newline)
  <2>1. \A p \in 0..read : p = 0 \/ p \in 1..Len(written)
    BY <1>4
  <2> QED BY <1>4, <2>1
<1>10. read \in 0..Len(written) /\ Cap \in Nat
  BY <1>4, StreamLinesAssumption
<1>11. ~ Exhausted
  BY <1>2 DEF Exhausted
<1>12. reader = "child" => ChildInv'
  <2> SUFFICES ASSUME ChildInv PROVE ChildInv'
    BY DEF StreamInv
  <2>1. PICK p \in Nat : InChildLine(p)
    BY DEF ChildInv
  <2>2. /\ p \in 0..read /\ Begun(written, p, read)
        /\ Len(lines) = Len(Complete(written, read))
        /\ captured = Span(written, p, p + Limited(read - p))
        /\ sawBytes <=> p < read
        /\ truncated <=> read - p > Cap
        /\ readerState # "ended"
    BY <1>11, <2>1 DEF InChildLine
  <2>3. p + Limited(read - p) \in Nat /\ p <= p + Limited(read - p) /\ p + Limited(read - p) <= Len(written)
    BY <1>4, <1>10, <2>2 DEF Limited
  <2>4. Span(written', p, p + Limited(read - p)) = Span(written, p, p + Limited(read - p))
    BY <1>7, <2>3
  <2>5. Begun(written', p, read)
    BY <1>4, <1>8, <1>9, <2>2 DEF Begun
  <2>6. Complete(written', read) = Complete(written, read)
    BY <1>6, <1>10
  <2>7. InChildLine(p)'
    BY <1>2, <2>2, <2>4, <2>5, <2>6 DEF InChildLine
  <2> QED BY <1>2, <2>6, <2>7 DEF ChildInv
<1>13. reader = "pool" => PoolInv'
  <2> SUFFICES ASSUME PoolInv PROVE PoolInv'
    BY DEF StreamInv
  <2>1. PICK p \in Nat : InPoolLine(p)
    BY DEF PoolInv
  <2>2. /\ p \in 0..read /\ (p = 0 \/ written[p] = Newline)
        /\ Len(lines) = Len(Complete(written, p))
        /\ \A i \in 1..Len(lines) :
              lines[i] = [text |-> Complete(written, p)[i], cut |-> FALSE] /\ Len(lines[i].text) < Cap
        /\ \/ /\ readerState # "failed"
              /\ captured = Span(written, p, read) /\ read - p <= Cap /\ NoneIn(written, p + 1, read)
           \/ /\ readerState = "failed" /\ Len(captured) <= Cap + 1
              /\ p + Cap <= Len(written) /\ NoneIn(written, p + 1, p + Cap)
    BY <1>2, <2>1 DEF InPoolLine
  <2>3. Complete(written', p) = Complete(written, p)
    <3>1. p \in 0..Len(written)
      BY <1>4, <2>2
    <3> QED BY <1>6, <3>1
  <2>4. p = 0 \/ written'[p] = Newline
    BY <1>9, <2>2
  <2>5. Span(written', p, read) = Span(written, p, read)
    BY <1>4, <1>7, <2>2
  <2>6. NoneIn(written, p + 1, read) => NoneIn(written', p + 1, read)
    BY <1>4, <1>8
  <2>7. p + Cap <= Len(written) /\ NoneIn(written, p + 1, p + Cap)
        => p + Cap <= Len(written') /\ NoneIn(written', p + 1, p + Cap)
    <3>1. p + Cap \in Nat
      BY <1>10
    <3>2. p + Cap <= Len(written) => p + Cap <= Len(written')
      BY <1>4, <3>1
    <3> QED BY <1>8, <3>1, <3>2
  <2>8. InPoolLine(p)'
    BY <1>2, <2>2, <2>3, <2>4, <2>5, <2>6, <2>7 DEF InPoolLine
  <2> QED BY <2>8 DEF PoolInv
<1>14. reader = "command" => CommandInv'
  <2> SUFFICES ASSUME CommandInv PROVE CommandInv'
    BY DEF StreamInv
  <2>1. Limited(read) \in Nat /\ 0 <= Limited(read) /\ Limited(read) <= Len(written) /\ 0 \in Nat
    BY <1>4, <1>10 DEF Limited
  <2>2. Span(written', 0, Limited(read)) = Span(written, 0, Limited(read))
    BY <1>7, <2>1
  <2> QED BY <1>2, <1>11, <2>2 DEF CommandInv
<1> QED BY <1>2, <1>5, <1>12, <1>13, <1>14 DEF StreamInv

\* The end of the writer changes nothing that was read.
LEMMA WriterEndsStep == StreamInv /\ WriterEnds => StreamInv'
<1> SUFFICES ASSUME StreamInv, WriterEnds PROVE StreamInv'
  OBVIOUS
<1>1. /\ open /\ open' = FALSE /\ written' = written /\ reader' = reader /\ read' = read /\ captured' = captured
      /\ sawBytes' = sawBytes /\ truncated' = truncated /\ lines' = lines /\ readerState' = readerState
  BY DEF WriterEnds
<1>2. StreamTypes'
  BY <1>1 DEF StreamInv, StreamTypes
<1>3. ~ Exhausted
  BY <1>1 DEF Exhausted
<1>4. ChildInv => ChildInv'
  <2> SUFFICES ASSUME ChildInv PROVE ChildInv'
    OBVIOUS
  <2>1. PICK p \in Nat : InChildLine(p)
    BY DEF ChildInv
  <2>2. InChildLine(p)'
    BY <1>1, <1>3, <2>1 DEF InChildLine
  <2> QED BY <1>1, <2>2 DEF ChildInv
<1>5. PoolInv => PoolInv'
  <2> SUFFICES ASSUME PoolInv PROVE PoolInv'
    OBVIOUS
  <2>1. PICK p \in Nat : InPoolLine(p)
    BY DEF PoolInv
  <2>2. InPoolLine(p)'
    BY <1>1, <2>1 DEF InPoolLine
  <2> QED BY <2>2 DEF PoolInv
<1>6. CommandInv => CommandInv'
  BY <1>1, <1>3 DEF CommandInv
<1> QED BY <1>1, <1>2, <1>4, <1>5, <1>6 DEF StreamInv

\* What waits, to a reader that is reading.
LEMMA WaitingIs ==
  ASSUME StreamInv
  PROVE  /\ written \in Seq(Bytes) /\ Len(written) \in Nat /\ read \in Nat /\ read <= Len(written)
         /\ Waiting = Span(written, read, Len(written))
         /\ AtEnd <=> Exhausted
<1>1. written \in Seq(Bytes) /\ read \in 0..Len(written) /\ open \in BOOLEAN
  BY DEF StreamInv, StreamTypes
<1>2. Len(written) \in Nat
  BY <1>1, LenProperties
<1>3. Waiting = Span(written, read, Len(written))
  BY DEF Waiting, Span
<1>4. (Waiting = <<>>) <=> (read = Len(written))
  BY <1>1, <1>3, SpanEnds
<1>5. AtEnd <=> Exhausted
  BY <1>4 DEF AtEnd, Exhausted
<1> QED BY <1>1, <1>2, <1>3, <1>5

\* A chunk of the engine's output ends its line or continues it.
LEMMA ReadChildStep == StreamInv /\ ReadChild => StreamInv'
<1> SUFFICES ASSUME StreamInv, ReadChild PROVE StreamInv'
  OBVIOUS
<1>1. /\ reader = "child" /\ readerState = "reading" /\ reader' = reader /\ written' = written
      /\ open' = open /\ readerState' = readerState
  BY DEF ReadChild
<1>2. StreamTypes /\ ChildInv
  BY <1>1 DEF StreamInv
<1>3. /\ written \in Seq(Bytes) /\ Len(written) \in Nat /\ read \in Nat /\ read <= Len(written)
      /\ Waiting = Span(written, read, Len(written)) /\ read \in 0..Len(written) /\ Cap \in Nat
  BY WaitingIs, StreamLinesAssumption
<1> DEFINE content(c) == UpToNewline(c)
           ended(c) == content(c) # c
           n(c) == Retained(Cap - Len(captured), content(c))
           kept(c) == captured \o SubSeq(content(c), 1, n(c))
           cut(c) == CutBefore(truncated, n(c) < Len(content(c)))
<1>4. PICK chunk \in Chunks(Waiting) :
         /\ read' = read + Len(content(chunk)) + (IF ended(chunk) THEN 1 ELSE 0)
         /\ IF ended(chunk) THEN HandOn(kept(chunk), TRUE, cut(chunk))
            ELSE captured' = kept(chunk) /\ truncated' = cut(chunk) /\ sawBytes' = TRUE /\ UNCHANGED lines
  BY DEF ReadChild
<1>5. PICK e \in Nat : read < e /\ e <= Len(written) /\ chunk = Span(written, read, e)
  BY <1>3, <1>4, ChunkIs
<1>6. PICK q \in Nat :
           /\ read <= q /\ q <= e /\ content(chunk) = Span(written, read, q) /\ NoneIn(written, read + 1, q)
           /\ \/ q = e /\ ~ ended(chunk)
              \/ q < e /\ ended(chunk) /\ written[q + 1] = Newline
  BY <1>3, <1>5, ContentIs
<1>7. q <= Len(written) /\ Len(content(chunk)) = q - read
  <2>1. q <= Len(written)
    BY <1>3, <1>5, <1>6
  <2>2. Len(Span(written, read, q)) = q - read
    BY <1>3, <1>6, <2>1, SpanIs
  <2> QED BY <1>6, <2>1, <2>2
<1> HIDE DEF content
<1>8. PICK p \in Nat : InChildLine(p)
  BY <1>2 DEF ChildInv
<1>9. /\ p \in 0..read /\ p <= read /\ Begun(written, p, read)
      /\ Len(lines) = Len(Complete(written, read))
      /\ captured = Span(written, p, p + Limited(read - p))
      /\ truncated <=> read - p > Cap
  BY <1>3, <1>5, <1>8 DEF InChildLine, Exhausted
<1>10. kept(chunk) = Span(written, p, p + Limited(q - p)) /\ (cut(chunk) <=> q - p > Cap) /\ cut(chunk) \in BOOLEAN
  <2>1. Keeps(written, p, read, captured) /\ p <= read /\ read <= q /\ q <= Len(written)
    BY <1>6, <1>7, <1>9 DEF Keeps
  <2>2. /\ Keeps(written, p, q, Adds(captured, content(chunk)))
        /\ Exceeds(p, read) \/ Drops(captured, content(chunk)) <=> Exceeds(p, q)
    BY <1>3, <1>6, <2>1, KeepsMore
  <2>3. kept(chunk) = Adds(captured, content(chunk)) /\ (n(chunk) < Len(content(chunk)) <=> Drops(captured, content(chunk)))
    BY DEF Adds, Drops
  <2>4. cut(chunk) = (truncated \/ n(chunk) < Len(content(chunk)))
    BY DEF CutBefore
  <2> HIDE DEF n
  <2> QED BY <1>9, <2>2, <2>3, <2>4 DEF Keeps, Exceeds
<1>11. NoneIn(written, p + 1, q) /\ Begun(written, p, q) /\ p <= q
  <2>1. NoneIn(written, p + 1, q)
    BY <1>6, <1>9, <1>3, NoneInIs DEF Begun
  <2> QED BY <1>3, <1>6, <1>9, <2>1 DEF Begun
<1> HIDE DEF n, kept, cut
<1>12. CASE q = e /\ ~ ended(chunk)
  <2>1. /\ read' = q /\ captured' = kept(chunk) /\ (truncated' <=> cut(chunk)) /\ sawBytes' /\ lines' = lines
        /\ truncated' \in BOOLEAN /\ sawBytes' \in BOOLEAN
    BY <1>3, <1>4, <1>7, <1>10, <1>12
  <2>2. captured' \in Seq(Bytes) /\ q \in 0..Len(written)
    <3>1. p + Limited(q - p) \in Nat /\ p <= p + Limited(q - p) /\ p + Limited(q - p) <= Len(written)
      BY <1>3, <1>7, <1>11 DEF Limited
    <3> QED BY <1>3, <1>7, <1>10, <2>1, <3>1, SpanIs
  <2>3. StreamTypes'
    BY <1>1, <1>2, <2>1, <2>2 DEF StreamTypes
  <2>4. Complete(written, q) = Complete(written, read)
    BY <1>3, <1>6, CompleteSame
  <2>5. p \in 0..q /\ p < q
    BY <1>3, <1>5, <1>9, <1>12
  <2>6. InChildLine(p)'
    BY <1>1, <1>9, <1>10, <1>11, <2>1, <2>4, <2>5 DEF InChildLine
  <2>7. ChildInv'
    BY <1>1, <1>2, <2>1, <2>4, <2>6 DEF ChildInv
  <2> QED BY <1>1, <2>3, <2>7 DEF StreamInv
<1>13. CASE q < e /\ ended(chunk) /\ written[q + 1] = Newline
  <2> DEFINE i == q + 1
             m == BoundedText(Stripped(kept(chunk), TRUE, cut(chunk)), cut(chunk))
             line == Span(written, p, q)
  <2>1. /\ read' = i /\ lines' = Append(lines, m) /\ captured' = <<>> /\ sawBytes' = FALSE /\ truncated' = FALSE
    <3>1. read + (q - read) + 1 = q + 1
      BY <1>3
    <3> QED BY <1>4, <1>7, <1>13, <3>1 DEF HandOn
  <2>2. i \in Nat /\ p < i /\ i - 1 = q /\ i <= Len(written) /\ q = i - 1
    BY <1>3, <1>5, <1>11, <1>13
  <2>3. line \in Seq(Bytes) /\ Len(line) = q - p
    BY <1>3, <1>7, <1>11, SpanIs
  <2>4. kept(chunk) = Span(line, 0, Limited(Len(line)))
    <3>1. Limited(q - p) \in Nat /\ Limited(q - p) <= q - p /\ 0 + 1 = 1
      BY <1>3, <1>11 DEF Limited
    <3>2. SubSeq(Span(written, p, q), 1, Limited(q - p)) = Span(written, p, p + Limited(q - p))
      <4>1. written \in Seq(Bytes) /\ q \in Nat /\ p <= q /\ q <= Len(written)
        BY <1>3, <1>7, <1>11
      <4> QED BY <3>1, <4>1, SpanOfSpan
    <3>3. Span(line, 0, Limited(q - p)) = SubSeq(line, 1, Limited(q - p))
      BY <3>1 DEF Span
    <3> QED BY <1>10, <2>3, <3>2, <3>3
  <2> HIDE DEF line
  <2>5. m \in Messages /\ Within(m, Cap) /\ Renders(m, line)
    <3>1. cut(chunk) <=> Len(line) > Cap
      BY <1>10, <2>3
    <3> QED BY <1>10, <2>3, <2>4, <3>1, HandedOnRight
  <2> HIDE DEF m, i
  <2>6. lines \in Seq(Messages) /\ Len(lines) \in Nat
    BY <1>2, LenProperties DEF StreamTypes
  <2>7. /\ lines' \in Seq(Messages) /\ Len(lines') = Len(lines) + 1
        /\ \A j \in 1..Len(lines) : lines'[j] = lines[j]
        /\ lines'[Len(lines) + 1] = m
    BY <2>1, <2>5, <2>6, AppendProperties
  <2>8. StreamTypes'
    <3>1. i \in 0..Len(written) /\ <<>> \in Seq(Bytes)
      BY <1>3, <2>2, EmptySeq
    <3> QED BY <1>1, <1>2, <2>1, <2>7, <3>1 DEF StreamTypes
  <2>9. Complete(written, read) = Complete(written, p)
    BY <1>3, <1>9, CompleteSame DEF Begun
  <2>10. /\ Len(Complete(written, i)) = Len(Complete(written, p)) + 1
         /\ Complete(written, i)[Len(Complete(written, p)) + 1] = line
    <3>1. Begun(written, p, i - 1) /\ written[i] = Newline
      BY <1>11, <1>13, <2>2 DEF i
    <3>2. SubSeq(written, p + 1, i - 1) = line
      BY <2>2 DEF Span, line
    <3> QED BY <2>2, <3>1, <3>2, CompleteNext
  <2>11. \A k \in 1..Len(Complete(written, p)) : Complete(written, i)[k] = Complete(written, p)[k]
    <3>1. p <= i
      BY <2>2
    <3> QED BY <2>2, <3>1, CompleteGrows
  <2>12. InChildLine(i)'
    <3>1. Begun(written, i, i)
      <4>1. NoneIn(written, i + 1, i)
        BY <2>2 DEF NoneIn
      <4>2. written[i] = Newline
        BY <1>13 DEF i
      <4> QED BY <4>1, <4>2 DEF Begun
    <3>2. i \in 0..i /\ i - i = 0 /\ ~ (i < i) /\ ~ (0 > Cap) /\ Limited(0) = 0 /\ i + 0 = i
      BY <1>3, <2>2 DEF Limited
    <3>3. Span(written, i, i) = <<>>
      <4>1. i \in 0..Len(written)
        BY <1>3, <2>2
      <4> QED BY <1>3, <4>1, SpanEnds
    <3>4. Len(lines') = Len(Complete(written, i))
      BY <1>9, <2>7, <2>9, <2>10
    <3> QED BY <1>1, <2>1, <3>1, <3>2, <3>3, <3>4 DEF InChildLine
  <2>13. \A k \in 1..Len(Complete(written, i)) : Renders(lines'[k], Complete(written, i)[k])
    <3>1. ASSUME NEW k \in 1..Len(Complete(written, i)) PROVE Renders(lines'[k], Complete(written, i)[k])
      <4>1. Len(lines) = Len(Complete(written, p)) /\ Len(Complete(written, i)) = Len(lines) + 1
        BY <1>9, <2>9, <2>10
      <4>2. CASE k = Len(lines) + 1
        BY <2>5, <2>7, <2>10, <4>1, <4>2
      <4>3. CASE k # Len(lines) + 1
        <5>1. k \in 1..Len(lines)
          BY <2>6, <4>1, <4>3
        <5>2. Renders(lines[k], Complete(written, p)[k])
          BY <1>2, <2>9, <4>1, <5>1 DEF ChildInv
        <5> QED BY <2>7, <2>11, <4>1, <5>1, <5>2
      <4> QED BY <4>2, <4>3
    <3> QED BY <3>1
  <2>14. \A k \in 1..Len(lines') : Within(lines'[k], Cap)
    <3>1. ASSUME NEW k \in 1..Len(lines') PROVE Within(lines'[k], Cap)
      <4>1. CASE k = Len(lines) + 1
        BY <2>5, <2>7, <4>1
      <4>2. CASE k # Len(lines) + 1
        <5>1. k \in 1..Len(lines)
          BY <2>6, <2>7, <4>2
        <5> QED BY <1>2, <2>7, <5>1 DEF ChildInv
      <4> QED BY <4>1, <4>2
    <3> QED BY <3>1
  <2>15. ChildInv'
    <3>1. \E x \in Nat : InChildLine(x)'
      BY <2>2, <2>12
    <3> QED BY <1>1, <2>1, <2>13, <2>14, <3>1 DEF ChildInv, Within
  <2> QED BY <1>1, <2>8, <2>15 DEF StreamInv
<1> QED BY <1>6, <1>12, <1>13

\* The end of the engine's output hands on the line without an end, if it has bytes.
LEMMA ChildEndsStep == StreamInv /\ ChildEnds => StreamInv'
<1> SUFFICES ASSUME StreamInv, ChildEnds PROVE StreamInv'
  OBVIOUS
<1>1. /\ reader = "child" /\ readerState = "reading" /\ AtEnd /\ reader' = reader /\ written' = written
      /\ read' = read /\ open' = open
  BY DEF ChildEnds
<1>2. StreamTypes /\ ChildInv
  BY <1>1 DEF StreamInv
<1>3. /\ Exhausted /\ Exhausted' /\ read \in Nat /\ Cap \in Nat /\ lines \in Seq(Messages) /\ Len(lines) \in Nat
      /\ captured \in Seq(Bytes) /\ truncated \in BOOLEAN
  BY <1>1, <1>2, WaitingIs, StreamLinesAssumption, LenProperties DEF StreamTypes, Exhausted
<1>4. PICK p \in Nat : InChildLine(p)
  BY <1>2 DEF ChildInv
<1>5. CASE sawBytes
  <2> DEFINE m == BoundedText(Stripped(captured, FALSE, truncated), truncated)
  <2>1. /\ lines' = Append(lines, m) /\ captured' = <<>> /\ sawBytes' = FALSE /\ truncated' = FALSE
        /\ readerState' = readerState
    BY <1>5 DEF ChildEnds, HandOn
  <2>2. m \in Messages /\ Within(m, Cap)
    <3>1. Stripped(captured, FALSE, truncated) \in Seq(Bytes)
      BY <1>3, StrippedIs
    <3> QED BY <1>3, <3>1, BoundedIs
  <2> HIDE DEF m
  <2>3. /\ lines' \in Seq(Messages) /\ Len(lines') = Len(lines) + 1
        /\ \A j \in 1..Len(lines) : lines'[j] = lines[j]
        /\ lines'[Len(lines) + 1] = m
    BY <1>3, <2>1, <2>2, AppendProperties
  <2>4. StreamTypes'
    BY <1>1, <1>2, <2>1, <2>3, EmptySeq DEF StreamTypes
  <2>5. p \in 0..read /\ Begun(written, p, read) /\ Len(lines) = Len(Complete(written, read)) /\ p < read
    BY <1>4, <1>5 DEF InChildLine
  <2>6. InChildLine(p)'
    BY <1>1, <1>3, <2>1, <2>3, <2>5 DEF InChildLine
  <2>7. \A k \in 1..Len(Complete(written, read)) : Renders(lines'[k], Complete(written, read)[k])
    BY <1>2, <2>3, <2>5 DEF ChildInv
  <2>8. \A k \in 1..Len(lines') : Within(lines'[k], Cap)
    <3>1. ASSUME NEW k \in 1..Len(lines') PROVE Within(lines'[k], Cap)
      <4>1. CASE k = Len(lines) + 1
        BY <2>2, <2>3, <4>1
      <4>2. CASE k # Len(lines) + 1
        <5>1. k \in 1..Len(lines)
          BY <1>3, <2>3, <4>2
        <5> QED BY <1>2, <2>3, <5>1 DEF ChildInv
      <4> QED BY <4>1, <4>2
    <3> QED BY <3>1
  <2>9. ChildInv'
    <3>1. \E x \in Nat : InChildLine(x)'
      BY <2>6
    <3> QED BY <1>1, <2>1, <2>7, <2>8, <3>1 DEF ChildInv, Within
  <2> QED BY <1>1, <2>4, <2>9 DEF StreamInv
<1>6. CASE ~ sawBytes
  <2>1. readerState' = "ended" /\ captured' = captured /\ sawBytes' = sawBytes /\ truncated' = truncated /\ lines' = lines
    BY <1>6 DEF ChildEnds
  <2>2. StreamTypes'
    BY <1>1, <1>2, <2>1 DEF StreamTypes
  <2>3. InChildLine(p)'
    BY <1>1, <1>3, <1>4, <1>6, <2>1 DEF InChildLine
  <2>4. ChildInv'
    <3>1. \E x \in Nat : InChildLine(x)'
      BY <2>3
    <3> QED BY <1>1, <1>2, <2>1, <3>1 DEF ChildInv
  <2> QED BY <1>1, <2>2, <2>4 DEF StreamInv
<1> QED BY <1>5, <1>6

\* The pool's reader judges what it has of a line, up to byte r: a newline, or
\* one byte more than the limit.
LEMMA JudgeStep ==
  ASSUME StreamInv, reader = "pool", readerState = "reading",
         NEW p \in Nat, InPoolLine(p), NEW r \in Nat, p < r, r <= Len(written), read <= r,
         NoneIn(written, p + 1, r - 1), r - p <= Cap + 1,
         NEW kept, kept = Span(written, p, r), Judge(kept),
         \/ written[r] = Newline
         \/ r - p = Cap + 1
         \/ r = Len(written) /\ ~ open,
         read' = r, reader' = reader, written' = written, open' = open,
         sawBytes' = sawBytes, truncated' = truncated
  PROVE  StreamInv'
<1>1. StreamTypes
  BY DEF StreamInv
<1>2. /\ written \in Seq(Bytes) /\ Len(written) \in Nat /\ lines \in Seq(Messages) /\ Len(lines) \in Nat
      /\ Cap \in Nat /\ read \in Nat
  BY <1>1, WaitingIs, LenProperties, StreamLinesAssumption DEF StreamTypes
<1>3. kept \in Seq(Bytes) /\ Len(kept) = r - p /\ kept # <<>> /\ Last(kept) = written[r]
  <2>1. /\ kept \in Seq(Bytes) /\ Len(kept) = r - p
        /\ \A i \in 1..(r - p) : kept[i] = written[p + i]
    <3>1. p <= r
      OBVIOUS
    <3> QED BY <1>2, <3>1, SpanIs
  <2>2. r - p \in 1..(r - p) /\ p + (r - p) = r /\ r - p # 0
    OBVIOUS
  <2>3. kept # <<>>
    BY <2>1, <2>2, EmptySeq
  <2> QED BY <2>1, <2>2, <2>3 DEF Last
<1>4. /\ p \in 0..read /\ (p = 0 \/ written[p] = Newline)
      /\ Len(lines) = Len(Complete(written, p))
      /\ \A i \in 1..Len(lines) :
            lines[i] = [text |-> Complete(written, p)[i], cut |-> FALSE] /\ Len(lines[i].text) < Cap
  BY DEF InPoolLine
<1>5. CASE Acceptable(kept)
  <2> DEFINE m == [text |-> UpToNewline(kept), cut |-> FALSE]
  <2>1. lines' = Append(lines, m) /\ captured' = <<>> /\ readerState' = readerState
    BY <1>5 DEF Judge
  <2>2. r - p <= Cap /\ written[r] = Newline
    BY <1>3, <1>5 DEF Acceptable
  <2>3. UpToNewline(kept) = Span(written, p, r - 1)
    <3>1. PICK q \in Nat :
           /\ p <= q /\ q <= r /\ UpToNewline(kept) = Span(written, p, q) /\ NoneIn(written, p + 1, q)
           /\ \/ q = r
              \/ q < r /\ written[q + 1] = Newline
      BY <1>2, ContentIs
    <3>2. q # r
      <4> SUFFICES ASSUME q = r PROVE FALSE
        OBVIOUS
      <4>1. r \in (p + 1)..q
        OBVIOUS
      <4> QED BY <2>2, <3>1, <4>1 DEF NoneIn
    <3>3. q + 1 = r
      <4> SUFFICES ASSUME q + 1 # r PROVE FALSE
        OBVIOUS
      <4>1. q + 1 \in (p + 1)..(r - 1)
        BY <3>1, <3>2
      <4> QED BY <3>1, <3>2, <4>1 DEF NoneIn
    <3>4. q = r - 1
      BY <3>3
    <3> QED BY <3>1, <3>4
  <2>4. /\ UpToNewline(kept) \in Seq(Bytes) /\ Len(UpToNewline(kept)) = (r - 1) - p /\ (r - 1) - p < Cap
    <3>1. r - 1 \in Nat /\ p <= r - 1 /\ r - 1 <= Len(written) /\ (r - 1) - p < Cap
      BY <1>2, <2>2
    <3>2. Span(written, p, r - 1) \in Seq(Bytes) /\ Len(Span(written, p, r - 1)) = (r - 1) - p
      BY <1>2, <3>1, SpanIs
    <3> QED BY <2>3, <3>1, <3>2
  <2>5. m \in Messages /\ m.text = UpToNewline(kept) /\ m = [text |-> Span(written, p, r - 1), cut |-> FALSE]
    BY <2>3, <2>4 DEF Messages
  <2> HIDE DEF m
  <2>6. /\ lines' \in Seq(Messages) /\ Len(lines') = Len(lines) + 1
        /\ \A j \in 1..Len(lines) : lines'[j] = lines[j]
        /\ lines'[Len(lines) + 1] = m
    BY <1>2, <2>1, <2>5, AppendProperties
  <2>7. StreamTypes'
    <3>1. r \in 0..Len(written)
      BY <1>2
    <3> QED BY <1>1, <2>1, <2>6, <3>1, EmptySeq DEF StreamTypes
  <2>8. /\ Len(Complete(written, r)) = Len(Complete(written, p)) + 1
        /\ Complete(written, r)[Len(Complete(written, p)) + 1] = Span(written, p, r - 1)
    <3>1. Begun(written, p, r - 1)
      BY <1>4 DEF Begun
    <3>2. SubSeq(written, p + 1, r - 1) = Span(written, p, r - 1)
      BY DEF Span
    <3> QED BY <2>2, <3>1, <3>2, CompleteNext
  <2>9. \A k \in 1..Len(Complete(written, p)) : Complete(written, r)[k] = Complete(written, p)[k]
    <3>1. p <= r
      OBVIOUS
    <3> QED BY <3>1, CompleteGrows
  <2>10. ASSUME NEW k \in 1..Len(lines')
         PROVE  lines'[k] = [text |-> Complete(written, r)[k], cut |-> FALSE] /\ Len(lines'[k].text) < Cap
    <3>1. CASE k = Len(lines) + 1
      <4>1. lines'[k] = m /\ Complete(written, r)[k] = Span(written, p, r - 1)
        BY <1>4, <2>6, <2>8, <3>1
      <4> QED BY <2>4, <2>5, <4>1
    <3>2. CASE k # Len(lines) + 1
      <4>1. k \in 1..Len(lines)
        BY <1>2, <2>6, <3>2
      <4>2. lines'[k] = lines[k] /\ Complete(written, r)[k] = Complete(written, p)[k]
        BY <1>4, <2>6, <2>9, <4>1
      <4> QED BY <1>4, <4>1, <4>2
    <3> QED BY <3>1, <3>2
  <2>11. InPoolLine(r)'
    <3>1. NoneIn(written, r + 1, r) /\ r \in 0..r /\ r - r <= Cap
      BY <1>2 DEF NoneIn
    <3>2. Span(written, r, r) = <<>>
      <4>1. r \in 0..Len(written)
        BY <1>2
      <4> QED BY <1>2, <4>1, SpanEnds
    <3>3. Len(lines') = Len(Complete(written, r))
      BY <1>4, <2>6, <2>8
    <3>4. written' = written /\ read' = r /\ captured' = <<>> /\ readerState' # "failed" /\ written[r] = Newline
      BY <2>1, <2>2
    <3> QED BY <2>10, <3>1, <3>2, <3>3, <3>4 DEF InPoolLine
  <2>12. PoolInv'
    BY <2>11 DEF PoolInv
  <2> QED BY <2>7, <2>12 DEF StreamInv
<1>6. CASE ~ Acceptable(kept)
  <2>1. readerState' = "failed" /\ captured' = kept /\ lines' = lines
    BY <1>6 DEF Judge
  <2>2. StreamTypes'
    <3>1. r \in 0..Len(written)
      BY <1>2
    <3> QED BY <1>1, <1>3, <2>1, <3>1 DEF StreamTypes
  <2>3. \/ p + Cap <= Len(written) /\ NoneIn(written, p + 1, p + Cap)
        \/ ~ open /\ p < Len(written) /\ NoneIn(written, p + 1, Len(written))
    <3>1. CASE r - p = Cap + 1
      <4>1. p + Cap = r - 1 /\ r - 1 <= Len(written)
        BY <1>2, <3>1
      <4> QED BY <4>1
    <3>2. CASE r - p # Cap + 1
      <4>1. r - p <= Cap /\ written[r] # Newline
        BY <1>2, <1>3, <1>6, <3>2 DEF Acceptable
      <4>2. r = Len(written) /\ ~ open
        BY <3>2, <4>1
      <4>3. NoneIn(written, p + 1, r)
        <5>1. \A k \in (p + 1)..r : k \in (p + 1)..(r - 1) \/ k = r
          OBVIOUS
        <5> QED BY <4>1, <5>1 DEF NoneIn
      <4> QED BY <4>2, <4>3
    <3> QED BY <3>1, <3>2
  <2>4. InPoolLine(p)'
    <3>1. p \in 0..r /\ Len(kept) <= Cap + 1
      BY <1>3
    <3> QED BY <1>4, <2>1, <2>3, <3>1 DEF InPoolLine
  <2>5. PoolInv'
    BY <2>4 DEF PoolInv
  <2> QED BY <2>2, <2>5 DEF StreamInv
<1> QED BY <1>5, <1>6

\* A chunk of the pool's reply ends it, continues it or is refused for its length.
LEMMA ReadPoolStep == StreamInv /\ ReadPool => StreamInv'
<1> SUFFICES ASSUME StreamInv, ReadPool PROVE StreamInv'
  OBVIOUS
<1>1. /\ reader = "pool" /\ readerState = "reading" /\ reader' = reader /\ written' = written
      /\ open' = open /\ sawBytes' = sawBytes /\ truncated' = truncated
  BY DEF ReadPool
<1>2. StreamTypes /\ PoolInv
  BY <1>1 DEF StreamInv
<1>3. /\ written \in Seq(Bytes) /\ Len(written) \in Nat /\ read \in Nat /\ read <= Len(written)
      /\ Waiting = Span(written, read, Len(written)) /\ read \in 0..Len(written) /\ Cap \in Nat
  BY WaitingIs, StreamLinesAssumption
<1> DEFINE content(c) == UpToNewline(c)
           whole(c) == IF content(c) = c THEN content(c) ELSE Append(content(c), Newline)
           room == Cap + 1 - Len(captured)
           n(c) == IF Len(whole(c)) < room THEN Len(whole(c)) ELSE room
           kept(c) == captured \o SubSeq(whole(c), 1, n(c))
<1>4. PICK chunk \in Chunks(Waiting) :
         /\ read' = read + n(chunk)
         /\ IF Last(kept(chunk)) = Newline \/ n(chunk) = room THEN Judge(kept(chunk))
            ELSE captured' = kept(chunk) /\ lines' = lines /\ readerState' = readerState
  BY DEF ReadPool
<1>5. PICK e \in Nat : read < e /\ e <= Len(written) /\ chunk = Span(written, read, e)
  BY <1>3, <1>4, ChunkIs
<1>6. PICK q \in Nat :
           /\ read <= q /\ q <= e /\ content(chunk) = Span(written, read, q) /\ NoneIn(written, read + 1, q)
           /\ \/ q = e /\ content(chunk) = chunk
              \/ q < e /\ content(chunk) # chunk /\ written[q + 1] = Newline
  BY <1>3, <1>5, ContentIs
<1> HIDE DEF content
<1>7. PICK p \in Nat : InPoolLine(p)
  BY <1>2 DEF PoolInv
<1>8. /\ p \in 0..read /\ p <= read /\ (p = 0 \/ written[p] = Newline)
      /\ Len(lines) = Len(Complete(written, p))
      /\ \A i \in 1..Len(lines) :
            lines[i] = [text |-> Complete(written, p)[i], cut |-> FALSE] /\ Len(lines[i].text) < Cap
      /\ captured = Span(written, p, read) /\ read - p <= Cap /\ NoneIn(written, p + 1, read)
  BY <1>1, <1>3, <1>7 DEF InPoolLine
\* What the reader sees of the line: the bytes before the newline, and the newline.
<1>9. \E l \in Nat : whole(chunk) = Span(written, read, l) /\ read < l /\ l <= Len(written) /\ l - 1 <= q
  <2>1. CASE q = e /\ content(chunk) = chunk
    <3>1. q <= Len(written) /\ q - 1 <= q /\ whole(chunk) = Span(written, read, q)
      BY <1>5, <1>6, <2>1
    <3> QED BY <1>5, <2>1, <3>1
  <2>2. CASE q < e /\ content(chunk) # chunk /\ written[q + 1] = Newline
    <3> DEFINE l == q + 1
    <3>1. l \in Nat /\ read < l /\ l <= Len(written) /\ l - 1 <= q /\ q <= l /\ read <= l
      BY <1>3, <1>5, <1>6, <2>2
    <3>2. Span(written, q, l) = <<Newline>>
      <4>1. /\ Span(written, q, l) \in Seq(Bytes) /\ Len(Span(written, q, l)) = l - q
            /\ \A i \in 1..(l - q) : Span(written, q, l)[i] = written[q + i]
        BY <1>3, <3>1, SpanIs
      <4>2. l - q = 1 /\ 1 \in 1..1 /\ Newline \in Bytes
        BY DEF Bytes
      <4>3. Span(written, q, l)[1] = Newline
        BY <2>2, <4>1, <4>2
      <4>4. <<Newline>> \in Seq(Bytes) /\ Len(<<Newline>>) = 1 /\ <<Newline>>[1] = Newline
        BY <4>2
      <4>5. \A i \in 1..1 : i = 1
        OBVIOUS
      <4> QED BY <4>1, <4>2, <4>3, <4>4, <4>5, SameBytes
    <3> HIDE DEF l
    <3>3. Span(written, read, q) \o <<Newline>> = Span(written, read, l)
      <4>1. Span(written, read, q) \o Span(written, q, l) = Span(written, read, l)
        <5>1. written \in Seq(Bytes) /\ read \in Nat /\ q \in Nat /\ read <= q
          BY <1>3, <1>6
        <5> QED BY <3>1, <5>1, SpansMeet
      <4> QED BY <3>2, <4>1
    <3>4. Append(Span(written, read, q), Newline) = Span(written, read, q) \o <<Newline>>
      <4>1. Span(written, read, q) \in Seq(Bytes) /\ Newline \in Bytes
        <5>1. q <= Len(written)
          BY <1>3, <1>5, <1>6
        <5> QED BY <1>3, <1>6, <5>1, SpanIs DEF Bytes
      <4> QED BY <4>1, AppendIsConcat
    <3>5. whole(chunk) = Span(written, read, l)
      BY <1>6, <2>2, <3>3, <3>4
    <3> QED BY <3>1, <3>5
  <2> QED BY <1>6, <2>1, <2>2
<1>10. PICK l \in Nat : whole(chunk) = Span(written, read, l) /\ read < l /\ l <= Len(written) /\ l - 1 <= q
  BY <1>9
<1> HIDE DEF whole
<1> DEFINE r == read + n(chunk)
<1>11. /\ r \in Nat /\ p < r /\ read < r /\ r <= l /\ r <= Len(written) /\ r - p <= Cap + 1
       /\ n(chunk) \in Nat /\ n(chunk) <= l - read
       /\ (n(chunk) = room) <=> r - p = Cap + 1
  <2>1. Len(captured) = read - p
    BY <1>3, <1>8, SpanIs
  <2>2. Len(whole(chunk)) = l - read
    <3>1. read <= l
      BY <1>3, <1>10
    <3> QED BY <1>3, <1>10, <3>1, SpanIs
  <2>3. n(chunk) = IF l - read < Cap + 1 - (read - p) THEN l - read ELSE Cap + 1 - (read - p)
    BY <2>1, <2>2
  <2>4. room = Cap + 1 - (read - p)
    BY <2>1
  <2> HIDE DEF n, room
  <2>5. n(chunk) \in Int
    BY <1>3, <1>8, <1>10, <2>3
  <2>6. ASSUME NEW x \in Int, x = IF l - read < Cap + 1 - (read - p) THEN l - read ELSE Cap + 1 - (read - p)
        PROVE  /\ read + x \in Nat /\ p < read + x /\ read < read + x /\ read + x <= l
               /\ read + x <= Len(written) /\ (read + x) - p <= Cap + 1
               /\ x \in Nat /\ x <= l - read
               /\ (x = Cap + 1 - (read - p)) <=> ((read + x) - p = Cap + 1)
    <3>1. read \in Nat /\ p \in Nat /\ l \in Nat /\ Cap \in Nat /\ p <= read /\ read < l /\ read - p <= Cap
      BY <1>3, <1>8, <1>10
    <3>2. x > 0 /\ x <= l - read /\ x <= Cap + 1 - (read - p)
      BY <2>6, <3>1
    <3> QED BY <1>3, <1>10, <3>1, <3>2
  <2>7. /\ read + n(chunk) \in Nat /\ p < read + n(chunk) /\ read < read + n(chunk) /\ read + n(chunk) <= l
        /\ read + n(chunk) <= Len(written) /\ (read + n(chunk)) - p <= Cap + 1
        /\ n(chunk) \in Nat /\ n(chunk) <= l - read
        /\ (n(chunk) = Cap + 1 - (read - p)) <=> ((read + n(chunk)) - p = Cap + 1)
    BY <2>3, <2>5, <2>6
  <2>8. (n(chunk) = room) <=> (n(chunk) = Cap + 1 - (read - p))
    BY <2>4
  <2>9. (n(chunk) = room) <=> ((read + n(chunk)) - p = Cap + 1)
    BY <2>7, <2>8
  <2> QED BY <2>7, <2>9, Zenon
<1>12. kept(chunk) = Span(written, p, r)
  <2>1. SubSeq(whole(chunk), 1, n(chunk)) = Span(written, read, r)
    <3> DEFINE x == n(chunk)
               w == whole(chunk)
    <3>1. read <= l /\ x \in Nat /\ x <= l - read /\ w = Span(written, read, l) /\ r = read + x
      BY <1>3, <1>10, <1>11
    <3> HIDE DEF x, w, r
    <3>2. SubSeq(w, 1, x) = Span(written, read, read + x)
      <4>1. written \in Seq(Bytes) /\ read \in Nat /\ l \in Nat /\ l <= Len(written)
        BY <1>3, <1>10
      <4>2. read <= l /\ x \in Nat /\ x <= l - read
        BY <3>1
      <4>3. SubSeq(Span(written, read, l), 1, x) = Span(written, read, read + x)
        BY ZenonT(60), <4>1, <4>2, SpanOfSpan
      <4> QED BY <3>1, <4>3
    <3> QED BY <3>1, <3>2 DEF x, w
  <2>2. Span(written, p, read) \o Span(written, read, r) = Span(written, p, r)
    <3> HIDE DEF r
    <3>1. written \in Seq(Bytes) /\ read \in Nat /\ r \in Nat /\ p <= read /\ read <= r /\ r <= Len(written)
      BY <1>3, <1>8, <1>11
    <3> QED BY <3>1, SpansMeet
  <2> HIDE DEF r, n
  <2> QED BY <1>8, <2>1, <2>2
<1>13. NoneIn(written, p + 1, r - 1)
  <2> HIDE DEF r
  <2>1. NoneIn(written, p + 1, q)
    BY <1>3, <1>6, <1>8, NoneInIs
  <2>2. \A k \in (p + 1)..(r - 1) : k \in (p + 1)..q
    BY <1>10, <1>11
  <2> QED BY <2>1, <2>2 DEF NoneIn
<1>14. Last(kept(chunk)) = written[r]
  <2> HIDE DEF r, kept
  <2>1. p <= r
    BY <1>11
  <2>2. Len(Span(written, p, r)) = r - p /\ \A i \in 1..(r - p) : Span(written, p, r)[i] = written[p + i]
    BY <1>3, <1>11, <2>1, SpanIs
  <2>3. r - p \in 1..(r - p) /\ p + (r - p) = r
    BY <1>11
  <2> QED BY <1>12, <2>2, <2>3 DEF Last
<1>15. read' = r
  BY <1>4
<1> HIDE DEF r, n, kept, room
<1>16. CASE Last(kept(chunk)) = Newline \/ n(chunk) = room
  <2>1. Judge(kept(chunk))
    BY <1>4, <1>16
  <2>2. written[r] = Newline \/ r - p = Cap + 1
    BY <1>11, <1>14, <1>16
  <2>3. read <= r
    BY <1>3, <1>11
  <2> QED BY <1>1, <1>7, <1>11, <1>12, <1>13, <1>15, <2>1, <2>2, <2>3, JudgeStep
<1>17. CASE ~ (Last(kept(chunk)) = Newline \/ n(chunk) = room)
  <2>1. captured' = kept(chunk) /\ lines' = lines /\ readerState' = readerState
    BY <1>4, <1>17
  <2>2. r - p <= Cap /\ written[r] # Newline
    BY <1>3, <1>11, <1>14, <1>17
  <2>3. NoneIn(written, p + 1, r)
    <3>1. \A k \in (p + 1)..r : k \in (p + 1)..(r - 1) \/ k = r
      BY <1>11
    <3> QED BY <1>13, <2>2, <3>1 DEF NoneIn
  <2>4. StreamTypes'
    <3>1. r \in 0..Len(written) /\ p <= r
      BY <1>3, <1>11
    <3>2. captured' \in Seq(Bytes)
      BY <1>3, <1>11, <1>12, <2>1, <3>1, SpanIs
    <3> QED BY <1>1, <1>2, <1>15, <2>1, <3>1, <3>2 DEF StreamTypes
  <2>5. InPoolLine(p)'
    <3>1. p \in 0..r
      BY <1>11
    <3> QED BY <1>1, <1>8, <1>12, <1>15, <2>1, <2>2, <2>3, <3>1 DEF InPoolLine
  <2>6. PoolInv'
    BY <2>5 DEF PoolInv
  <2> QED BY <1>1, <2>4, <2>6 DEF StreamInv
<1> QED BY <1>16, <1>17

\* At the end of the connection a reply without its newline is judged as it is.
LEMMA PoolEndsStep == StreamInv /\ PoolEnds => StreamInv'
<1> SUFFICES ASSUME StreamInv, PoolEnds PROVE StreamInv'
  OBVIOUS
<1>1. /\ reader = "pool" /\ readerState = "reading" /\ AtEnd /\ reader' = reader /\ written' = written
      /\ read' = read /\ open' = open /\ sawBytes' = sawBytes /\ truncated' = truncated
  BY DEF PoolEnds
<1>2. StreamTypes /\ PoolInv
  BY <1>1 DEF StreamInv
<1>3. /\ ~ open /\ read = Len(written) /\ read \in Nat /\ Cap \in Nat /\ written \in Seq(Bytes)
  BY <1>1, WaitingIs, StreamLinesAssumption DEF Exhausted
<1>4. PICK p \in Nat : InPoolLine(p)
  BY <1>2 DEF PoolInv
<1>5. /\ p \in 0..read /\ p <= read
      /\ captured = Span(written, p, read) /\ read - p <= Cap /\ NoneIn(written, p + 1, read)
  BY <1>1, <1>3, <1>4 DEF InPoolLine
<1>6. CASE captured # <<>>
  <2>1. Judge(captured)
    BY <1>6 DEF PoolEnds
  <2>2. p # read
    BY <1>3, <1>5, <1>6, SpanEnds
  <2>3. p < read /\ read - p <= Cap + 1 /\ read <= Len(written) /\ read <= read
    BY <1>3, <1>5, <2>2
  <2>4. NoneIn(written, p + 1, read - 1)
    <3>1. \A k \in (p + 1)..(read - 1) : k \in (p + 1)..read
      BY <1>3
    <3> QED BY <1>5, <3>1 DEF NoneIn
  <2> QED BY <1>1, <1>3, <1>4, <1>5, <2>1, <2>3, <2>4, JudgeStep
<1>7. CASE ~ (captured # <<>>)
  <2>1. readerState' = "ended" /\ captured' = captured /\ lines' = lines
    BY <1>7 DEF PoolEnds
  <2>2. StreamTypes'
    BY <1>1, <1>2, <2>1 DEF StreamTypes
  <2>3. InPoolLine(p)'
    BY <1>1, <1>4, <2>1 DEF InPoolLine
  <2>4. PoolInv'
    BY <2>3 DEF PoolInv
  <2> QED BY <1>1, <2>2, <2>4 DEF StreamInv
<1> QED BY <1>6, <1>7

\* A chunk of a command's output is kept up to the limit.
LEMMA ReadCommandStep == StreamInv /\ ReadCommand => StreamInv'
<1> SUFFICES ASSUME StreamInv, ReadCommand PROVE StreamInv'
  OBVIOUS
<1>1. /\ reader = "command" /\ readerState = "reading" /\ reader' = reader /\ written' = written
      /\ open' = open /\ sawBytes' = sawBytes /\ lines' = lines /\ readerState' = readerState
  BY DEF ReadCommand
<1>2. StreamTypes /\ CommandInv
  BY <1>1 DEF StreamInv
<1>3. /\ written \in Seq(Bytes) /\ Len(written) \in Nat /\ read \in Nat /\ read <= Len(written)
      /\ Waiting = Span(written, read, Len(written)) /\ read \in 0..Len(written) /\ Cap \in Nat
  BY WaitingIs, StreamLinesAssumption
<1> DEFINE n(c) == Retained(Cap - Len(captured), c)
<1>4. PICK chunk \in Chunks(Waiting) :
         /\ captured' = captured \o SubSeq(chunk, 1, n(chunk))
         /\ truncated' = CutBefore(truncated, n(chunk) < Len(chunk))
         /\ read' = read + Len(chunk)
  BY DEF ReadCommand
<1>5. PICK e \in Nat : read < e /\ e <= Len(written) /\ chunk = Span(written, read, e)
  BY <1>3, <1>4, ChunkIs
<1>6. read' = e
  <2>1. read <= e
    BY <1>3, <1>5
  <2>2. Len(chunk) = e - read
    BY <1>3, <1>5, <2>1, SpanIs
  <2> QED BY <1>3, <1>4, <2>2
<1>7. captured' = Adds(captured, chunk) /\ (truncated' <=> truncated \/ Drops(captured, chunk)) /\ truncated' \in BOOLEAN
  <2>1. captured' = Adds(captured, chunk)
    BY <1>4 DEF Adds
  <2>2. truncated' = (truncated \/ n(chunk) < Len(chunk)) /\ (n(chunk) < Len(chunk) <=> Drops(captured, chunk))
    BY <1>4 DEF CutBefore, Drops
  <2> HIDE DEF n
  <2>3. truncated \in BOOLEAN
    BY <1>2 DEF StreamTypes
  <2> QED BY <2>1, <2>2, <2>3
<1> HIDE DEF n
<1>8. read - 0 = read /\ e - 0 = e /\ (\A x \in Nat : 0 + Limited(x) = Limited(x))
  BY <1>3 DEF Limited
<1>9. Keeps(written, 0, read, captured) /\ (truncated <=> Exceeds(0, read))
  BY <1>2, <1>3, <1>8 DEF CommandInv, Keeps, Exceeds
<1>10. /\ Keeps(written, 0, e, Adds(captured, chunk))
       /\ Exceeds(0, read) \/ Drops(captured, chunk) <=> Exceeds(0, e)
  <2>1. 0 <= read /\ read <= e
    BY <1>3, <1>5
  <2> QED BY <1>3, <1>5, <1>9, <2>1, KeepsMore
<1>11. captured' = Span(written, 0, Limited(e)) /\ (truncated' <=> e > Cap)
  <2>1. captured' = Span(written, 0, Limited(e))
    BY <1>7, <1>8, <1>10 DEF Keeps
  <2>2. truncated' <=> Exceeds(0, e)
    BY <1>7, <1>9, <1>10
  <2> QED BY <1>8, <2>1, <2>2 DEF Exceeds
<1>12. captured' \in Seq(Bytes) /\ e \in 0..Len(written)
  <2>1. Limited(e) \in Nat /\ 0 <= Limited(e) /\ Limited(e) <= Len(written)
    BY <1>3, <1>5 DEF Limited
  <2> QED BY <1>3, <1>5, <1>11, <2>1, SpanIs
<1>13. StreamTypes'
  BY <1>1, <1>2, <1>6, <1>7, <1>12 DEF StreamTypes
<1>14. CommandInv'
  BY <1>1, <1>2, <1>6, <1>11 DEF CommandInv
<1> QED BY <1>1, <1>13, <1>14 DEF StreamInv

\* The end of a command's output is its result, or an error if it was too long.
LEMMA CommandEndsStep == StreamInv /\ CommandEnds => StreamInv'
<1> SUFFICES ASSUME StreamInv, CommandEnds PROVE StreamInv'
  OBVIOUS
<1>1. /\ reader = "command" /\ readerState = "reading" /\ AtEnd /\ reader' = reader /\ written' = written
      /\ read' = read /\ open' = open /\ captured' = captured /\ sawBytes' = sawBytes /\ truncated' = truncated
  BY DEF CommandEnds
<1>2. StreamTypes /\ CommandInv
  BY <1>1 DEF StreamInv
<1>3. Exhausted'
  BY <1>1, WaitingIs DEF Exhausted
<1>4. CASE truncated
  <2>1. readerState' = "failed" /\ lines' = lines
    BY <1>4 DEF CommandEnds, Oversized
  <2>2. StreamTypes'
    BY <1>1, <1>2, <2>1 DEF StreamTypes
  <2>3. CommandInv'
    BY <1>1, <1>2, <1>3, <1>4, <2>1 DEF CommandInv
  <2> QED BY <1>1, <2>2, <2>3 DEF StreamInv
<1>5. CASE ~ truncated
  <2> DEFINE m == [text |-> captured, cut |-> FALSE]
  <2>1. readerState' = "ended" /\ lines' = <<m>>
    BY <1>5 DEF CommandEnds, Oversized
  <2>2. m \in Messages
    BY <1>2 DEF Messages, StreamTypes
  <2>3. lines' \in Seq(Messages)
    <3> HIDE DEF m
    <3> QED BY <2>1, <2>2
  <2>4. StreamTypes'
    BY <1>1, <1>2, <2>1, <2>3 DEF StreamTypes
  <2>5. CommandInv'
    BY <1>1, <1>2, <1>3, <1>5, <2>1 DEF CommandInv
  <2> QED BY <1>1, <2>4, <2>5 DEF StreamInv
<1> QED BY <1>4, <1>5

\* Every step of a writer or a reader keeps the invariant of the streams.
LEMMA StreamStep == StreamInv /\ [StreamNext]_streamVars => StreamInv'
<1> SUFFICES ASSUME StreamInv, [StreamNext]_streamVars PROVE StreamInv'
  OBVIOUS
<1>1. CASE UNCHANGED streamVars
  <2> USE <1>1 DEF streamVars
  <2>1. StreamTypes'
    BY DEF StreamInv, StreamTypes
  <2>2. ChildInv => ChildInv'
    <3> SUFFICES ASSUME ChildInv PROVE ChildInv'
      OBVIOUS
    <3>1. PICK p \in Nat : InChildLine(p)
      BY DEF ChildInv
    <3>2. InChildLine(p)'
      BY <3>1 DEF InChildLine, Exhausted
    <3> QED BY <3>2 DEF ChildInv
  <2>3. PoolInv => PoolInv'
    <3> SUFFICES ASSUME PoolInv PROVE PoolInv'
      OBVIOUS
    <3>1. PICK p \in Nat : InPoolLine(p)
      BY DEF PoolInv
    <3>2. InPoolLine(p)'
      BY <3>1 DEF InPoolLine
    <3> QED BY <3>2 DEF PoolInv
  <2>4. CommandInv => CommandInv'
    BY DEF CommandInv, Exhausted
  <2> QED BY <2>1, <2>2, <2>3, <2>4 DEF StreamInv
<1> QED
  BY <1>1, WriteByteStep, WriterEndsStep, ReadChildStep, ChildEndsStep, ReadPoolStep, PoolEndsStep,
     ReadCommandStep, CommandEndsStep DEF StreamNext

\* A beginning is no longer than the limit.
LEMMA LimitedSpan ==
  ASSUME NEW s \in Seq(Bytes), NEW p \in Nat, NEW r \in Nat, p <= r, r <= Len(s)
  PROVE  Len(Span(s, p, p + Limited(r - p))) <= Cap
<1>1. Cap \in Nat /\ Len(s) \in Nat
  BY StreamLinesAssumption, LenProperties
<1>2. /\ p + Limited(r - p) \in Nat /\ p <= p + Limited(r - p) /\ p + Limited(r - p) <= Len(s)
      /\ (p + Limited(r - p)) - p <= Cap
  BY <1>1 DEF Limited
<1>3. Len(Span(s, p, p + Limited(r - p))) = (p + Limited(r - p)) - p
  BY <1>2, SpanIs
<1> QED BY <1>2, <1>3

\* A message that is no longer than the limit, undecoded.
LEMMA ShortFits ==
  ASSUME NEW m \in Messages, ~ m.cut, Len(m.text) <= Cap
  PROVE  Within(m, Cap * Replaced)
<1>1. m.text \in Seq(Bytes)
  BY DEF Messages
<1>2. Len(m.text) \in Nat /\ Cap \in Nat /\ Replaced \in Nat
  BY <1>1, LenProperties, StreamLinesAssumption
<1>3. Decoded(m.text) \in Nat /\ Decoded(m.text) <= Len(m.text) * Replaced
  BY <1>1, DecodedIs
<1>4. /\ Replaced * Len(m.text) <= Replaced * Cap /\ Replaced * Cap \in Nat /\ Replaced * Len(m.text) \in Nat
      /\ Replaced * Cap = Cap * Replaced /\ Replaced * Len(m.text) = Len(m.text) * Replaced
  BY <1>2, Products
<1>5. Decoded(m.text) + 0 <= Cap * Replaced
  BY <1>3, <1>4
<1> QED BY <1>5 DEF Within

\* The invariant of the streams keeps every reader within its limit.
LEMMA StreamBounds == StreamInv => StreamTypeOK
<1> SUFFICES ASSUME StreamInv PROVE StreamTypeOK
  OBVIOUS
<1>1. StreamTypes /\ written \in Seq(Bytes) /\ Len(written) \in Nat /\ read \in Nat /\ read <= Len(written) /\ Cap \in Nat
  BY WaitingIs, StreamLinesAssumption DEF StreamInv
<1>2. lines \in Seq(Messages) /\ Len(lines) \in Nat /\ (\A i \in 1..Len(lines) : lines[i] \in Messages)
  BY <1>1, LenProperties, ElementOfSeq DEF StreamTypes
<1>3. CASE reader = "child"
  <2>1. ChildInv
    BY <1>3 DEF StreamInv
  <2>2. PICK p \in Nat : InChildLine(p)
    BY <2>1 DEF ChildInv
  <2>3. Len(captured) <= Cap
    <3>1. CASE captured = <<>>
      BY <1>1, <3>1, EmptySeq
    <3>2. CASE captured = Span(written, p, p + Limited(read - p))
      <4>1. p <= read
        BY <2>2 DEF InChildLine
      <4> QED BY <1>1, <3>2, <4>1, LimitedSpan
    <3> QED BY <2>2, <3>1, <3>2 DEF InChildLine
  <2> QED BY <1>1, <1>3, <2>1, <2>3 DEF StreamTypeOK, StreamTypes, ChildInv, Within
<1>4. CASE reader = "pool"
  <2>1. PICK p \in Nat : InPoolLine(p)
    BY <1>4 DEF StreamInv, PoolInv
  <2>2. Len(captured) <= Cap + 1
    <3>1. CASE captured = Span(written, p, read) /\ read - p <= Cap
      <4>1. p <= read
        BY <2>1 DEF InPoolLine
      <4>2. Len(captured) = read - p
        BY <1>1, <3>1, <4>1, SpanIs
      <4> QED BY <1>1, <3>1, <4>2
    <3> QED BY <2>1, <3>1 DEF InPoolLine
  <2>3. ASSUME NEW i \in 1..Len(lines) PROVE Within(lines[i], Cap * Replaced)
    <3>1. lines[i] = [text |-> Complete(written, p)[i], cut |-> FALSE] /\ Len(lines[i].text) < Cap
      BY <2>1 DEF InPoolLine
    <3>2. lines[i] \in Messages /\ lines[i].text \in Seq(Bytes)
      BY <1>2 DEF Messages
    <3>3. ~ lines[i].cut /\ Len(lines[i].text) <= Cap
      BY <1>1, <3>1, <3>2, LenProperties
    <3> QED BY <3>2, <3>3, ShortFits
  <2> QED BY <1>1, <1>4, <2>2, <2>3 DEF StreamTypeOK, StreamTypes, Within
<1>5. CASE reader = "command"
  <2>1. CommandInv
    BY <1>5 DEF StreamInv
  <2>2. Len(captured) <= Cap
    <3>1. 0 <= read /\ read - 0 = read /\ 0 + Limited(read) = Limited(read)
      BY <1>1 DEF Limited
    <3>2. Len(Span(written, 0, 0 + Limited(read - 0))) <= Cap
      BY <1>1, <3>1, LimitedSpan
    <3> QED BY <2>1, <3>1, <3>2 DEF CommandInv
  <2>3. ASSUME NEW i \in 1..Len(lines) PROVE Within(lines[i], Cap * Replaced)
    <3>1. lines = <<[text |-> captured, cut |-> FALSE]>>
      <4>1. lines # <<>>
        BY <1>2, EmptySeq
      <4> QED BY <2>1, <4>1 DEF CommandInv
    <3>2. lines[i] = [text |-> captured, cut |-> FALSE]
      <4> DEFINE m == [text |-> captured, cut |-> FALSE]
      <4>1. lines = <<m>>
        BY <3>1
      <4> HIDE DEF m
      <4>2. Len(<<m>>) = 1 /\ <<m>>[1] = m
        OBVIOUS
      <4>3. i = 1
        BY <4>1, <4>2
      <4> QED BY <4>1, <4>2, <4>3 DEF m
    <3>3. lines[i] \in Messages /\ ~ lines[i].cut /\ Len(lines[i].text) <= Cap
      BY <1>2, <2>2, <3>2
    <3> QED BY <3>3, ShortFits
  <2> QED BY <1>1, <1>5, <2>2, <2>3 DEF StreamTypeOK, StreamTypes, Within
<1> QED BY <1>1, <1>3, <1>4, <1>5 DEF StreamTypes

\* By the invariant, every line of the engine reaches the window once, in order.
LEMMA ChildLinesWhole == StreamInv => LinesWhole
<1> SUFFICES ASSUME StreamInv, reader = "child" PROVE LinesWhole
  BY DEF LinesWhole
<1>1. /\ written \in Seq(Bytes) /\ Len(written) \in Nat /\ read \in Nat /\ read <= Len(written) /\ Cap \in Nat
      /\ AtEnd <=> Exhausted
  BY WaitingIs, StreamLinesAssumption
<1>2. ChildInv
  BY DEF StreamInv
<1>3. PICK p \in Nat : InChildLine(p)
  BY <1>2 DEF ChildInv
<1> DEFINE whole == Complete(written, read)
<1>4. Len(whole) \in Nat
  BY <1>1, CompleteSize
<1> HIDE DEF whole
<1>5. /\ p \in 0..read /\ Begun(written, p, read)
      /\ \/ Len(lines) = Len(whole) /\ (readerState = "ended" => Exhausted /\ p = read)
         \/ Len(lines) = Len(whole) + 1 /\ p < read /\ Exhausted
  BY <1>3 DEF InChildLine, whole
\* Whether the stream ends in the middle of a line.
<1>6. p < read /\ Exhausted => written # <<>> /\ written[Len(written)] # Newline
  <2> SUFFICES ASSUME p < read, Exhausted PROVE written # <<>> /\ written[Len(written)] # Newline
    OBVIOUS
  <2>1. read = Len(written) /\ read \in (p + 1)..read /\ Len(written) # 0
    BY <1>1, <1>5 DEF Exhausted
  <2>2. written[read] # Newline
    BY <1>5, <2>1 DEF Begun, NoneIn
  <2> QED BY <1>1, <2>1, <2>2, EmptySeq
<1>7. p = read /\ Exhausted => written = <<>> \/ written[Len(written)] = Newline
  <2> SUFFICES ASSUME p = read, Exhausted PROVE written = <<>> \/ written[Len(written)] = Newline
    OBVIOUS
  <2>1. p = Len(written)
    BY DEF Exhausted
  <2>2. Len(written) = 0 => written = <<>>
    BY <1>1, EmptySeq
  <2> QED BY <1>5, <2>1, <2>2 DEF Begun
<1>8. Len(lines) \in Len(whole)..(Len(whole) + 1)
  BY <1>4, <1>5
<1>9. Len(lines) > Len(whole) => AtEnd /\ written[Len(written)] # Newline
  BY <1>1, <1>4, <1>5, <1>6
<1>10. readerState = "ended" => (Len(lines) = Len(whole)) = (written = <<>> \/ Last(written) = Newline)
  <2> SUFFICES ASSUME readerState = "ended"
               PROVE  (Len(lines) = Len(whole)) <=> (written = <<>> \/ written[Len(written)] = Newline)
    BY DEF Last
  <2>1. CASE Len(lines) = Len(whole) /\ Exhausted /\ p = read
    BY <1>7, <2>1
  <2>2. CASE Len(lines) = Len(whole) + 1 /\ p < read /\ Exhausted
    BY <1>4, <1>6, <2>2
  <2> QED BY <1>5, <2>1, <2>2
<1>11. \A i \in 1..Len(whole) : Renders(lines[i], whole[i])
  BY <1>2 DEF ChildInv, whole
<1> QED BY <1>8, <1>9, <1>10, <1>11 DEF LinesWhole, whole

\* By the invariant, every reply of the pool reaches the session whole.
LEMMA PoolRepliesWhole == StreamInv => RepliesWhole
<1> SUFFICES ASSUME StreamInv, reader = "pool" PROVE RepliesWhole
  BY DEF RepliesWhole
<1>1. /\ written \in Seq(Bytes) /\ Len(written) \in Nat /\ read \in Nat /\ read <= Len(written) /\ Cap \in Nat
      /\ Cap >= 1
  BY WaitingIs, StreamLinesAssumption
<1>2. PICK p \in Nat : InPoolLine(p)
  BY DEF StreamInv, PoolInv
<1> DEFINE whole == Complete(written, Len(written))
           sofar == Complete(written, p)
<1>3. /\ p \in 0..read /\ p <= Len(written) /\ (p = 0 \/ written[p] = Newline)
      /\ Len(lines) = Len(sofar)
      /\ \A i \in 1..Len(lines) :
            lines[i] = [text |-> sofar[i], cut |-> FALSE] /\ Len(lines[i].text) < Cap
      /\ readerState = "failed" =>
            \/ p + Cap <= Len(written) /\ NoneIn(written, p + 1, p + Cap)
            \/ p < Len(written) /\ NoneIn(written, p + 1, Len(written))
  BY <1>1, <1>2 DEF InPoolLine
<1>4. /\ Len(sofar) \in Nat /\ Len(whole) \in Nat /\ Len(sofar) <= Len(whole)
      /\ \A k \in 1..Len(sofar) : whole[k] = sofar[k]
  BY <1>1, <1>3, CompleteSize, CompleteGrows
<1>5. ASSUME NEW i \in 1..Len(lines)
      PROVE  lines[i] = [text |-> whole[i], cut |-> FALSE] /\ Len(whole[i]) < Cap
  <2> HIDE DEF whole, sofar
  <2>1. whole[i] = sofar[i] /\ lines[i] = [text |-> sofar[i], cut |-> FALSE] /\ Len(lines[i].text) < Cap
    BY <1>3, <1>4
  <2>2. lines[i].text = sofar[i]
    BY <2>1
  <2> QED BY <2>1, <2>2
<1>6. ASSUME readerState = "failed"
      PROVE  IF Len(lines) < Len(whole) THEN Len(whole[Len(lines) + 1]) >= Cap
             ELSE Last(written) # Newline
  <2>1. CASE p < Len(written) /\ NoneIn(written, p + 1, Len(written))
    <3>1. whole = sofar
      BY <1>1, <1>3, <2>1, CompleteSame
    <3>2. ~ (Len(lines) < Len(whole))
      <4> HIDE DEF whole, sofar
      <4> QED BY <1>3, <1>4, <3>1
    <3>3. Last(written) # Newline
      <4>1. Len(written) \in (p + 1)..Len(written)
        BY <1>1, <2>1
      <4> QED BY <2>1, <4>1 DEF NoneIn, Last
    <3> QED BY <3>2, <3>3
  <2>2. CASE p + Cap <= Len(written) /\ NoneIn(written, p + 1, p + Cap) /\ ~ NoneIn(written, p + 1, Len(written))
    <3> DEFINE T == {i \in (p + 1)..Len(written) : written[i] = Newline}
    <3>1. T \in SUBSET Nat /\ T # {}
      BY <2>2 DEF NoneIn
    <3> HIDE DEF T
    <3>2. PICK i \in T : \A j \in T : i <= j
      BY <3>1, LeastNumber
    <3>3. i \in (p + 1)..Len(written) /\ written[i] = Newline /\ i \in Nat
      BY <3>2 DEF T
    <3>4. NoneIn(written, p + 1, i - 1)
      <4>1. ASSUME NEW j \in (p + 1)..(i - 1), written[j] = Newline PROVE FALSE
        <5>1. j \in (p + 1)..Len(written) /\ ~ (i <= j)
          BY <1>1, <3>3
        <5> QED BY <3>2, <4>1, <5>1 DEF T
      <4> QED BY <4>1 DEF NoneIn
    <3>5. i > p + Cap
      <4> SUFFICES ASSUME i \in (p + 1)..(p + Cap) PROVE FALSE
        BY <1>1, <3>3
      <4> QED BY <2>2, <3>3 DEF NoneIn
    <3>6. Begun(written, p, i - 1) /\ p < i
      BY <1>3, <3>3, <3>4 DEF Begun
    <3> DEFINE next == Complete(written, i)
    <3>7. Len(next) = Len(sofar) + 1 /\ next[Len(sofar) + 1] = SubSeq(written, p + 1, i - 1)
      BY <3>3, <3>6, CompleteNext
    <3>8. Len(next) <= Len(whole) /\ \A k \in 1..Len(next) : whole[k] = next[k]
      <4>1. i <= Len(written)
        BY <3>3
      <4> QED BY <1>1, <3>3, <4>1, CompleteGrows
    <3>9. Len(Span(written, p, i - 1)) = (i - 1) - p /\ (i - 1) - p >= Cap
      <4>1. i - 1 \in Nat /\ p <= i - 1 /\ i - 1 <= Len(written) /\ (i - 1) - p >= Cap
        BY <1>1, <3>3, <3>5
      <4> QED BY <1>1, <4>1, SpanIs
    <3> HIDE DEF whole, sofar, next
    <3>10. Len(lines) < Len(whole) /\ whole[Len(lines) + 1] = Span(written, p, i - 1)
      <4>1. Len(sofar) + 1 \in 1..Len(next)
        BY <1>4, <3>7
      <4> QED BY <1>3, <1>4, <3>7, <3>8, <4>1 DEF Span
    <3> QED BY <3>9, <3>10
  <2>3. NoneIn(written, p + 1, Len(written)) /\ p + Cap <= Len(written) => p < Len(written)
    BY <1>1
  <2> QED BY <1>3, <1>6, <2>1, <2>2, <2>3
<1>7. Len(lines) <= Len(whole)
  BY <1>3, <1>4
<1> QED BY <1>5, <1>6, <1>7 DEF RepliesWhole

\* By the invariant, a command's output is handed on whole or not at all.
LEMMA CommandOutputWhole == StreamInv => OutputWhole
<1> SUFFICES ASSUME StreamInv, reader = "command" PROVE OutputWhole
  BY DEF OutputWhole
<1>1. /\ written \in Seq(Bytes) /\ Len(written) \in Nat /\ read \in Nat /\ read <= Len(written) /\ Cap \in Nat
  BY WaitingIs, StreamLinesAssumption
<1>2. CommandInv
  BY DEF StreamInv
<1>3. readerState = "ended" => lines[1].text = written
  <2> SUFFICES ASSUME readerState = "ended" PROVE lines[1].text = written
    OBVIOUS
  <2>1. lines = <<[text |-> captured, cut |-> FALSE]>> /\ read = Len(written) /\ ~ (read > Cap)
    BY <1>2 DEF CommandInv, Exhausted
  <2>2. Limited(read) = Len(written)
    BY <1>1, <2>1 DEF Limited
  <2>3. captured = written
    BY <1>1, <1>2, <2>2, SpanEnds DEF CommandInv
  <2> QED BY <2>1, <2>3
<1>4. readerState = "failed" => Len(written) > Cap
  BY <1>2 DEF CommandInv, Exhausted
<1>5. readerState # "reading" => read = Len(written)
  BY <1>2 DEF CommandInv, Exhausted
<1> QED BY <1>3, <1>4, <1>5 DEF OutputWhole

\* However the bytes are split into reads and wherever the stream ends: the
\* window shows every line of its child, one by one and in order, cut only when
\* too long; a pool's messages are its whole lines, and the session fails at
\* the first that is none; the memory reader answers with all of the output or
\* not at all.  None of them keeps more than its limit.
THEOREM StreamsAreWhole == StreamSpec => []StreamsWhole
<1>1. StreamInv => StreamsWhole
  BY StreamBounds, ChildLinesWhole, PoolRepliesWhole, CommandOutputWhole DEF StreamsWhole
<1> QED BY <1>1, StreamBegins, StreamStep, PTL DEF StreamSpec

----
\* Sums.

\* A sum grows by one number at a time.
LEMMA SumIs ==
  ASSUME NEW n \in Nat, NEW s, \A i \in 1..n : s[i] \in Int
  PROVE  /\ SumTo(s, 0) = 0
         /\ \A i \in 0..n : SumTo(s, i) \in Int
         /\ \A i \in Nat : i < n => SumTo(s, i + 1) = SumTo(s, i) + s[i + 1]
<1> DEFINE step == [p \in Nat \X Int |-> IF p[1] < n THEN p[2] + s[p[1] + 1] ELSE 0]
           OneSum(g, m) == g = [i \in 0..m |-> IF i = 0 THEN 0 ELSE g[i - 1] + s[i]]
           TheSum(m) == CHOOSE g : OneSum(g, m)
<1>1. step \in [Nat \X Int -> Int]
  <2>1. ASSUME NEW p \in Nat \X Int
        PROVE  (IF p[1] < n THEN p[2] + s[p[1] + 1] ELSE 0) \in Int
    <3>1. p[1] \in Nat /\ p[2] \in Int
      OBVIOUS
    <3>2. CASE p[1] < n
      <4>1. p[1] + 1 \in 1..n
        BY <3>1, <3>2
      <4>2. s[p[1] + 1] \in Int
        BY <4>1
      <4> QED BY <3>1, <3>2, <4>2
    <3>3. CASE ~ (p[1] < n)
      BY <3>3
    <3> QED BY <3>2, <3>3
  <2> QED BY <2>1
<1>2. PICK f : Iterates(f, Int, 0, step)
  <2> DEFINE S == Int
  <2>1. 0 \in S /\ step \in [Nat \X S -> S]
    BY <1>1
  <2> HIDE DEF step, S
  <2>2. \E f : Iterates(f, S, 0, step)
    BY <2>1, Iteration
  <2> QED BY <2>2 DEF S
<1>3. /\ f \in [Nat -> Int] /\ f[0] = 0
      /\ \A i \in Nat : i < n => f[i + 1] = f[i] + s[i + 1]
  <2>1. f \in [Nat -> Int] /\ f[0] = 0 /\ \A i \in Nat : f[i + 1] = step[<<i, f[i]>>]
    BY <1>2 DEF Iterates
  <2>2. ASSUME NEW i \in Nat, i < n PROVE step[<<i, f[i]>>] = f[i] + s[i + 1]
    <3>1. <<i, f[i]>> \in Nat \X Int
      BY <2>1
    <3> QED BY <2>2, <3>1
  <2> QED BY <2>1, <2>2
<1> HIDE DEF step
<1>4. ASSUME NEW m \in 0..n PROVE SumTo(s, m) = f[m]
  <2>1. OneSum([i \in 0..m |-> f[i]], m)
    <3>1. ASSUME NEW i \in 0..m, i # 0
          PROVE  f[i] = [j \in 0..m |-> f[j]][i - 1] + s[i]
      <4>1. i - 1 \in Nat /\ i - 1 < n /\ (i - 1) + 1 = i /\ i - 1 \in 0..m
        BY <3>1
      <4> QED BY <1>3, <4>1
    <3>2. [i \in 0..m |-> f[i]]
            = [i \in 0..m |-> IF i = 0 THEN 0 ELSE [j \in 0..m |-> f[j]][i - 1] + s[i]]
      BY <1>3, <3>1
    <3> QED BY <3>2
  <2>2. OneSum(TheSum(m), m)
    <3> HIDE DEF OneSum
    <3> QED BY <2>1
  <2>3. SumTo(s, m) = TheSum(m)[m]
    BY DEF SumTo
  <2> HIDE DEF TheSum
  <2> DEFINE T == {i \in Nat : i <= m => TheSum(m)[i] = f[i]}
  <2>4. 0 \in T
    BY <1>3, <2>2
  <2>5. ASSUME NEW i \in Nat, i \in T PROVE i + 1 \in T
    <3> SUFFICES ASSUME i + 1 <= m PROVE TheSum(m)[i + 1] = f[i + 1]
      OBVIOUS
    <3>1. i <= m /\ i < n /\ i + 1 \in 0..m /\ i + 1 # 0 /\ (i + 1) - 1 = i
      OBVIOUS
    <3>2. TheSum(m)[i + 1] = TheSum(m)[(i + 1) - 1] + s[i + 1]
      BY <2>2, <3>1
    <3> QED BY <1>3, <2>5, <3>1, <3>2
  <2>6. Nat \subseteq T
    <3> HIDE DEF T
    <3> QED BY <2>4, <2>5, Induct
  <2> QED BY <2>3, <2>6
<1>5. \A i \in Nat : i < n => i \in 0..n /\ i + 1 \in 0..n
  OBVIOUS
<1> QED BY <1>3, <1>4, <1>5

\* A sum of numbers between two bounds.
LEMMA SumBetween ==
  ASSUME NEW n \in Nat, NEW s, NEW a \in Int, NEW b \in Int,
         \A i \in 1..n : s[i] \in Int /\ a <= s[i] /\ s[i] <= b
  PROVE  SumTo(s, n) \in Int /\ n * a <= SumTo(s, n) /\ SumTo(s, n) <= n * b
<1>1. /\ SumTo(s, 0) = 0
      /\ \A i \in 0..n : SumTo(s, i) \in Int
      /\ \A i \in Nat : i < n => SumTo(s, i + 1) = SumTo(s, i) + s[i + 1]
  BY SumIs
<1> DEFINE T == {i \in Nat : i <= n => i * a <= SumTo(s, i) /\ SumTo(s, i) <= i * b}
<1>2. 0 \in T
  BY <1>1
<1>3. ASSUME NEW i \in Nat, i \in T PROVE i + 1 \in T
  <2> SUFFICES ASSUME i + 1 <= n
               PROVE  (i + 1) * a <= SumTo(s, i + 1) /\ SumTo(s, i + 1) <= (i + 1) * b
    OBVIOUS
  <2>1. i \in 0..n /\ i < n /\ i <= n /\ i + 1 \in 1..n
    OBVIOUS
  <2>2. SumTo(s, i) \in Int /\ SumTo(s, i + 1) = SumTo(s, i) + s[i + 1]
    BY <1>1, <2>1
  <2>3. s[i + 1] \in Int /\ a <= s[i + 1] /\ s[i + 1] <= b
    BY <2>1
  <2>4. i * a <= SumTo(s, i) /\ SumTo(s, i) <= i * b
    BY <1>3, <2>1
  <2>5. i * a \in Int /\ i * b \in Int /\ (i + 1) * a = i * a + a /\ (i + 1) * b = i * b + b
    OBVIOUS
  <2> QED BY <2>2, <2>3, <2>4, <2>5
<1>4. Nat \subseteq T
  <2> HIDE DEF T
  <2> QED BY <1>2, <1>3, Induct
<1>5. n \in T /\ n \in 0..n
  BY <1>4
<1> QED BY <1>1, <1>5

\* Sums of sizes only grow, by each size.
LEMMA SumGrows ==
  ASSUME NEW n \in Nat, NEW s, \A i \in 1..n : s[i] \in Nat
  PROVE  /\ \A i \in 0..n : SumTo(s, i) \in Nat
         /\ \A i, j \in 0..n : i <= j => SumTo(s, i) <= SumTo(s, j)
         /\ \A i \in 1..n : SumTo(s, i) = SumTo(s, i - 1) + s[i]
<1>1. /\ SumTo(s, 0) = 0
      /\ \A i \in 0..n : SumTo(s, i) \in Int
      /\ \A i \in Nat : i < n => SumTo(s, i + 1) = SumTo(s, i) + s[i + 1]
  BY SumIs
<1>2. ASSUME NEW i \in 0..n, NEW d \in Nat
      PROVE  i + d <= n => SumTo(s, i) <= SumTo(s, i + d)
  <2> DEFINE T == {e \in Nat : i + e <= n => SumTo(s, i) <= SumTo(s, i + e)}
  <2>1. 0 \in T
    BY <1>1
  <2>2. ASSUME NEW e \in Nat, e \in T PROVE e + 1 \in T
    <3> SUFFICES ASSUME i + (e + 1) <= n PROVE SumTo(s, i) <= SumTo(s, i + (e + 1))
      OBVIOUS
    <3>1. i + e \in Nat /\ i + e < n /\ i + (e + 1) = (i + e) + 1 /\ i + e \in 0..n /\ (i + e) + 1 \in 1..n
      OBVIOUS
    <3>2. SumTo(s, i) <= SumTo(s, i + e)
      BY <2>2, <3>1
    <3>3. SumTo(s, (i + e) + 1) = SumTo(s, i + e) + s[(i + e) + 1] /\ s[(i + e) + 1] \in Nat
      BY <1>1, <3>1
    <3>4. SumTo(s, i + e) \in Int /\ SumTo(s, i) \in Int
      BY <1>1, <3>1
    <3> QED BY <3>1, <3>2, <3>3, <3>4
  <2>3. Nat \subseteq T
    <3> HIDE DEF T
    <3> QED BY <2>1, <2>2, Induct
  <2> QED BY <2>3
<1>3. ASSUME NEW i \in 0..n, NEW j \in 0..n, i <= j PROVE SumTo(s, i) <= SumTo(s, j)
  <2>1. j - i \in Nat /\ i + (j - i) = j
    BY <1>3
  <2> QED BY <1>2, <2>1
<1>4. ASSUME NEW i \in 0..n PROVE SumTo(s, i) \in Nat
  <2>1. SumTo(s, 0) <= SumTo(s, i) /\ SumTo(s, i) \in Int
    BY <1>1, <1>3
  <2> QED BY <1>1, <2>1
<1>5. ASSUME NEW i \in 1..n PROVE SumTo(s, i) = SumTo(s, i - 1) + s[i]
  <2>1. i - 1 \in Nat /\ i - 1 < n /\ (i - 1) + 1 = i
    OBVIOUS
  <2> QED BY <1>1, <2>1
<1> QED BY <1>3, <1>4, <1>5

----
\* Ranks: the members of a finite set in order are counted off from 1.

\* R is a total order of S, and the members of S up to i in it.
TotalOrder(R, S) ==
  /\ \A x, y \in S : <<x, y>> \in R \/ <<y, x>> \in R
  /\ \A x, y \in S : <<x, y>> \in R /\ <<y, x>> \in R => x = y
  /\ \A x, y, z \in S : <<x, y>> \in R /\ <<y, z>> \in R => <<x, z>> \in R
\* Those of S up to i, and how many they are.
Through(R, S, i) == {j \in S : <<j, i>> \in R}
Rank(R, S, i) == Cardinality(Through(R, S, i))
Counted(R, S) ==
  /\ Cardinality(S) \in Nat
  /\ \A i \in S : IsFiniteSet(Through(R, S, i)) /\ Rank(R, S, i) \in 1..Cardinality(S)
  /\ \A i, j \in S : Rank(R, S, i) <= Rank(R, S, j) => <<i, j>> \in R
  /\ \A i, j \in S : Rank(R, S, i) = Rank(R, S, j) => i = j
  /\ \A n \in 1..Cardinality(S) : \E i \in S : Rank(R, S, i) = n

\* Ranks in a total order count its members off from 1.
LEMMA RankIs ==
  ASSUME NEW S, IsFiniteSet(S), NEW R, TotalOrder(R, S)
  PROVE  Counted(R, S)
<1> DEFINE K == Cardinality(S)
           rank == [i \in S |-> Rank(R, S, i)]
<1>1. K \in Nat
  BY FS_CardinalityType
<1>2. ASSUME NEW i \in S PROVE IsFiniteSet(Through(R, S, i)) /\ Rank(R, S, i) \in 1..K
  <2>1. Through(R, S, i) \in SUBSET S /\ i \in Through(R, S, i)
    BY DEF Through, TotalOrder
  <2>2. IsFiniteSet(Through(R, S, i)) /\ Rank(R, S, i) <= K
    BY <2>1, FS_Subset DEF Rank
  <2>3. Rank(R, S, i) \in Nat
    BY <2>2, FS_CardinalityType DEF Rank
  <2>4. Rank(R, S, i) # 0
    BY <2>1, <2>2, FS_EmptySet DEF Rank
  <2> QED BY <1>1, <2>2, <2>3, <2>4
<1>3. ASSUME NEW i \in S, NEW j \in S, i # j, <<j, i>> \in R
      PROVE  Rank(R, S, j) < Rank(R, S, i)
  <2>1. Through(R, S, j) \in SUBSET Through(R, S, i)
    BY <1>3 DEF Through, TotalOrder
  <2>2. i \notin Through(R, S, j) /\ i \in Through(R, S, i)
    BY <1>3 DEF Through, TotalOrder
  <2>3. /\ Cardinality(Through(R, S, j)) <= Cardinality(Through(R, S, i))
        /\ Cardinality(Through(R, S, i)) = Cardinality(Through(R, S, j))
             => Through(R, S, i) = Through(R, S, j)
    BY <1>2, <2>1, FS_Subset
  <2>4. Rank(R, S, j) \in Nat /\ Rank(R, S, i) \in Nat
    BY <1>2
  <2> QED BY <2>2, <2>3, <2>4 DEF Rank
<1>4. ASSUME NEW i \in S, NEW j \in S, Rank(R, S, i) <= Rank(R, S, j) PROVE <<i, j>> \in R
  <2>1. <<i, j>> \in R \/ <<j, i>> \in R
    BY DEF TotalOrder
  <2>2. Rank(R, S, i) \in Nat /\ Rank(R, S, j) \in Nat
    BY <1>2
  <2> QED BY <1>3, <1>4, <2>1, <2>2
<1>5. ASSUME NEW i \in S, NEW j \in S, Rank(R, S, i) = Rank(R, S, j) PROVE i = j
  <2>1. <<i, j>> \in R \/ <<j, i>> \in R
    BY DEF TotalOrder
  <2>2. Rank(R, S, i) \in Nat /\ Rank(R, S, j) \in Nat
    BY <1>2
  <2> QED BY <1>3, <1>5, <2>1, <2>2
<1>6. rank \in Injection(S, 1..K)
  BY <1>2, <1>5 DEF Injection, IsInjective
<1>7. IsFiniteSet(1..K) /\ Cardinality(1..K) = K
  BY <1>1, FS_Interval
<1>8. rank \in Surjection(S, 1..K)
  <2> HIDE DEF rank
  <2> QED BY <1>6, <1>7, FS_Injection
<1>9. ASSUME NEW n \in 1..K PROVE \E i \in S : Rank(R, S, i) = n
  BY <1>8 DEF Surjection
<1> QED BY <1>1, <1>2, <1>4, <1>5, <1>9 DEF Counted

\* Numbers in order.
AtMost(S) == {p \in S \X S : p[1] <= p[2]}

\* The n-th of a set of numbers is a member, in order, and each is some n-th.
LEMMA NthIs ==
  ASSUME NEW S \in SUBSET Nat, IsFiniteSet(S)
  PROVE  /\ Cardinality(S) \in Nat
         /\ \A n \in 1..Cardinality(S) : Nth(S, n) \in S
         /\ \A n, m \in 1..Cardinality(S) : n < m => Nth(S, n) < Nth(S, m)
         /\ \A i \in S : \E n \in 1..Cardinality(S) : Nth(S, n) = i
<1>1. TotalOrder(AtMost(S), S)
  BY DEF TotalOrder, AtMost
<1>2. /\ Cardinality(S) \in Nat
      /\ \A i \in S : IsFiniteSet(Through(AtMost(S), S, i)) /\ Rank(AtMost(S), S, i) \in 1..Cardinality(S)
      /\ \A i, j \in S : Rank(AtMost(S), S, i) <= Rank(AtMost(S), S, j) => <<i, j>> \in AtMost(S)
      /\ \A i, j \in S : Rank(AtMost(S), S, i) = Rank(AtMost(S), S, j) => i = j
      /\ \A n \in 1..Cardinality(S) : \E i \in S : Rank(AtMost(S), S, i) = n
  <2>1. Counted(AtMost(S), S)
    BY <1>1, RankIs
  <2> QED BY <2>1 DEF Counted
<1>3. ASSUME NEW i \in S PROVE Cardinality({j \in S : j < i}) = Rank(AtMost(S), S, i) - 1
  <2>1. i \in Through(AtMost(S), S, i)
    BY DEF Through, AtMost
  <2>2. ASSUME NEW j \in S PROVE j < i <=> j \in Through(AtMost(S), S, i) /\ j # i
    <3>1. i \in Nat /\ j \in Nat
      OBVIOUS
    <3>2. j \in Through(AtMost(S), S, i) <=> j <= i
      BY DEF Through, AtMost
    <3> QED BY <3>1, <3>2
  <2>3. {j \in S : j < i} = Through(AtMost(S), S, i) \ {i}
    <3>1. Through(AtMost(S), S, i) \subseteq S
      BY DEF Through
    <3> QED BY <2>2, <3>1
  <2>4. IsFiniteSet(Through(AtMost(S), S, i))
    BY <1>2
  <2> DEFINE T == Through(AtMost(S), S, i)
  <2>5. Cardinality(T \ {i}) = Cardinality(T) - 1
    <3>1. IsFiniteSet(T) /\ i \in T
      BY <2>1, <2>4
    <3> HIDE DEF T
    <3> QED BY <3>1, FS_RemoveElement
  <2> QED BY <2>3, <2>5 DEF Rank
<1>4. ASSUME NEW n \in 1..Cardinality(S) PROVE Nth(S, n) \in S /\ Rank(AtMost(S), S, Nth(S, n)) = n
  <2>1. PICK i \in S : Rank(AtMost(S), S, i) = n
    BY <1>2
  <2>2. Cardinality({j \in S : j < i}) = n - 1
    BY <1>3, <2>1
  <2>3. Nth(S, n) \in S /\ Cardinality({j \in S : j < Nth(S, n)}) = n - 1
    BY <2>2 DEF Nth
  <2>4. Rank(AtMost(S), S, Nth(S, n)) - 1 = n - 1 /\ Rank(AtMost(S), S, Nth(S, n)) \in 1..Cardinality(S)
    BY <1>2, <1>3, <2>3
  <2> QED BY <1>2, <2>3, <2>4
<1>5. ASSUME NEW n \in 1..Cardinality(S), NEW m \in 1..Cardinality(S), n < m PROVE Nth(S, n) < Nth(S, m)
  <2>1. /\ Nth(S, n) \in S /\ Rank(AtMost(S), S, Nth(S, n)) = n
        /\ Nth(S, m) \in S /\ Rank(AtMost(S), S, Nth(S, m)) = m
    BY <1>4
  <2>2. <<Nth(S, n), Nth(S, m)>> \in AtMost(S) /\ Nth(S, n) # Nth(S, m)
    <3>1. n <= m /\ n # m
      BY <1>5
    <3> QED BY <1>2, <2>1, <3>1, Zenon
  <2>3. Nth(S, n) <= Nth(S, m)
    BY <2>2 DEF AtMost
  <2>4. Nth(S, n) \in Nat /\ Nth(S, m) \in Nat
    BY <2>1
  <2> QED BY <2>2, <2>3, <2>4
<1>6. ASSUME NEW i \in S PROVE \E n \in 1..Cardinality(S) : Nth(S, n) = i
  <2>1. Rank(AtMost(S), S, i) \in 1..Cardinality(S)
    BY <1>2
  <2>2. Nth(S, Rank(AtMost(S), S, i)) = i
    BY <1>2, <1>4, <2>1
  <2> QED BY <2>1, <2>2
<1> QED BY <1>2, <1>4, <1>5, <1>6

----
\* The packing of a histogram into blocks.

Bucket == [rate : Nat, txs : Nat]
IsHistogram(h) ==
  /\ h.buckets \in Seq(Bucket) /\ h.txs \in Nat /\ h.capacity \in Nat \ {0}
  /\ Added(h.buckets) = h.txs

\* Where each bucket begins.
Dealt(h) ==
  /\ Len(h.buckets) \in Nat
  /\ \A i \in 1..Len(h.buckets) : h.buckets[i] \in Bucket
  /\ \A i \in 1..(Len(h.buckets) + 1) : Before(h, i) \in Nat /\ Before(h, i) <= h.txs
  /\ Before(h, 1) = 0 /\ Before(h, Len(h.buckets) + 1) = h.txs
  /\ \A i \in 1..Len(h.buckets) : Before(h, i + 1) = Before(h, i) + h.buckets[i].txs
  /\ \A i, j \in 1..(Len(h.buckets) + 1) : i <= j => Before(h, i) <= Before(h, j)

\* The buckets of a histogram lie one after another.
LEMMA HistogramIsDealt ==
  ASSUME NEW h, IsHistogram(h)
  PROVE  Dealt(h)
<1> DEFINE n == Len(h.buckets)
           s == SizesOf(h.buckets)
<1>1. n \in Nat /\ \A i \in 1..n : h.buckets[i] \in Bucket
  BY DEF IsHistogram
<1>2. \A i \in 1..n : s[i] = h.buckets[i].txs /\ s[i] \in Nat
  BY <1>1 DEF SizesOf, Bucket
<1>3. Len(s) = n
  BY <1>1 DEF SizesOf
<1>4. h.txs = SumTo(s, n)
  BY <1>3 DEF IsHistogram, Added, Total
<1> HIDE DEF n, s
<1>5. /\ \A i \in 0..n : SumTo(s, i) \in Nat
      /\ \A i, j \in 0..n : i <= j => SumTo(s, i) <= SumTo(s, j)
      /\ \A i \in 1..n : SumTo(s, i) = SumTo(s, i - 1) + s[i]
  BY <1>1, <1>2, SumGrows
<1>6. SumTo(s, 0) = 0
  <2>1. \A i \in 1..n : s[i] \in Int
    BY <1>2
  <2> QED BY <1>1, <2>1, SumIs
<1>7. \A i : Before(h, i) = SumTo(s, i - 1)
  BY DEF Before, s
<1>8. \A i \in 1..(n + 1) : i - 1 \in 0..n
  BY <1>1
<1>9. Before(h, 1) = 0 /\ Before(h, n + 1) = h.txs
  <2>1. 1 - 1 = 0 /\ (n + 1) - 1 = n
    BY <1>1
  <2> QED BY <1>4, <1>6, <1>7, <2>1
<1>10. ASSUME NEW i \in 1..(n + 1), NEW j \in 1..(n + 1), i <= j
       PROVE  Before(h, i) <= Before(h, j)
  <2>1. i - 1 <= j - 1
    BY <1>1, <1>10
  <2> QED BY <1>5, <1>7, <1>8, <2>1
<1>11. ASSUME NEW i \in 1..(n + 1) PROVE Before(h, i) \in Nat /\ Before(h, i) <= h.txs
  <2>1. n + 1 \in 1..(n + 1) /\ i <= n + 1
    BY <1>1
  <2> QED BY <1>5, <1>7, <1>8, <1>9, <1>10, <2>1
<1>12. ASSUME NEW i \in 1..n PROVE Before(h, i + 1) = Before(h, i) + h.buckets[i].txs
  <2>1. (i + 1) - 1 = i
    OBVIOUS
  <2> QED BY <1>2, <1>5, <1>7, <2>1
<1> QED BY <1>1, <1>9, <1>10, <1>11, <1>12 DEF Dealt, n

\* The next `take` transactions after `to` are all of bucket i.
OfBucket(h, i, to, take) ==
  /\ i \in 1..Len(h.buckets) /\ to \in Nat /\ take \in Nat \ {0}
  /\ Before(h, i) <= to /\ to + take <= Before(h, i + 1)

\* A few more transactions of one bucket add its rate.
LEMMA RatesExtend ==
  ASSUME NEW h, Dealt(h), NEW i, NEW to, NEW take, OfBucket(h, i, to, take),
         NEW from \in Nat, from <= to + 1
  PROVE  RatesOf(h, from, to + take) = RatesOf(h, from, to) \union {h.buckets[i].rate}
<1> DEFINE n == Len(h.buckets)
           Of(k, x, y) == \E m \in x..y : m > Before(h, k) /\ m <= Before(h, k + 1)
<1>1. /\ n \in Nat /\ i \in 1..n /\ to \in Nat /\ take \in Nat /\ take # 0
      /\ Before(h, i) <= to /\ to + take <= Before(h, i + 1)
  BY DEF Dealt, OfBucket
<1>2. ASSUME NEW k \in 1..n
      PROVE  Of(k, from, to + take) <=> Of(k, from, to) \/ k = i
  <2>1. Before(h, k) \in Nat /\ Before(h, k + 1) \in Nat /\ Before(h, i) \in Nat /\ Before(h, i + 1) \in Nat
    <3>1. k \in 1..(n + 1) /\ k + 1 \in 1..(n + 1) /\ i \in 1..(n + 1) /\ i + 1 \in 1..(n + 1)
      BY <1>1
    <3> QED BY <3>1 DEF Dealt
  <2>2. k < i => Before(h, k + 1) <= Before(h, i)
    <3>1. k + 1 \in 1..(n + 1) /\ i \in 1..(n + 1) /\ (k < i => k + 1 <= i)
      BY <1>1
    <3> QED BY <3>1 DEF Dealt
  <2>3. k > i => Before(h, i + 1) <= Before(h, k)
    <3>1. i + 1 \in 1..(n + 1) /\ k \in 1..(n + 1) /\ (k > i => i + 1 <= k)
      BY <1>1
    <3> QED BY <3>1 DEF Dealt
  <2>4. ASSUME NEW m \in from..(to + take), m > Before(h, k), m <= Before(h, k + 1), k # i
        PROVE  m \in from..to
    <3>1. CASE k < i
      BY <1>1, <2>1, <2>2, <2>4, <3>1
    <3>2. CASE k > i
      BY <1>1, <2>1, <2>3, <2>4, <3>2
    <3> QED BY <1>1, <2>4, <3>1, <3>2
  <2>5. Of(k, from, to + take) => Of(k, from, to) \/ k = i
    BY <2>4
  <2>6. Of(k, from, to) => Of(k, from, to + take)
    <3>1. \A m \in from..to : m \in from..(to + take)
      BY <1>1
    <3> QED BY <3>1
  <2>7. Of(i, from, to + take)
    <3>1. to + take \in from..(to + take) /\ to + take > Before(h, i) /\ to + take <= Before(h, i + 1)
      BY <1>1, <2>1
    <3> QED BY <3>1
  <2> HIDE DEF Of
  <2> QED BY <2>5, <2>6, <2>7
<1>3. \A x, y : RatesOf(h, x, y) = {h.buckets[k].rate : k \in {l \in 1..n : Of(l, x, y)}}
  BY DEF RatesOf
<1> HIDE DEF Of, n
<1> QED BY <1>1, <1>2, <1>3

\* No transactions have no rates.
LEMMA NoRates ==
  ASSUME NEW h, NEW from \in Nat, NEW to \in Int, to < from
  PROVE  RatesOf(h, from, to) = {}
BY DEF RatesOf

\* Block b holds the transactions of a histogram from one to another.
Blocks == [txs : Nat, low : Nat, high : Nat]
Holds(b, h, from, to) ==
  /\ b \in Blocks /\ from \in Nat /\ to \in Nat /\ from <= to
  /\ b.txs = (to - from) + 1
  /\ b.low \in RatesOf(h, from, to) /\ b.high \in RatesOf(h, from, to)
  /\ \A x \in RatesOf(h, from, to) : x \in Nat /\ x >= b.low /\ x <= b.high

\* A block given the next transactions of a bucket holds those too.
LEMMA HoldsMore ==
  ASSUME NEW h, Dealt(h), NEW i, NEW to, NEW take, OfBucket(h, i, to, take),
         NEW b, NEW from, Holds(b, h, from, to)
  PROVE  Holds(With(b, take, h.buckets[i].rate), h, from, to + take)
<1> DEFINE rate == h.buckets[i].rate
<1>1. /\ to \in Nat /\ take \in Nat \ {0} /\ rate \in Nat
      /\ b \in Blocks /\ from \in Nat /\ from <= to /\ b.txs = (to - from) + 1
  BY DEF OfBucket, Holds, Dealt, Bucket
<1>2. RatesOf(h, from, to + take) = RatesOf(h, from, to) \union {rate}
  BY <1>1, RatesExtend
<1>3. With(b, take, rate) = [txs |-> b.txs + take, low |-> Least(b.low, rate), high |-> Greatest(b.high, rate)]
  BY DEF With, Block
<1>4. b.low \in Nat /\ b.high \in Nat /\ b.txs \in Nat
  BY <1>1 DEF Blocks
<1> HIDE DEF rate
<1>5. /\ Least(b.low, rate) \in {b.low, rate} /\ Least(b.low, rate) <= b.low /\ Least(b.low, rate) <= rate
      /\ Greatest(b.high, rate) \in {b.high, rate}
      /\ Greatest(b.high, rate) >= b.high /\ Greatest(b.high, rate) >= rate
  BY <1>1, <1>4 DEF Least, Greatest
<1>6. With(b, take, rate) \in Blocks
  <2>1. b.txs + take \in Nat /\ Least(b.low, rate) \in Nat /\ Greatest(b.high, rate) \in Nat
    BY <1>1, <1>4, <1>5
  <2> QED BY <1>3, <2>1 DEF Blocks
<1>7. With(b, take, rate).txs = ((to + take) - from) + 1
  BY <1>1, <1>3
<1>8. /\ b.low \in RatesOf(h, from, to) /\ b.high \in RatesOf(h, from, to)
      /\ \A x \in RatesOf(h, from, to) : x \in Nat /\ x >= b.low /\ x <= b.high
  BY DEF Holds
<1> DEFINE l == Least(b.low, rate)
           g == Greatest(b.high, rate)
<1>9. With(b, take, rate).low = l /\ With(b, take, rate).high = g
  BY <1>3
<1>10. l \in RatesOf(h, from, to + take) /\ g \in RatesOf(h, from, to + take)
  BY <1>2, <1>5, <1>8
<1>11. ASSUME NEW x \in RatesOf(h, from, to + take) PROVE x \in Nat /\ x >= l /\ x <= g
  <2>1. l \in Nat /\ g \in Nat
    BY <1>1, <1>4, <1>5
  <2>2. CASE x = rate
    BY <1>1, <1>5, <2>2
  <2>3. CASE x \in RatesOf(h, from, to)
    BY <1>4, <1>5, <1>8, <2>1, <2>3
  <2> QED BY <1>2, <2>2, <2>3
<1>12. to + take \in Nat /\ from <= to + take
  BY <1>1
<1> HIDE DEF l, g
<1> QED BY <1>1, <1>6, <1>7, <1>9, <1>10, <1>11, <1>12 DEF Holds, rate

\* A new block given transactions of a bucket holds just those.
LEMMA HoldsFirst ==
  ASSUME NEW h, Dealt(h), NEW i, NEW to, NEW take, OfBucket(h, i, to, take)
  PROVE  Holds(With(Block(0, h.buckets[i].rate, h.buckets[i].rate), take, h.buckets[i].rate),
               h, to + 1, to + take)
<1> DEFINE rate == h.buckets[i].rate
<1>1. to \in Nat /\ take \in Nat \ {0} /\ rate \in Nat
  BY DEF OfBucket, Dealt, Bucket
<1>2. RatesOf(h, to + 1, to + take) = {rate}
  <2>1. RatesOf(h, to + 1, to) = {}
    BY <1>1, NoRates
  <2>2. to + 1 \in Nat /\ to + 1 <= to + 1
    BY <1>1
  <2> QED BY <2>1, <2>2, RatesExtend
<1> HIDE DEF rate
<1>3. With(Block(0, rate, rate), take, rate) = [txs |-> take, low |-> rate, high |-> rate]
  BY <1>1 DEF With, Block, Least, Greatest
<1>4. [txs |-> take, low |-> rate, high |-> rate] \in Blocks
  BY <1>1 DEF Blocks
<1>5. take = ((to + take) - (to + 1)) + 1 /\ to + 1 \in Nat /\ to + take \in Nat /\ to + 1 <= to + take
  BY <1>1
<1> QED BY <1>1, <1>2, <1>3, <1>4, <1>5 DEF Holds, rate

----
\* Turn by turn.

\* The transactions packed so far are dealt out in blocks of full capacity; the
\* last block has the room that is left, or also the tail.
HandedOut(p, h) == Before(h, p.next) + p.taken
LastOf(b, p, h) == IF b = Len(p.blocks) THEN HandedOut(p, h) ELSE b * h.capacity
Packings(h, cap) ==
  {p \in [blocks : Seq(Blocks), room : Nat, next : 1..(Len(h.buckets) + 1), taken : Nat] :
    /\ p.next <= Len(h.buckets) => p.taken <= h.buckets[p.next].txs
    /\ p.next = Len(h.buckets) + 1 => p.taken = 0
    /\ Len(p.blocks) <= cap + 1
    /\ Len(p.blocks) > 0 => (Len(p.blocks) - 1) * h.capacity < HandedOut(p, h)
    /\ \A b \in 1..Len(p.blocks) : Holds(p.blocks[b], h, (b - 1) * h.capacity + 1, LastOf(b, p, h))
    /\ \/ HandedOut(p, h) + p.room = Len(p.blocks) * h.capacity
       \/ /\ Len(p.blocks) = cap + 1 /\ p.room = 0
          /\ HandedOut(p, h) > Len(p.blocks) * h.capacity}

\* Nothing is packed at the start.
LEMMA StartIsPacking ==
  ASSUME NEW h, Dealt(h), NEW cap \in Nat, h.capacity \in Nat
  PROVE  Start \in Packings(h, cap) /\ HandedOut(Start, h) = 0
<1>1. Start = [blocks |-> <<>>, room |-> 0, next |-> 1, taken |-> 0]
  BY DEF Start
<1>2. Start \in [blocks : Seq(Blocks), room : Nat, next : 1..(Len(h.buckets) + 1), taken : Nat]
  <2>1. <<>> \in Seq(Blocks) /\ 1 \in 1..(Len(h.buckets) + 1)
    BY DEF Dealt
  <2> QED BY <1>1, <2>1
<1>3. Len(Start.blocks) = 0 /\ HandedOut(Start, h) = 0
  BY <1>1 DEF HandedOut, Dealt
<1>4. 0 * h.capacity = 0
  OBVIOUS
<1>5. Start.next <= Len(h.buckets) => Start.taken <= h.buckets[Start.next].txs
  BY <1>1 DEF Dealt, Bucket
<1>6. Start.room = 0 /\ Start.taken = 0 /\ Len(Start.blocks) <= cap + 1
  BY <1>1, <1>3
<1>7. HandedOut(Start, h) + Start.room = Len(Start.blocks) * h.capacity
  BY <1>3, <1>4, <1>6
<1>8. 1..Len(Start.blocks) = {} /\ ~ (Len(Start.blocks) > 0)
  BY <1>3
<1> HIDE DEF Start, HandedOut
<1> QED BY <1>2, <1>3, <1>5, <1>6, <1>7, <1>8 DEF Packings

\* A packing by its parts.
Stage(bs, room, next, taken) == [blocks |-> bs, room |-> room, next |-> next, taken |-> taken]
Stages(h) == [blocks : Seq(Blocks), room : Nat, next : 1..(Len(h.buckets) + 1), taken : Nat]

\* What a stage of the packing is made of.
LEMMA StageIs ==
  ASSUME NEW bs, NEW room, NEW next, NEW taken
  PROVE  /\ Stage(bs, room, next, taken).blocks = bs /\ Stage(bs, room, next, taken).room = room
         /\ Stage(bs, room, next, taken).next = next /\ Stage(bs, room, next, taken).taken = taken
BY Zenon DEF Stage

\* A record of such parts is a stage.
LEMMA StageTyped ==
  ASSUME NEW h, NEW bs \in Seq(Blocks), NEW room \in Nat,
         NEW next \in 1..(Len(h.buckets) + 1), NEW taken \in Nat
  PROVE  Stage(bs, room, next, taken) \in Stages(h)
BY DEF Stage, Stages

\* A packing is a stage.
LEMMA PackingTyped ==
  ASSUME NEW h, NEW cap, NEW p \in Packings(h, cap)
  PROVE  /\ p.blocks \in Seq(Blocks) /\ p.room \in Nat
         /\ p.next \in 1..(Len(h.buckets) + 1) /\ p.taken \in Nat
         /\ p = Stage(p.blocks, p.room, p.next, p.taken)
<1>1. p \in [blocks : Seq(Blocks), room : Nat, next : 1..(Len(h.buckets) + 1), taken : Nat]
  BY DEF Packings
<1> QED BY <1>1 DEF Stage

\* A turn within a bucket.
LEMMA Here ==
  ASSUME NEW h, Dealt(h), h.capacity \in Nat \ {0}, NEW cap \in Nat, NEW p \in Packings(h, cap),
         p.next <= Len(h.buckets)
  PROVE  /\ p.next \in 1..Len(h.buckets) /\ p.taken \in Nat /\ p.room \in Nat
         /\ p.taken <= h.buckets[p.next].txs /\ h.buckets[p.next].txs \in Nat
         /\ Len(p.blocks) \in Nat /\ HandedOut(p, h) \in Nat /\ Before(h, p.next) \in Nat
         /\ Before(h, p.next) <= HandedOut(p, h)
         /\ HandedOut(p, h) + (h.buckets[p.next].txs - p.taken) = Before(h, p.next + 1)
         /\ \A k \in Nat : p.taken + k <= h.buckets[p.next].txs => HandedOut(p, h) + k <= Before(h, p.next + 1)
<1>1. /\ p \in [blocks : Seq(Blocks), room : Nat, next : 1..(Len(h.buckets) + 1), taken : Nat]
      /\ p.next <= Len(h.buckets) => p.taken <= h.buckets[p.next].txs
  BY DEF Packings
<1>2. /\ Len(h.buckets) \in Nat
      /\ \A i \in 1..Len(h.buckets) : h.buckets[i] \in Bucket
      /\ \A i \in 1..(Len(h.buckets) + 1) : Before(h, i) \in Nat
      /\ \A i \in 1..Len(h.buckets) : Before(h, i + 1) = Before(h, i) + h.buckets[i].txs
  BY DEF Dealt
<1>3. p.next \in 1..Len(h.buckets) /\ p.taken \in Nat /\ p.room \in Nat /\ Len(p.blocks) \in Nat
  BY <1>1, <1>2
<1>4. h.buckets[p.next].txs \in Nat
  BY <1>2, <1>3 DEF Bucket
<1>5. Before(h, p.next) \in Nat /\ Before(h, p.next + 1) = Before(h, p.next) + h.buckets[p.next].txs
  BY <1>2, <1>3
<1> DEFINE taken == p.taken
           txs == h.buckets[p.next].txs
           before == Before(h, p.next)
           after == Before(h, p.next + 1)
           N == HandedOut(p, h)
<1>6. /\ taken \in Nat /\ txs \in Nat /\ before \in Nat /\ after = before + txs
      /\ N = before + taken
  BY <1>3, <1>4, <1>5 DEF HandedOut
<1>7. p.taken <= h.buckets[p.next].txs
  BY <1>1
<1> HIDE DEF taken, txs, before, after, N
<1>8. N \in Nat /\ before <= N /\ N + (txs - taken) = after
  BY ONLY <1>6
<1>9. \A k \in Nat : taken + k <= txs => N + k <= after
  BY ONLY <1>6
<1> QED BY ONLY <1>3, <1>4, <1>5, <1>7, <1>8, <1>9 DEF taken, txs, before, after, N

\* Packing more transactions into the last block, of which there is one.
LEMMA MoreInTheLast ==
  ASSUME NEW h, Dealt(h), h.capacity \in Nat \ {0}, NEW cap \in Nat, NEW p \in Packings(h, cap),
         p.next <= Len(h.buckets), Len(p.blocks) > 0,
         NEW take \in Nat \ {0}, p.taken + take <= h.buckets[p.next].txs,
         NEW room \in Nat,
         p.room = room + take \/ (p.room = 0 /\ room = 0 /\ Len(p.blocks) = cap + 1),
         NEW e, e = With(p.blocks[Len(p.blocks)], take, h.buckets[p.next].rate),
         NEW q, q = Stage([p.blocks EXCEPT ![Len(p.blocks)] = e], room, p.next, p.taken + take)
  PROVE  q \in Packings(h, cap) /\ HandedOut(q, h) = HandedOut(p, h) + take /\ q.next = p.next
<1> DEFINE L == Len(p.blocks)
           N == HandedOut(p, h)
           rate == h.buckets[p.next].rate
           bs == [p.blocks EXCEPT ![L] = e]
<1>1. /\ p \in [blocks : Seq(Blocks), room : Nat, next : 1..(Len(h.buckets) + 1), taken : Nat]
      /\ L <= cap + 1 /\ (L - 1) * h.capacity < N
      /\ \A b \in 1..L : Holds(p.blocks[b], h, (b - 1) * h.capacity + 1, LastOf(b, p, h))
      /\ \/ N + p.room = L * h.capacity
         \/ L = cap + 1 /\ p.room = 0 /\ N > L * h.capacity
  BY DEF Packings
<1>2. /\ p.next \in 1..Len(h.buckets) /\ p.taken \in Nat /\ p.room \in Nat
      /\ p.taken <= h.buckets[p.next].txs /\ h.buckets[p.next].txs \in Nat
      /\ L \in Nat /\ N \in Nat /\ Before(h, p.next) \in Nat
      /\ Before(h, p.next) <= N
      /\ N + (h.buckets[p.next].txs - p.taken) = Before(h, p.next + 1)
  BY Here
<1>3. OfBucket(h, p.next, N, take)
  <2>1. N + take <= Before(h, p.next + 1)
    <3>1. \A k \in Nat : p.taken + k <= h.buckets[p.next].txs => N + k <= Before(h, p.next + 1)
      BY Here
    <3> HIDE DEF N
    <3> QED BY ONLY <3>1, take \in Nat \ {0}, p.taken + take <= h.buckets[p.next].txs
  <2> QED BY <1>2, <2>1 DEF OfBucket
<1>4. L \in 1..L
  BY <1>2
<1>5. Holds(p.blocks[L], h, (L - 1) * h.capacity + 1, N)
  <2>1. LastOf(L, p, h) = N
    BY DEF LastOf
  <2> QED BY <1>1, <1>4, <2>1
<1>6. Holds(With(p.blocks[L], take, rate), h, (L - 1) * h.capacity + 1, N + take)
  <2> DEFINE from == (L - 1) * h.capacity + 1
  <2> HIDE DEF from, N
  <2>1. Holds(p.blocks[L], h, from, N)
    BY <1>5 DEF from
  <2>2. Holds(With(p.blocks[L], take, rate), h, from, N + take)
    BY <1>3, <2>1, HoldsMore
  <2> QED BY <2>2 DEF from
<1>7. With(p.blocks[L], take, rate) \in Blocks
  BY <1>6 DEF Holds
<1>8. /\ bs \in Seq(Blocks) /\ Len(bs) = L
      /\ \A b \in 1..L : bs[b] = IF b = L THEN e ELSE p.blocks[b]
  <2>1. p.blocks \in Seq(Blocks) /\ e \in Blocks
    BY <1>7, PackingTyped
  <2> QED BY <1>4, <2>1, ExceptSeq
<1>9. q.blocks = bs /\ q.next = p.next /\ q.taken = p.taken + take /\ q.room = room
  BY StageIs
<1>10. /\ q \in [blocks : Seq(Blocks), room : Nat, next : 1..(Len(h.buckets) + 1), taken : Nat]
       /\ q.blocks = bs /\ Len(q.blocks) = L /\ q.next = p.next /\ q.taken = p.taken + take /\ q.room = room
  <2>1. p.next \in 1..(Len(h.buckets) + 1)
    BY PackingTyped
  <2>2. bs \in Seq(Blocks) /\ Len(bs) = L /\ p.taken + take \in Nat
    <3>1. p.taken \in Nat
      BY <1>2
    <3>2. p.taken + take \in Nat
      BY ONLY <3>1, take \in Nat \ {0}
    <3> QED BY <1>8, <3>2
  <2>3. q \in Stages(h)
    BY <2>1, <2>2, StageTyped
  <2> QED BY <1>9, <2>2, <2>3 DEF Stages
<1>11. HandedOut(q, h) = N + take
  <2>1. HandedOut(q, h) = Before(h, p.next) + (p.taken + take)
    BY ONLY <1>10 DEF HandedOut
  <2>2. N = Before(h, p.next) + p.taken
    BY ONLY DEF HandedOut
  <2>3. Before(h, p.next) \in Nat /\ p.taken \in Nat
    BY <1>2
  <2> HIDE DEF N
  <2> QED BY ONLY <2>1, <2>2, <2>3, take \in Nat \ {0}
<1>12. ASSUME NEW b \in 1..L
       PROVE  Holds(bs[b], h, (b - 1) * h.capacity + 1, LastOf(b, q, h))
  <2>1. CASE b = L
    <3>1. LastOf(b, q, h) = N + take
      BY <1>10, <1>11, <2>1 DEF LastOf
    <3> QED BY <1>6, <1>8, <2>1, <3>1
  <2>2. CASE b # L
    <3>1. LastOf(b, q, h) = LastOf(b, p, h)
      BY <1>10, <2>2 DEF LastOf
    <3>2. bs[b] = p.blocks[b]
      BY <1>8, <2>2
    <3> QED BY <1>1, <3>1, <3>2
  <2> QED BY <2>1, <2>2
<1>13. /\ (L - 1) * h.capacity < N + take
       /\ \/ (N + take) + room = L * h.capacity
          \/ L = cap + 1 /\ room = 0 /\ N + take > L * h.capacity
  <2> DEFINE c == L * h.capacity
             d == (L - 1) * h.capacity
  <2>1. c \in Int /\ d \in Int
    <3>1. L \in Nat
      BY <1>2
    <3> HIDE DEF L
    <3> QED BY ONLY <3>1, h.capacity \in Nat \ {0}
  <2> HIDE DEF c, d, L, N
  <2>2. d < N /\ (N + p.room = c \/ (L = cap + 1 /\ p.room = 0 /\ N > c)) /\ N \in Nat /\ p.room \in Nat
    BY <1>1, <1>2 DEF c, d
  <2>3. p.room = room + take \/ (p.room = 0 /\ room = 0 /\ L = cap + 1)
    BY DEF L
  <2>4. d < N + take /\ ((N + take) + room = c \/ (L = cap + 1 /\ room = 0 /\ N + take > c))
    BY ONLY <2>1, <2>2, <2>3, take \in Nat \ {0}, room \in Nat
  <2> QED BY <2>4 DEF c, d
<1>14. q.next <= Len(h.buckets) /\ q.taken <= h.buckets[q.next].txs /\ q.next # Len(h.buckets) + 1
  <2>1. p.next \in 1..Len(h.buckets) /\ Len(h.buckets) \in Nat
    BY <1>2 DEF Dealt
  <2>2. p.next <= Len(h.buckets) /\ p.next # Len(h.buckets) + 1
    BY ONLY <2>1
  <2> QED BY ONLY <1>10, <2>2, p.taken + take <= h.buckets[p.next].txs
<1> HIDE DEF bs, N, L
<1>15. /\ Len(q.blocks) <= cap + 1
       /\ Len(q.blocks) > 0 => (Len(q.blocks) - 1) * h.capacity < HandedOut(q, h)
       /\ \A b \in 1..Len(q.blocks) : Holds(q.blocks[b], h, (b - 1) * h.capacity + 1, LastOf(b, q, h))
       /\ \/ HandedOut(q, h) + q.room = Len(q.blocks) * h.capacity
          \/ Len(q.blocks) = cap + 1 /\ q.room = 0 /\ HandedOut(q, h) > Len(q.blocks) * h.capacity
  BY <1>1, <1>10, <1>11, <1>12, <1>13
<1>16. q \in Packings(h, cap)
  BY <1>10, <1>14, <1>15 DEF Packings
<1> QED BY <1>10, <1>11, <1>16 DEF N

\* Packing the first transactions into a new block.
LEMMA FirstInANewOne ==
  ASSUME NEW h, Dealt(h), h.capacity \in Nat \ {0}, NEW cap \in Nat, NEW p \in Packings(h, cap),
         p.next <= Len(h.buckets), Len(p.blocks) <= cap, p.room = 0,
         NEW take \in Nat \ {0}, p.taken + take <= h.buckets[p.next].txs, take <= h.capacity,
         NEW e, e = With(Block(0, h.buckets[p.next].rate, h.buckets[p.next].rate),
                         take, h.buckets[p.next].rate),
         NEW q, q = Stage(Append(p.blocks, e), h.capacity - take, p.next, p.taken + take)
  PROVE  q \in Packings(h, cap) /\ HandedOut(q, h) = HandedOut(p, h) + take /\ q.next = p.next
<1> DEFINE L == Len(p.blocks)
           N == HandedOut(p, h)
           rate == h.buckets[p.next].rate
           bs == Append(p.blocks, e)
<1>1. /\ \A b \in 1..L : Holds(p.blocks[b], h, (b - 1) * h.capacity + 1, LastOf(b, p, h))
      /\ \/ N + p.room = L * h.capacity
         \/ L = cap + 1 /\ p.room = 0 /\ N > L * h.capacity
  BY DEF Packings
<1>2. /\ p.next \in 1..Len(h.buckets) /\ p.taken \in Nat
      /\ p.taken <= h.buckets[p.next].txs /\ h.buckets[p.next].txs \in Nat
      /\ L \in Nat /\ N \in Nat /\ Before(h, p.next) \in Nat
      /\ Before(h, p.next) <= N
      /\ N + (h.buckets[p.next].txs - p.taken) = Before(h, p.next + 1)
  BY Here
<1>3. N = L * h.capacity
  <2>1. N \in Nat /\ L \in Nat /\ (N + p.room = L * h.capacity \/ L = cap + 1)
    BY <1>1, <1>2
  <2> HIDE DEF L, N
  <2>2. L * h.capacity \in Nat
    BY ONLY <2>1, h.capacity \in Nat \ {0}
  <2>3. L <= cap /\ p.room = 0
    BY DEF L
  <2> DEFINE m == L * h.capacity
  <2> HIDE DEF m
  <2>4. N + p.room = m \/ L = cap + 1
    BY <2>1 DEF m
  <2>5. N = m
    BY ONLY <2>1, <2>3, <2>4, cap \in Nat
  <2> QED BY <2>5 DEF m
<1>4. OfBucket(h, p.next, N, take)
  <2>1. N + take <= Before(h, p.next + 1)
    <3>1. \A k \in Nat : p.taken + k <= h.buckets[p.next].txs => N + k <= Before(h, p.next + 1)
      BY Here
    <3> HIDE DEF N
    <3> QED BY ONLY <3>1, take \in Nat \ {0}, p.taken + take <= h.buckets[p.next].txs
  <2> QED BY <1>2, <2>1 DEF OfBucket
<1>5. Holds(e, h, N + 1, N + take) /\ e \in Blocks
  <2>1. Holds(e, h, N + 1, N + take)
    <3> HIDE DEF N
    <3> QED BY <1>4, HoldsFirst
  <2> QED BY <2>1 DEF Holds
<1>6. /\ bs \in Seq(Blocks) /\ Len(bs) = L + 1
      /\ \A b \in 1..L : bs[b] = p.blocks[b]
      /\ bs[L + 1] = e
  <2>1. p.blocks \in Seq(Blocks)
    BY PackingTyped
  <2> QED BY <1>5, <2>1
<1>7. q.blocks = bs /\ q.next = p.next /\ q.taken = p.taken + take /\ q.room = h.capacity - take
  <2>1. q = Stage(bs, h.capacity - take, p.next, p.taken + take)
    OBVIOUS
  <2> HIDE DEF bs
  <2> QED BY <2>1, StageIs
<1>8. q \in [blocks : Seq(Blocks), room : Nat, next : 1..(Len(h.buckets) + 1), taken : Nat]
  <2>1. p.next \in 1..(Len(h.buckets) + 1)
    BY PackingTyped
  <2>2. p.taken + take \in Nat
    <3>1. p.taken \in Nat
      BY <1>2
    <3> QED BY ONLY <3>1, take \in Nat \ {0}
  <2>3. h.capacity - take \in Nat
    BY ONLY h.capacity \in Nat \ {0}, take \in Nat \ {0}, take <= h.capacity
  <2> HIDE DEF bs
  <2>4. q \in Stages(h)
    BY <1>6, <2>1, <2>2, <2>3, StageTyped DEF bs
  <2> QED BY <2>4 DEF Stages
<1>9. HandedOut(q, h) = N + take
  <2>1. HandedOut(q, h) = Before(h, p.next) + (p.taken + take)
    BY ONLY <1>7 DEF HandedOut
  <2>2. N = Before(h, p.next) + p.taken
    BY ONLY DEF HandedOut
  <2>3. Before(h, p.next) \in Nat /\ p.taken \in Nat
    BY <1>2
  <2> HIDE DEF N
  <2> QED BY ONLY <2>1, <2>2, <2>3, take \in Nat \ {0}
<1> HIDE DEF bs, N
<1>10. ASSUME NEW b \in 1..(L + 1)
       PROVE  Holds(bs[b], h, (b - 1) * h.capacity + 1, LastOf(b, q, h))
  <2>1. CASE b = L + 1
    <3>1. LastOf(b, q, h) = N + take
      BY <1>6, <1>7, <1>9, <2>1 DEF LastOf
    <3>2. b - 1 = L /\ (b - 1) * h.capacity + 1 = N + 1
      <4>1. L \in Nat /\ N = L * h.capacity
        BY <1>2, <1>3
      <4> HIDE DEF L
      <4>2. b - 1 = L
        BY ONLY <2>1, <4>1
      <4> QED BY ONLY <4>1, <4>2
    <3> QED BY <1>5, <1>6, <2>1, <3>1, <3>2
  <2>2. CASE b # L + 1
    <3>1. b \in 1..L
      <4>1. L \in Nat
        BY <1>2
      <4> HIDE DEF L
      <4> QED BY ONLY <2>2, <4>1, b \in 1..(L + 1)
    <3>2. LastOf(b, q, h) = b * h.capacity
      BY <1>6, <1>7, <2>2 DEF LastOf
    <3>3. LastOf(b, p, h) = b * h.capacity
      BY <1>3 DEF LastOf, N
    <3> QED BY <1>1, <1>6, <3>1, <3>2, <3>3
  <2> QED BY <2>1, <2>2
<1>11. /\ Len(q.blocks) <= cap + 1
       /\ (Len(q.blocks) - 1) * h.capacity < HandedOut(q, h)
       /\ HandedOut(q, h) + q.room = Len(q.blocks) * h.capacity
  <2> DEFINE c == h.capacity
             m == L * c
  <2>2. N = m /\ N \in Nat /\ c \in Nat /\ L \in Nat
    BY <1>2, <1>3
  <2> HIDE DEF c, L
  <2>1. (L + 1) - 1 = L /\ (L + 1) * c = m + c
    BY <2>2
  <2> HIDE DEF m
  <2>3. m < N + take /\ (N + take) + (c - take) = m + c
    BY <2>2
  <2>4. L <= cap /\ L \in Nat
    BY <1>2 DEF L
  <2>5. L + 1 <= cap + 1 /\ ((L + 1) - 1) * c < N + take /\ (N + take) + (c - take) = (L + 1) * c
    BY <2>1, <2>3, <2>4 DEF m
  <2>6. Len(q.blocks) = L + 1 /\ q.room = c - take
    BY <1>6, <1>7 DEF L, c
  <2> QED BY <1>9, <2>5, <2>6 DEF c
<1>12. q.next <= Len(h.buckets) /\ q.taken <= h.buckets[q.next].txs /\ q.next # Len(h.buckets) + 1
  <2>1. p.next \in 1..Len(h.buckets) /\ Len(h.buckets) \in Nat
    BY <1>2 DEF Dealt
  <2>2. p.next <= Len(h.buckets) /\ p.next # Len(h.buckets) + 1
    BY ONLY <2>1
  <2>3. q.next = p.next /\ q.taken = p.taken + take /\ p.taken + take <= h.buckets[p.next].txs
    BY ONLY <1>7, p.taken + take <= h.buckets[p.next].txs
  <2> QED BY ONLY <2>2, <2>3
<1>13. \A b \in 1..Len(q.blocks) : Holds(q.blocks[b], h, (b - 1) * h.capacity + 1, LastOf(b, q, h))
  <2>1. q.blocks = bs /\ Len(q.blocks) = L + 1
    BY ONLY <1>6, <1>7
  <2> QED BY <1>10, <2>1, Zenon
<1>14. q \in Packings(h, cap)
  BY <1>8, <1>11, <1>12, <1>13 DEF Packings
<1> QED BY <1>7, <1>9, <1>14 DEF N

\* Going on to the next bucket.
LEMMA OnToTheNext ==
  ASSUME NEW h, Dealt(h), h.capacity \in Nat \ {0}, NEW cap \in Nat, NEW p \in Packings(h, cap),
         p.next <= Len(h.buckets), h.buckets[p.next].txs - p.taken = 0,
         NEW q, q = Stage(p.blocks, p.room, p.next + 1, 0)
  PROVE  q \in Packings(h, cap) /\ HandedOut(q, h) = HandedOut(p, h) /\ q.next = p.next + 1
<1>1. /\ p \in [blocks : Seq(Blocks), room : Nat, next : 1..(Len(h.buckets) + 1), taken : Nat]
      /\ Len(p.blocks) <= cap + 1
      /\ Len(p.blocks) > 0 => (Len(p.blocks) - 1) * h.capacity < HandedOut(p, h)
      /\ \A b \in 1..Len(p.blocks) : Holds(p.blocks[b], h, (b - 1) * h.capacity + 1, LastOf(b, p, h))
      /\ \/ HandedOut(p, h) + p.room = Len(p.blocks) * h.capacity
         \/ Len(p.blocks) = cap + 1 /\ p.room = 0 /\ HandedOut(p, h) > Len(p.blocks) * h.capacity
  BY DEF Packings
<1>2. /\ p.next \in 1..Len(h.buckets) /\ p.taken \in Nat /\ h.buckets[p.next].txs \in Nat
      /\ HandedOut(p, h) \in Nat
      /\ HandedOut(p, h) + (h.buckets[p.next].txs - p.taken) = Before(h, p.next + 1)
  BY Here
<1>4. q.blocks = p.blocks /\ q.room = p.room /\ q.next = p.next + 1 /\ q.taken = 0
  BY StageIs
<1>5. Len(h.buckets) \in Nat
  BY DEF Dealt
<1>6. q \in [blocks : Seq(Blocks), room : Nat, next : 1..(Len(h.buckets) + 1), taken : Nat]
  <2>1. p.next + 1 \in 1..(Len(h.buckets) + 1) /\ 0 \in Nat
    <3>1. p.next \in 1..Len(h.buckets)
      BY <1>2
    <3> QED BY ONLY <1>5, <3>1
  <2>2. q \in Stages(h)
    BY <2>1, PackingTyped, StageTyped
  <2> QED BY <2>2 DEF Stages
<1>7. HandedOut(q, h) = HandedOut(p, h)
  <2>1. HandedOut(q, h) = Before(h, p.next + 1) + 0
    BY <1>4 DEF HandedOut
  <2> QED BY <1>2, <2>1
<1>8. \A b : LastOf(b, q, h) = LastOf(b, p, h)
  BY <1>4, <1>7 DEF LastOf
<1>9. q.next <= Len(h.buckets) => q.taken <= h.buckets[q.next].txs
  <2> SUFFICES ASSUME q.next <= Len(h.buckets) PROVE h.buckets[q.next].txs \in Nat
    BY <1>4
  <2>1. q.next \in 1..Len(h.buckets)
    BY ONLY <1>2, <1>4, <1>5, q.next <= Len(h.buckets)
  <2> QED BY <2>1 DEF Dealt, Bucket
<1>10. q \in Packings(h, cap)
  BY <1>1, <1>4, <1>6, <1>7, <1>8, <1>9 DEF Packings
<1> QED BY <1>4, <1>7, <1>10

\* The last of a sequence that was just made longer is replaced.
LEMMA LastReplaced ==
  ASSUME NEW S, NEW s \in Seq(S), NEW a, NEW b
  PROVE  [Append(s, a) EXCEPT ![Len(s) + 1] = b] = Append(s, b)
<1> DEFINE T == S \union {a, b}
           n == Len(s)
           t == Append(s, a)
           u == Append(s, b)
<1>1. s \in Seq(T) /\ a \in T /\ b \in T /\ n \in Nat
  BY SeqMonotonic
<1> HIDE DEF T
<1>2. /\ t \in Seq(T) /\ Len(t) = n + 1 /\ u \in Seq(T) /\ Len(u) = n + 1
      /\ \A i \in 1..n : t[i] = s[i] /\ u[i] = s[i]
      /\ u[n + 1] = b
  BY <1>1
<1> HIDE DEF t, u, n
<1> DEFINE v == [t EXCEPT ![n + 1] = b]
<1>3. v \in Seq(T) /\ Len(v) = n + 1 /\ \A i \in 1..(n + 1) : v[i] = IF i = n + 1 THEN b ELSE t[i]
  <2>1. n + 1 \in 1..Len(t)
    BY <1>1, <1>2
  <2> QED BY <1>1, <1>2, <2>1, ExceptSeq
<1> HIDE DEF v
<1>4. ASSUME NEW i \in 1..Len(v) PROVE v[i] = u[i]
  BY <1>1, <1>2, <1>3
<1>5. v = u
  BY <1>2, <1>3, <1>4, SeqEqual
<1> QED BY <1>5 DEF v, t, u, n

\* A turn of the loops keeps a packing one, and gets further.
LEMMA TurnKeeps ==
  ASSUME NEW h, Dealt(h), h.capacity \in Nat \ {0}, NEW cap \in Nat, NEW p \in Packings(h, cap)
  PROVE  /\ Turn(p, h, cap) \in Packings(h, cap)
         /\ p.next <= Len(h.buckets) =>
              Turn(p, h, cap).next + HandedOut(Turn(p, h, cap), h) > p.next + HandedOut(p, h)
         /\ p.next > Len(h.buckets) => Turn(p, h, cap) = p
<1>1. CASE p.next > Len(h.buckets)
  <2>1. Turn(p, h, cap) = p
    BY <1>1 DEF Turn
  <2>2. p.next \in Nat /\ Len(h.buckets) \in Nat
    BY DEF Packings, Dealt
  <2>3. ~ (p.next <= Len(h.buckets))
    BY <1>1, <2>2
  <2> QED BY <2>1, <2>3
<1>2. CASE ~ (p.next > Len(h.buckets))
  <2> DEFINE rate == h.buckets[p.next].rate
             left == h.buckets[p.next].txs - p.taken
             opened == Opened(p, rate, h.capacity)
             take == Least(left, opened.room)
             q == Turn(p, h, cap)
  <2>1. p.next \in Nat /\ Len(h.buckets) \in Nat /\ p.next <= Len(h.buckets)
    BY <1>2 DEF Packings, Dealt
  <2>2. /\ p.next \in 1..Len(h.buckets) /\ p.taken \in Nat /\ p.room \in Nat
        /\ p.taken <= h.buckets[p.next].txs /\ h.buckets[p.next].txs \in Nat
        /\ Len(p.blocks) \in Nat /\ HandedOut(p, h) \in Nat
    BY <2>1, Here
  <2>3. left \in Nat /\ p.taken + left = h.buckets[p.next].txs
    BY <2>2
  <2>4. p \in [blocks : Seq(Blocks), room : Nat, next : 1..(Len(h.buckets) + 1), taken : Nat]
    BY DEF Packings
  <2>5. Turn(p, h, cap) =
          CASE left = 0 -> [p EXCEPT !.next = @ + 1, !.taken = 0]
            [] left # 0 /\ p.room = 0 /\ AtCap(p.blocks, cap) ->
                 [p EXCEPT !.blocks[Len(p.blocks)] = Merged(@, left, rate), !.taken = @ + left]
            [] OTHER ->
                 [opened EXCEPT !.blocks[Len(opened.blocks)] = With(@, take, rate),
                                !.room = @ - take, !.taken = @ + take]
    BY <1>2 DEF Turn
  <2> SUFFICES q \in Packings(h, cap) /\ q.next + HandedOut(q, h) > p.next + HandedOut(p, h)
    BY <1>2
  <2>6. CASE left = 0
    <3>1. q = Stage(p.blocks, p.room, p.next + 1, 0)
      BY <2>4, <2>5, <2>6 DEF Stage
    <3> HIDE DEF q
    <3>2. q \in Packings(h, cap) /\ HandedOut(q, h) = HandedOut(p, h) /\ q.next = p.next + 1
      BY <2>1, <2>6, <3>1, OnToTheNext
    <3> QED BY <2>2, <3>2
  <2>7. CASE left # 0 /\ p.room = 0 /\ AtCap(p.blocks, cap)
    <3>1. q = [p EXCEPT !.blocks[Len(p.blocks)] = Merged(@, left, rate), !.taken = @ + left]
      BY <2>5, <2>7
    <3> DEFINE e == With(p.blocks[Len(p.blocks)], left, rate)
    <3>2. q = Stage([p.blocks EXCEPT ![Len(p.blocks)] = e], 0, p.next, p.taken + left)
      <4> HIDE DEF q, left, rate
      <4> QED BY <2>4, <2>7, <3>1 DEF Merged, Stage
    <3>3. Len(p.blocks) = cap + 1 /\ Len(p.blocks) > 0
      BY <2>2, <2>7 DEF Packings, AtCap
    <3>4. left \in Nat \ {0} /\ p.taken + left <= h.buckets[p.next].txs
      BY <2>2, <2>3, <2>7
    <3> HIDE DEF q, left, e
    <3>5. q \in Packings(h, cap) /\ HandedOut(q, h) = HandedOut(p, h) + left /\ q.next = p.next
      <4>1. e = With(p.blocks[Len(p.blocks)], left, h.buckets[p.next].rate)
        BY DEF e
      <4>2. p.next <= Len(h.buckets) /\ p.room = 0 /\ 0 \in Nat
        BY <2>1, <2>7
      <4> QED BY <3>2, <3>3, <3>4, <4>1, <4>2, MoreInTheLast
    <3> QED BY <2>2, <3>4, <3>5
  <2>8. CASE left # 0 /\ ~ (p.room = 0 /\ AtCap(p.blocks, cap))
    <3>1. q = [opened EXCEPT !.blocks[Len(opened.blocks)] = With(@, take, rate),
                             !.room = @ - take, !.taken = @ + take]
      BY <2>5, <2>8
    <3>2. CASE p.room > 0
      <4>1. opened = p
        BY <3>2 DEF Opened
      <4>2. take \in Nat \ {0} /\ take <= left /\ take <= p.room
        BY <2>2, <2>3, <2>8, <3>2, <4>1 DEF Least
      <4>3. q = [p EXCEPT !.blocks[Len(p.blocks)] = With(@, take, rate),
                          !.room = @ - take, !.taken = @ + take]
        BY <3>1, <4>1
      <4> HIDE DEF take, opened, q
      <4> DEFINE e == With(p.blocks[Len(p.blocks)], take, rate)
      <4>4. q = Stage([p.blocks EXCEPT ![Len(p.blocks)] = e], p.room - take, p.next, p.taken + take)
        <5> HIDE DEF rate
        <5> QED BY <2>4, <4>3 DEF Stage
      <4>5. Len(p.blocks) > 0
        <5>1. CASE Len(p.blocks) = 0
          <6>1. \/ HandedOut(p, h) + p.room = 0 * h.capacity
                \/ p.room = 0
            BY <5>1 DEF Packings
          <6>2. 0 * h.capacity = 0
            OBVIOUS
          <6> QED BY <2>2, <3>2, <6>1, <6>2
        <5> QED BY <2>2, <5>1
      <4>6. p.taken + take <= h.buckets[p.next].txs /\ p.room - take \in Nat
            /\ p.room = (p.room - take) + take
        BY <2>2, <2>3, <4>2
      <4>7. q \in Packings(h, cap) /\ HandedOut(q, h) = HandedOut(p, h) + take /\ q.next = p.next
        <5>1. e = With(p.blocks[Len(p.blocks)], take, h.buckets[p.next].rate)
          OBVIOUS
        <5> HIDE DEF e
        <5> QED BY <2>1, <4>2, <4>4, <4>5, <4>6, <5>1, MoreInTheLast
      <4> QED BY <2>2, <4>2, <4>7
    <3>3. CASE p.room = 0
      <4>1. Len(p.blocks) <= cap
        BY <2>2, <2>8, <3>3 DEF AtCap
      <4>2. opened = [p EXCEPT !.blocks = Append(@, Block(0, rate, rate)), !.room = h.capacity]
        BY <3>3 DEF Opened
      <4>3. opened = Stage(Append(p.blocks, Block(0, rate, rate)), h.capacity, p.next, p.taken)
        BY <2>4, <4>2 DEF Stage
      <4>4. /\ opened.blocks = Append(p.blocks, Block(0, rate, rate)) /\ opened.room = h.capacity
            /\ opened.next = p.next /\ opened.taken = p.taken
        <5> DEFINE s == Append(p.blocks, Block(0, rate, rate))
        <5>1. opened = Stage(s, h.capacity, p.next, p.taken)
          BY <4>3
        <5> HIDE DEF opened, s
        <5>2. opened.blocks = s /\ opened.room = h.capacity /\ opened.next = p.next /\ opened.taken = p.taken
          BY <5>1, StageIs
        <5> QED BY <5>2 DEF s
      <4>5. take \in Nat \ {0} /\ take <= left /\ take <= h.capacity
        BY <2>3, <2>8, <4>4 DEF Least
      <4>6. q = Stage([opened.blocks EXCEPT ![Len(opened.blocks)] = With(@, take, rate)],
                      h.capacity - take, p.next, p.taken + take)
        <5> HIDE DEF opened, take, q, rate
        <5> QED BY <3>1, <4>3, <4>4 DEF Stage
      <4> DEFINE first == Block(0, rate, rate)
                 e == With(first, take, rate)
                 s == p.blocks
      <4>7. [Append(s, first) EXCEPT ![Len(Append(s, first))] = With(@, take, rate)] = Append(s, e)
        <5>1. s \in Seq(Blocks) /\ first \in Blocks
          <6>1. rate \in Nat
            BY <2>2 DEF Dealt, Bucket
          <6> QED BY <2>4, <6>1 DEF Block, Blocks
        <5>2. With(Append(s, first)[Len(Append(s, first))], take, rate) = e
          <6>1. Append(s, first)[Len(Append(s, first))] = first
            <7> HIDE DEF s, first
            <7> QED BY <5>1
          <6> QED BY <6>1
        <5> HIDE DEF s, first, e, take, rate
        <5>3. Append(s, first) \in Seq(Blocks) /\ Len(Append(s, first)) = Len(s) + 1
          BY <5>1
        <5>4. [Append(s, first) EXCEPT ![Len(s) + 1] = e] = Append(s, e)
          BY <5>1, LastReplaced
        <5> QED BY <5>2, <5>3, <5>4
      <4>8. q = Stage(Append(p.blocks, e), h.capacity - take, p.next, p.taken + take)
        <5>1. opened.blocks = Append(s, first)
          BY <4>4
        <5> HIDE DEF opened, q, take, first
        <5> QED BY <4>6, <4>7, <5>1, Zenon
      <4> HIDE DEF q, take
      <4>9. p.taken + take <= h.buckets[p.next].txs
        BY <2>2, <2>3, <4>5
      <4>10. q \in Packings(h, cap) /\ HandedOut(q, h) = HandedOut(p, h) + take /\ q.next = p.next
        <5>1. e = With(Block(0, h.buckets[p.next].rate, h.buckets[p.next].rate), take, h.buckets[p.next].rate)
          OBVIOUS
        <5> HIDE DEF e
        <5> QED BY <2>1, <3>3, <4>1, <4>5, <4>8, <4>9, <5>1, FirstInANewOne
      <4> QED BY <2>2, <4>5, <4>10
    <3> QED BY <2>2, <3>2, <3>3
  <2> QED BY <2>6, <2>7, <2>8
<1> QED BY <1>1, <1>2

\* The packing ends with everything placed.
LEMMA PackedIs ==
  ASSUME NEW h, IsHistogram(h), NEW cap \in Nat
  PROVE  \E p \in Packings(h, cap) : Packed(h, cap) = p.blocks /\ HandedOut(p, h) = h.txs
<1> DEFINE S == Packings(h, cap)
           step == [x \in Nat \X S |-> Turn(x[2], h, cap)]
           IsTurns(g) == g = [n \in Nat |-> IF n = 0 THEN Start ELSE Turn(g[n - 1], h, cap)]
           turn == CHOOSE g : IsTurns(g)
           last == Len(h.buckets) + h.txs
<1>1. Dealt(h) /\ h.capacity \in Nat \ {0} /\ h.txs \in Nat /\ Len(h.buckets) \in Nat
  BY HistogramIsDealt DEF IsHistogram, Dealt
<1>2. ASSUME NEW p \in S PROVE Turn(p, h, cap) \in S
  BY <1>1, TurnKeeps
<1>3. step \in [Nat \X S -> S]
  BY <1>2
<1>4. Start \in S
  BY <1>1, StartIsPacking
<1> HIDE DEF S
<1>5. \E g : IsTurns(g)
  <2>1. PICK f : Iterates(f, S, Start, step)
    <3> HIDE DEF step
    <3> QED BY <1>3, <1>4, Iteration
  <2>2. f \in [Nat -> S] /\ f[0] = Start /\ \A n \in Nat : f[n + 1] = Turn(f[n], h, cap)
    <3>1. f \in [Nat -> S] /\ f[0] = Start /\ \A n \in Nat : f[n + 1] = step[<<n, f[n]>>]
      BY <2>1 DEF Iterates
    <3>2. ASSUME NEW n \in Nat PROVE step[<<n, f[n]>>] = Turn(f[n], h, cap)
      <4>1. <<n, f[n]>> \in Nat \X S
        BY <3>1
      <4> QED BY <4>1
    <3> QED BY <3>1, <3>2
  <2>3. IsTurns(f)
    <3>1. ASSUME NEW n \in Nat PROVE f[n] = IF n = 0 THEN Start ELSE Turn(f[n - 1], h, cap)
      <4>1. n # 0 => n - 1 \in Nat /\ (n - 1) + 1 = n
        OBVIOUS
      <4> QED BY <2>2, <4>1
    <3> QED BY <2>2, <3>1
  <2> QED BY <2>3
<1>6. IsTurns(turn)
  <2> HIDE DEF IsTurns
  <2> QED BY <1>5
<1>7. Packed(h, cap) = turn[last].blocks
  BY DEF Packed
<1> HIDE DEF turn
<1>8. turn[0] = Start /\ \A n \in Nat : turn[n + 1] = Turn(turn[n], h, cap)
  <2>1. turn[0] = Start
    BY <1>6
  <2>2. ASSUME NEW n \in Nat PROVE turn[n + 1] = Turn(turn[n], h, cap)
    <3>1. n + 1 \in Nat /\ n + 1 # 0 /\ (n + 1) - 1 = n
      OBVIOUS
    <3> QED BY <1>6, <3>1
  <2> QED BY <2>1, <2>2
<1> DEFINE End == Len(h.buckets) + 1
           T == {n \in Nat : /\ turn[n] \in S
                             /\ \/ turn[n].next = End
                                \/ turn[n].next + HandedOut(turn[n], h) > n}
<1>9. 0 \in T
  <2>1. HandedOut(Start, h) = 0 /\ Start.next = 1
    BY <1>1, StartIsPacking DEF Start
  <2> QED BY <1>4, <1>8, <2>1
<1>10. ASSUME NEW n \in Nat, n \in T PROVE n + 1 \in T
  <2> DEFINE p == turn[n]
             q == turn[n + 1]
  <2>1. p \in S /\ q = Turn(p, h, cap) /\ (p.next = End \/ p.next + HandedOut(p, h) > n)
    BY <1>8, <1>10
  <2> HIDE DEF p, q
  <2>2. /\ q \in S
        /\ p.next <= Len(h.buckets) => q.next + HandedOut(q, h) > p.next + HandedOut(p, h)
        /\ p.next > Len(h.buckets) => q = p
    BY <1>1, <2>1, TurnKeeps DEF S
  <2>3. p.next \in 1..End
    BY <2>1, PackingTyped DEF S
  <2>4. CASE p.next <= Len(h.buckets)
    <3>1. HandedOut(p, h) \in Nat
      BY <1>1, <2>1, <2>4, Here DEF S
    <3>2. q.next \in Nat
      BY <2>2, PackingTyped DEF S
    <3>3. HandedOut(q, h) \in Nat
      <4>1. q.next \in 1..(Len(h.buckets) + 1) /\ q.taken \in Nat
        BY <2>2, PackingTyped DEF S
      <4> QED BY <1>1, <4>1 DEF HandedOut, Dealt
    <3>4. p.next + HandedOut(p, h) > n
      BY <1>1, <2>1, <2>4
    <3>5. q.next + HandedOut(q, h) > n + 1
      BY <2>2, <2>3, <2>4, <3>1, <3>2, <3>3, <3>4
    <3> QED BY <2>2, <3>5 DEF q
  <2>5. CASE ~ (p.next <= Len(h.buckets))
    <3>1. p.next = End /\ q = p
      BY <1>1, <2>2, <2>3, <2>5
    <3> QED BY <2>2, <3>1 DEF q
  <2> QED BY <2>4, <2>5
<1>11. Nat \subseteq T
  <2> HIDE DEF T
  <2> QED BY <1>9, <1>10, Induct
<1> DEFINE p == turn[last]
<1>12. p \in S /\ (p.next = End \/ p.next + HandedOut(p, h) > last)
  BY <1>1, <1>11
<1> HIDE DEF p
<1>13. p.next \in 1..End
  BY <1>12, PackingTyped DEF S
<1>14. p.next = End
  <2> SUFFICES ASSUME p.next <= Len(h.buckets) PROVE FALSE
    BY <1>1, <1>13
  <2>1. HandedOut(p, h) \in Nat /\ HandedOut(p, h) <= Before(h, p.next + 1)
    <3>1. /\ p.taken \in Nat /\ p.taken <= h.buckets[p.next].txs /\ h.buckets[p.next].txs \in Nat
          /\ HandedOut(p, h) \in Nat
          /\ HandedOut(p, h) + (h.buckets[p.next].txs - p.taken) = Before(h, p.next + 1)
      BY <1>1, <1>12, Here DEF S
    <3> QED BY <3>1
  <2>2. p.next + 1 \in 1..End
    BY <1>1, <1>13
  <2>3. Before(h, p.next + 1) <= h.txs /\ Before(h, p.next + 1) \in Nat
    BY <1>1, <2>2 DEF Dealt
  <2>4. p.next + HandedOut(p, h) > Len(h.buckets) + h.txs
    BY <1>1, <1>12
  <2> QED BY <1>1, <1>13, <2>1, <2>3, <2>4
<1>15. HandedOut(p, h) = h.txs
  <2>1. p.taken = 0
    BY <1>12, <1>14 DEF S, Packings
  <2> QED BY <1>1, <1>14, <2>1 DEF HandedOut, Dealt
<1> QED BY <1>7, <1>12, <1>15 DEF p, S

\* So many blocks of capacity c hold n transactions; the first is not pending.
Over(n, c) == IF n > c THEN (n - 1) \div c ELSE 0

\* The number of blocks after the first is that of the whole ones before the last.
LEMMA OverIs ==
  ASSUME NEW n \in Nat, NEW c \in Nat \ {0}, NEW k \in Nat, k * c < n, n <= k * c + c
  PROVE  Over(n, c) = k
<1>1. CASE k = 0
  BY <1>1 DEF Over
<1>2. CASE k # 0
  <2> DEFINE r == (n - 1) - k * c
             m == n - 1
  <2>1. k * c \in Nat /\ c <= k * c
    <3>1. 1 <= k /\ 1 \in Nat
      BY <1>2
    <3>2. c * 1 <= c * k
      BY <3>1, Products
    <3> QED BY <3>2
  <2>2. m \in Nat /\ r \in Nat /\ r < c /\ m = c * k + r /\ n > c
    <3> DEFINE d == k * c
    <3>1. d \in Nat /\ c <= d /\ d < n /\ n <= d + c /\ c * k = d
      BY <2>1
    <3> HIDE DEF d
    <3>2. n - 1 \in Nat /\ (n - 1) - d \in Nat /\ (n - 1) - d < c /\ n - 1 = d + ((n - 1) - d) /\ n > c
      BY <3>1
    <3> QED BY <3>1, <3>2 DEF d
  <2> HIDE DEF m, r
  <2>3. m \div c = k
    BY <2>2, QuotientIs
  <2> QED BY <2>2, <2>3 DEF Over, m
<1> QED BY <1>1, <1>2

\* So many whole blocks before the last are at most the blocks after the first.
LEMMA OverAtLeast ==
  ASSUME NEW n \in Nat, NEW c \in Nat \ {0}, NEW k \in Nat \ {0}, k * c < n
  PROVE  Over(n, c) \in Nat /\ Over(n, c) >= k
<1> DEFINE m == n - 1
           q == m \div c
           s == m % c
           d == k * c
<1>1. d \in Nat /\ c <= d /\ d < n
  <2>1. 1 <= k /\ 1 \in Nat /\ k \in Nat /\ c \in Nat
    OBVIOUS
  <2>2. c * 1 <= c * k
    BY <2>1, Products
  <2> QED BY <2>2
<1>2. m \in Nat /\ n > c /\ d <= m
  <2> HIDE DEF d
  <2> QED BY <1>1
<1>3. q \in Nat /\ s \in Nat /\ s < c /\ m = c * q + s
  <2> HIDE DEF m
  <2> QED BY <1>2, Quotients
<1> HIDE DEF m, q, s
<1>4. q >= k
  <2> SUFFICES ASSUME q < k PROVE FALSE
    BY <1>3
  <2>1. q + 1 <= k /\ q + 1 \in Nat
    BY <1>3
  <2>2. c * (q + 1) <= c * k
    BY <2>1, Products
  <2>3. c * (q + 1) = c * q + c /\ c * q \in Nat
    BY <1>3
  <2>4. c * k = d
    OBVIOUS
  <2> HIDE DEF d
  <2> QED BY <1>1, <1>2, <1>3, <2>2, <2>3, <2>4
<1> QED BY <1>2, <1>3, <1>4 DEF Over, m, q

\* What is pending, and to how many blocks it comes.
LEMMA PendingIs ==
  ASSUME NEW h, IsHistogram(h), NEW cap \in Nat \ {0}
  PROVE  /\ PackedExactly(h, Pending(h, cap), cap)
         /\ Len(Pending(h, cap)) = Least(Over(h.txs, h.capacity), cap)
         /\ Pending(h, cap) \in Seq(Blocks)
<1> DEFINE N == h.txs
           c == h.capacity
<1>1. PICK p \in Packings(h, cap) : Packed(h, cap) = p.blocks /\ HandedOut(p, h) = N
  BY PackedIs
<1> DEFINE bs == p.blocks
           L == Len(bs)
           ps == Pending(h, cap)
<1>2. N \in Nat /\ c \in Nat \ {0}
  BY DEF IsHistogram
<1>3. bs \in Seq(Blocks) /\ L \in Nat
  BY PackingTyped
<1>4. /\ L <= cap + 1 /\ (L > 0 => (L - 1) * c < N)
      /\ \A b \in 1..L : Holds(bs[b], h, (b - 1) * c + 1, IF b = L THEN N ELSE b * c)
      /\ \/ N + p.room = L * c
         \/ L = cap + 1 /\ N > L * c
  BY <1>1 DEF Packings, LastOf
<1>5. p.room \in Nat
  BY PackingTyped
<1>6. L = 0 => N = 0
  <2> SUFFICES ASSUME L = 0 PROVE N = 0
    OBVIOUS
  <2>1. N + p.room = 0 * c
    BY <1>4
  <2>2. 0 * c = 0
    BY <1>2
  <2> QED BY <1>2, <1>5, <2>1, <2>2
<1>7. N = 0 => L = 0
  <2> SUFFICES ASSUME N = 0, L > 0 PROVE FALSE
    BY <1>3
  <2>1. (L - 1) * c \in Nat
    BY <1>2, <1>3
  <2> QED BY <1>4, <2>1
<1> HIDE DEF bs
<1>8. ps = IF L <= 1 THEN <<>> ELSE Tail(bs)
  <2>1. ps = IF c = 0 \/ N = 0 \/ L <= 1 THEN <<>> ELSE Tail(bs)
    BY <1>1 DEF Pending, bs
  <2> QED BY <1>2, <1>7, <2>1
<1>9. /\ ps \in Seq(Blocks) /\ Len(ps) = IF L <= 1 THEN 0 ELSE L - 1
      /\ \A b \in 1..Len(ps) : b + 1 \in 1..L /\ ps[b] = bs[b + 1] /\ (b = Len(ps) <=> b + 1 = L)
  <2>1. CASE L <= 1
    BY <1>8, <2>1
  <2>2. CASE ~ (L <= 1)
    <3>1. bs # <<>>
      BY <1>3, <2>2
    <3>2. /\ Tail(bs) \in Seq(Blocks) /\ Len(Tail(bs)) = L - 1
          /\ \A i \in 1..Len(Tail(bs)) : Tail(bs)[i] = bs[i + 1]
      BY <1>3, <3>1, HeadTailProperties
    <3>3. ps = Tail(bs)
      BY <1>8, <2>2
    <3> HIDE DEF ps
    <3> QED BY <1>3, <2>2, <3>2, <3>3
  <2> QED BY <2>1, <2>2
<1> HIDE DEF ps
<1>10. Len(ps) = Least(Over(N, c), cap)
  <2>1. CASE L = 0
    BY <1>2, <1>6, <1>9, <2>1 DEF Over, Least
  <2>2. CASE L > 0 /\ L <= cap
    <3>1. (L - 1) * c < N /\ N <= (L - 1) * c + c
      <4> DEFINE d == (L - 1) * c
      <4>1. d \in Nat /\ L * c = d + c
        <5> HIDE DEF L
        <5> QED BY <1>2, <1>3, <2>2
      <4>2. N + p.room = d + c /\ d < N
        BY <1>3, <1>4, <2>2, <4>1
      <4> HIDE DEF d
      <4>3. N <= d + c
        BY <1>2, <1>5, <4>1, <4>2
      <4> QED BY <4>2, <4>3 DEF d
    <3>2. L - 1 \in Nat
      BY <1>3, <2>2
    <3> DEFINE k == L - 1
    <3> HIDE DEF k, N, c
    <3>3. Over(N, c) = k
      BY <1>2, <3>1, <3>2, OverIs DEF k
    <3> QED BY <1>3, <1>9, <2>2, <3>2, <3>3 DEF k, Least
  <2>3. CASE L = cap + 1
    <3>1. L - 1 = cap /\ L > 0 /\ Len(ps) = cap
      BY <1>9, <2>3
    <3>2. cap * c < N
      BY <1>4, <3>1
    <3>3. Over(N, c) \in Nat /\ Over(N, c) >= cap
      <4> HIDE DEF N, c
      <4> QED BY <1>2, <3>2, OverAtLeast
    <3> QED BY <3>1, <3>3 DEF Least
  <2> QED BY <1>3, <1>4, <2>1, <2>2, <2>3
<1>11. ASSUME NEW b \in 1..Len(ps)
       PROVE  Holds(ps[b], h, b * c + 1, IF b = Len(ps) THEN N ELSE (b + 1) * c)
  <2>1. b + 1 \in 1..L /\ ps[b] = bs[b + 1] /\ (b = Len(ps) <=> b + 1 = L) /\ b \in Int
    BY <1>9
  <2>2. (b + 1) - 1 = b
    OBVIOUS
  <2>3. Holds(bs[b + 1], h, ((b + 1) - 1) * c + 1, IF b + 1 = L THEN N ELSE (b + 1) * c)
    BY <1>4, <2>1
  <2> QED BY <2>1, <2>2, <2>3
<1>12. ASSUME NEW b \in 1..Len(ps), NEW from, NEW to, from = b * c + 1,
              to = IF b = Len(ps) THEN N ELSE (b + 1) * c
       PROVE  /\ ps[b].txs = to - from + 1
              /\ ps[b].low \in RatesOf(h, from, to) /\ ps[b].high \in RatesOf(h, from, to)
              /\ \A x \in RatesOf(h, from, to) : x >= ps[b].low /\ x <= ps[b].high
  <2>1. Holds(ps[b], h, from, to)
    BY <1>11, <1>12
  <2> QED BY <2>1 DEF Holds
<1>13. PackedExactly(h, ps, cap)
  <2> HIDE DEF N, c
  <2>1. Len(ps) = Least(IF N > c THEN (N - 1) \div c ELSE 0, cap)
    BY <1>10 DEF Over
  <2> QED BY <1>12, <2>1 DEF PackedExactly, N, c
<1> QED BY <1>9, <1>10, <1>13 DEF ps

\* The depth of a backlog.
LEMMA DepthIs ==
  ASSUME NEW h, h.txs \in Nat, h.capacity \in Nat \ {0}
  PROVE  /\ Depth(h) = Over(h.txs, h.capacity) /\ Depth(h) \in Nat /\ Depth(h) <= h.txs
         /\ (Depth(h) + 1) * h.capacity >= h.txs
         /\ Depth(h) > 0 => Depth(h) * h.capacity < h.txs
<1> DEFINE n == h.txs
           c == h.capacity
<1>1. n \in Nat /\ c \in Nat /\ c # 0
  OBVIOUS
<1>2. Depth(h) = (Greatest(n - c, 0) + (c - 1)) \div c
  BY DEF Depth, DivCeil
<1> HIDE DEF n, c
<1>3. CASE ~ (n > c)
  <2>1. Greatest(n - c, 0) = 0
    BY <1>1, <1>3 DEF Greatest
  <2>2. c - 1 \in Nat /\ c - 1 < c /\ c - 1 = c * 0 + (c - 1) /\ 0 + (c - 1) = c - 1
    BY <1>1
  <2> DEFINE r == c - 1
  <2>3. r \in Nat /\ r < c /\ r = c * 0 + r /\ 0 \in Nat
    BY <2>2
  <2> HIDE DEF r
  <2>4. r \div c = 0
    BY <1>1, <2>3, QuotientIs
  <2>5. Depth(h) = 0
    BY <1>2, <2>1, <2>2, <2>4 DEF r
  <2>6. (0 + 1) * c = c /\ Over(n, c) = 0 /\ c >= n
    BY <1>1, <1>3 DEF Over
  <2> QED BY <1>1, <2>5, <2>6 DEF n, c
<1>4. CASE n > c
  <2>1. Greatest(n - c, 0) = n - c /\ (n - c) + (c - 1) = n - 1
    BY <1>1, <1>4 DEF Greatest
  <2> DEFINE m == n - 1
             q == m \div c
             s == m % c
  <2>2. Depth(h) = q /\ Over(n, c) = q
    BY <1>2, <1>4, <2>1 DEF Over
  <2>3. m \in Nat /\ n = m + 1
    BY <1>1, <1>4
  <2>4. q \in Nat /\ s \in Nat /\ s < c /\ m = c * q + s
    <3> HIDE DEF m
    <3> QED BY <1>1, <2>3, Quotients
  <2> HIDE DEF m, q, s
  <2>5. (q + 1) * c = c * q + c /\ q * c = c * q /\ c * q \in Nat
    BY <1>1, <2>4
  <2>6. q <= c * q
    <3>1. 1 <= c /\ 1 \in Nat
      BY <1>1
    <3>2. q * 1 <= q * c
      BY <1>1, <2>4, <3>1, Products
    <3> QED BY <2>4, <2>5, <3>2
  <2> DEFINE d == c * q
  <2>7. d \in Nat /\ m = d + s /\ q <= d
    BY <2>4, <2>5, <2>6
  <2> HIDE DEF d
  <2>8. d + c >= n /\ d < n /\ q <= n
    BY <1>1, <2>3, <2>4, <2>7
  <2>9. (q + 1) * c >= n /\ q * c < n
    BY <2>5, <2>8 DEF d
  <2> QED BY <2>2, <2>4, <2>8, <2>9 DEF n, c
<1> QED BY <1>3, <1>4

----
\* The replies of a node, and what the window makes of them.

U64s == 0..(U64 - 1)
ReplyBucket == [rate : U64s \union {NotANumber}, txs : U64s]
IsReply(r) ==
  /\ r.txs \in U64s \union {NotANumber} /\ r.capacity \in U64s \union {NotANumber}
  /\ r.buckets \in Seq(ReplyBucket)

\* The sizes of the buckets of a reply are numbers, and add up to one.
LEMMA AddedIs ==
  ASSUME NEW b \in Seq(ReplyBucket)
  PROVE  Added(b) \in Nat
<1> DEFINE n == Len(b)
           s == SizesOf(b)
<1>1. n \in Nat /\ Len(s) = n
  BY LenProperties DEF SizesOf
<1>2. ASSUME NEW i \in 1..n PROVE s[i] \in Nat
  <2>1. s[i] = b[i].txs /\ b[i] \in ReplyBucket
    BY ElementOfSeq DEF SizesOf
  <2>2. b[i].txs \in U64s
    BY <2>1 DEF ReplyBucket
  <2> QED BY <2>1, <2>2 DEF U64s
<1>3. Added(b) = SumTo(s, n)
  BY <1>1 DEF Added, Total
<1> HIDE DEF n, s
<1>4. \A i \in 0..n : SumTo(s, i) \in Nat
  BY <1>1, <1>2, SumGrows
<1> QED BY <1>1, <1>3, <1>4

\* The replies a node is taken to give are replies.
LEMMA RepliesAreReplies ==
  ASSUME NEW r \in HistogramReplies \union PlainReplies
  PROVE  IsReply(r)
<1> DEFINE B == ReplyBucket
<1>1. U64 \in Nat /\ U64 > 3 /\ Rates \subseteq U64s /\ Counts \subseteq U64s /\ MaxBuckets \in Nat
  BY MempoolViewAssumption DEF U64s
<1>2. 0 \in U64s /\ 1 \in U64s /\ 2 \in U64s /\ 3 \in U64s
  BY <1>1 DEF U64s
<1>3. [rate : Rates \union {NotANumber}, txs : Counts] \subseteq B
  BY <1>1 DEF ReplyBucket
<1>4. [rate |-> 1, txs |-> 1] \in B
  BY <1>2 DEF ReplyBucket
<1>5. CASE r \in HistogramReplies
  <2>1. PICK b \in Buckets : r \in [txs : Sums(b), capacity : Capacities, buckets : {b}]
    BY <1>5 DEF HistogramReplies
  <2>2. b \in Seq(B)
    <3>1. CASE b \in UNION {[1..n -> [rate : Rates \union {NotANumber}, txs : Counts]] : n \in 0..MaxBuckets}
      <4>1. PICK n \in 0..MaxBuckets : b \in [1..n -> [rate : Rates \union {NotANumber}, txs : Counts]]
        BY <3>1
      <4>2. \A i \in 1..n : b[i] \in B
        BY <1>3, <4>1
      <4>3. n \in Nat /\ b = [i \in 1..n |-> b[i]]
        BY <1>1, <4>1
      <4> HIDE DEF B
      <4> QED BY <4>2, <4>3
    <3>2. CASE b \in {[i \in 1..(MaxBuckets + 1) |-> [rate |-> 1, txs |-> 1]]}
      <4>1. b = [i \in 1..(MaxBuckets + 1) |-> [rate |-> 1, txs |-> 1]] /\ MaxBuckets + 1 \in Nat
        BY <1>1, <3>2
      <4> DEFINE e == [rate |-> 1, txs |-> 1]
                 m == MaxBuckets + 1
      <4>2. b = [i \in 1..m |-> e] /\ m \in Nat /\ e \in B
        BY <1>4, <4>1
      <4> HIDE DEF B, e, m
      <4> QED BY <4>2
    <3> QED BY <2>1, <3>1, <3>2 DEF Buckets
  <2>3. Sums(b) \subseteq U64s \union {NotANumber}
    <3>1. Added(b) \in Nat
      BY <2>2, AddedIs
    <3>2. Added(b) % U64 \in U64s /\ (Added(b) + 1) % U64 \in U64s
      <4> DEFINE a == Added(b)
      <4> HIDE DEF a
      <4>1. a \in Nat
        BY <3>1 DEF a
      <4>2. a % U64 \in U64s /\ (a + 1) % U64 \in U64s
        BY <1>1, <4>1 DEF U64s
      <4> QED BY <4>2 DEF a
    <3> QED BY <3>2 DEF Sums
  <2>4. Capacities \subseteq U64s \union {NotANumber}
    BY <1>2 DEF Capacities
  <2> HIDE DEF B
  <2>5. r.txs \in Sums(b) /\ r.capacity \in Capacities /\ r.buckets = b
    BY <2>1
  <2> QED BY <2>2, <2>3, <2>4, <2>5 DEF IsReply, B
<1>6. CASE r \in PlainReplies
  <2>1. CASE r \in {[txs |-> n, capacity |-> 1, buckets |-> <<[rate |-> 1, txs |-> n]>>] : n \in {0, 1, 3}}
    <3>1. PICK n \in {0, 1, 3} : r = [txs |-> n, capacity |-> 1, buckets |-> <<[rate |-> 1, txs |-> n]>>]
      BY <2>1
    <3>2. n \in U64s /\ [rate |-> 1, txs |-> n] \in B
      BY <1>2 DEF ReplyBucket
    <3> DEFINE e == [rate |-> 1, txs |-> n]
    <3> HIDE DEF B, e
    <3>3. e \in B
      BY <3>2 DEF e
    <3>4. <<e>> \in Seq(B)
      BY <3>3
    <3>5. r.txs = n /\ r.capacity = 1 /\ r.buckets = <<e>>
      BY <3>1 DEF e
    <3> QED BY <1>2, <3>2, <3>4, <3>5 DEF IsReply, B
  <2>2. CASE r \in {[txs |-> 0, capacity |-> 0, buckets |-> <<>>]}
    <3>1. r.txs = 0 /\ r.capacity = 0 /\ r.buckets = <<>>
      BY <2>2
    <3> QED BY <1>2, <3>1, EmptySeq DEF IsReply
  <2> QED BY <1>6, <2>1, <2>2 DEF PlainReplies
<1> QED BY <1>5, <1>6

\* Rates that descend from each bucket to the next descend.
LEMMA RatesDescend ==
  ASSUME NEW b, Len(b) \in Nat, \A i \in 1..Len(b) : b[i].rate \in Nat, Ordered(b)
  PROVE  \A i, j \in 1..Len(b) : i < j => b[i].rate >= b[j].rate
<1> DEFINE T == {d \in Nat : \A i \in 1..Len(b) : i + d \in 1..Len(b) => b[i].rate >= b[i + d].rate}
<1>1. 0 \in T
  OBVIOUS
<1>2. ASSUME NEW d \in Nat, d \in T PROVE d + 1 \in T
  <2> SUFFICES ASSUME NEW i \in 1..Len(b), i + (d + 1) \in 1..Len(b)
               PROVE  b[i].rate >= b[i + (d + 1)].rate
    OBVIOUS
  <2>1. i + d \in 1..Len(b) /\ i + (d + 1) \in 2..Len(b) /\ (i + (d + 1)) - 1 = i + d
    OBVIOUS
  <2>2. b[i + d].rate >= b[i + (d + 1)].rate
    BY <2>1 DEF Ordered
  <2>3. b[i].rate >= b[i + d].rate
    BY <1>2, <2>1
  <2>4. b[i].rate \in Nat /\ b[i + d].rate \in Nat /\ b[i + (d + 1)].rate \in Nat
    BY <2>1
  <2> QED BY <2>2, <2>3, <2>4
<1>3. Nat \subseteq T
  <2> HIDE DEF T
  <2> QED BY <1>1, <1>2, Induct
<1>4. ASSUME NEW i \in 1..Len(b), NEW j \in 1..Len(b), i < j PROVE b[i].rate >= b[j].rate
  <2>1. j - i \in Nat /\ i + (j - i) = j
    BY <1>4
  <2>2. j - i \in T
    BY <1>3, <2>1
  <2> QED BY <2>1, <2>2
<1> QED BY <1>4

\* A reply parses if and only if it is sound.
LEMMA SoundIsParsed ==
  ASSUME NEW r, IsReply(r)
  PROVE  /\ Histogram(r) = IF Sound(r) THEN {r} ELSE {}
         /\ Sound(r) => IsHistogram(r) /\ r.txs < U64
<1> DEFINE b == r.buckets
<1>1. U64 \in Nat /\ U64 > 3
  BY MempoolViewAssumption
<1>2. /\ r.txs \in U64s \union {NotANumber} /\ r.capacity \in U64s \union {NotANumber}
      /\ b \in Seq(ReplyBucket)
  BY DEF IsReply
<1>3. Len(b) \in Nat /\ Added(b) \in Nat
  <2> HIDE DEF b
  <2> QED BY <1>2, AddedIs, LenProperties
<1>4. \A i \in 1..Len(b) : b[i].rate \in U64s \union {NotANumber} /\ b[i].txs \in U64s
  <2>1. ASSUME NEW i \in 1..Len(b) PROVE b[i] \in ReplyBucket
    <3> HIDE DEF b
    <3> QED BY <1>2, ElementOfSeq
  <2> QED BY <2>1 DEF ReplyBucket
<1>5. \A n \in U64s \union {NotANumber} : IsNumber(n) <=> n >= 0
  BY <1>1 DEF IsNumber, U64s, NotANumber
<1>6. \A n \in U64s \union {NotANumber} : n >= 0 => n \in Nat /\ n < U64
  BY <1>1 DEF U64s, NotANumber
<1>7. \A n \in U64s : n \in U64s \union {NotANumber} /\ n >= 0
  BY <1>1 DEF U64s
<1> DEFINE Fine == \A i \in 1..Len(b) : b[i].rate >= 0
<1>8. (\A i \in 1..Len(b) : IsNumber(b[i].rate) /\ IsNumber(b[i].txs)) <=> Fine
  BY <1>4, <1>5, <1>7
<1>9. (\A i \in 1..Len(b) : b[i].rate >= 0 /\ b[i].txs >= 0) <=> Fine
  BY <1>4, <1>7
<1>10. Fine => (Ordered(b) <=> \A i, j \in 1..Len(b) : i < j => b[i].rate >= b[j].rate)
  <2>1. ASSUME Fine PROVE \A i \in 1..Len(b) : b[i].rate \in Nat
    BY <1>4, <1>6, <2>1
  <2>2. ASSUME Fine, Ordered(b) PROVE \A i, j \in 1..Len(b) : i < j => b[i].rate >= b[j].rate
    <3> HIDE DEF b
    <3> QED BY <1>3, <2>1, <2>2, RatesDescend
  <2>3. ASSUME \A i, j \in 1..Len(b) : i < j => b[i].rate >= b[j].rate PROVE Ordered(b)
    <3>1. \A i \in 2..Len(b) : i - 1 \in 1..Len(b) /\ i \in 1..Len(b) /\ i - 1 < i
      BY <1>3
    <3> QED BY <2>3, <3>1 DEF Ordered
  <2> QED BY <2>2, <2>3
<1>11. r.capacity \in Int /\ (Capacity(r.capacity) <=> r.capacity > 0)
  BY <1>1, <1>2 DEF Capacity, IsNumber, U64s, NotANumber
<1>12. IsNumber(r.txs) <=> r.txs >= 0
  BY <1>2, <1>5
<1>13. r.txs >= 0 => (SumsTo(b, r.txs) <=> r.txs = Added(b)) /\ r.txs \in Nat /\ r.txs < U64
  BY <1>2, <1>3, <1>6 DEF SumsTo
<1> DEFINE Accepted ==
             /\ IsNumber(r.txs) /\ Capacity(r.capacity)
             /\ Len(b) <= MaxBuckets
             /\ \A i \in 1..Len(b) : IsNumber(b[i].rate) /\ IsNumber(b[i].txs)
             /\ Ordered(b)
             /\ SumsTo(b, r.txs)
<1>14. Histogram(r) = IF Accepted THEN {r} ELSE {}
  BY DEF Histogram
<1>15. Sound(r) <=>
         /\ r.txs >= 0 /\ r.capacity > 0 /\ Len(b) <= MaxBuckets
         /\ \A i \in 1..Len(b) : b[i].rate >= 0 /\ b[i].txs >= 0
         /\ \A i, j \in 1..Len(b) : i < j => b[i].rate >= b[j].rate
         /\ r.txs = Added(b)
  BY DEF Sound
<1>16. Accepted <=> Sound(r)
  <2> HIDE DEF Fine
  <2> QED BY <1>8, <1>9, <1>10, <1>11, <1>12, <1>13, <1>15
<1>17. Sound(r) => IsHistogram(r) /\ r.txs < U64
  <2> SUFFICES ASSUME Sound(r) PROVE IsHistogram(r) /\ r.txs < U64
    OBVIOUS
  <2>1. r.txs \in Nat /\ r.txs < U64 /\ r.txs = Added(b) /\ r.capacity \in Nat \ {0} /\ Fine
    BY <1>9, <1>11, <1>13, <1>15
  <2>2. ASSUME NEW i \in 1..Len(b) PROVE b[i] \in Bucket
    <3>1. b[i] \in ReplyBucket /\ b[i].rate \in Nat
      <4>1. b[i] \in ReplyBucket
        <5> HIDE DEF b
        <5> QED BY <1>2, ElementOfSeq
      <4> QED BY <1>4, <1>6, <2>1, <4>1
    <3>2. U64s \subseteq Nat
      BY <1>1 DEF U64s
    <3> QED BY <3>1, <3>2 DEF Bucket, ReplyBucket
  <2>3. b \in Seq(Bucket)
    <3> HIDE DEF b
    <3>1. b = [i \in 1..Len(b) |-> b[i]]
      BY <1>2, LenProperties
    <3> QED BY <1>3, <2>2, <3>1
  <2> QED BY <2>1, <2>3 DEF IsHistogram
<1> HIDE DEF Accepted
<1> QED BY <1>14, <1>16, <1>17
----
\* What the window makes of a reply.

OneReply == {{}} \union {{x} : x \in HistogramReplies \union PlainReplies}

\* View v is what the window shows of reply q and of the blocks c.
Shows(v, q, c) ==
  /\ v.recent = c
  /\ q = {} => v.backlog = {} /\ v.projected = <<>>
  /\ \A r \in q : ~ Sound(r) => v.backlog = {} /\ v.projected = <<>>
  /\ \A r \in q : Sound(r) => v.backlog = {Backlog(r)} /\ v.projected = Pending(r, MaxTiles)

\* The first so many of a sequence that is no longer are all of it.
LEMMA FirstOfAll ==
  ASSUME NEW S, NEW s \in Seq(S), NEW n \in Nat, Len(s) <= n
  PROVE  FirstOf(s, n) = s
<1>1. Least(n, Len(s)) = Len(s) /\ Len(s) \in Nat
  BY LenProperties DEF Least
<1>2. SubSeq(s, 1, Len(s)) = s
  OBVIOUS
<1> QED BY <1>1, <1>2 DEF FirstOf

\* What the engine sends of a reply, the window parses whole.
LEMMA ViewIs ==
  ASSUME NEW q \in OneReply, NEW c
  PROVE  Shows(View(FlowEvent(q, c)), q, c)
<1> DEFINE hs == UNION {Histogram(x) : x \in q}
           e == FlowEvent(q, c)
           v == View(e)
<1>1. /\ MaxTiles \in Nat \ {0} /\ MaxBacklog \in Nat \ {0}
  BY MempoolViewAssumption
<1>2. /\ e.backlog = {Backlog(h) : h \in hs} /\ e.projected = Projected(hs) /\ e.recent = c
  BY DEF FlowEvent
<1>3. /\ v.backlog = UNION {BacklogParsed(b) : b \in e.backlog}
      /\ v.projected = FirstOf(e.projected, MaxTiles) /\ v.recent = e.recent
  BY DEF View
<1>4. q = {} \/ \E x : q = {x} /\ IsReply(x)
  BY RepliesAreReplies DEF OneReply
<1>5. ASSUME hs = {} PROVE v.backlog = {} /\ v.projected = <<>>
  <2>1. e.backlog = {} /\ e.projected = <<>>
    <3> HIDE DEF hs, e
    <3> QED BY <1>2, <1>5 DEF Projected
  <2>2. FirstOf(<<>>, MaxTiles) = <<>>
    <3>1. <<>> \in Seq({}) /\ Len(<<>>) <= MaxTiles /\ MaxTiles \in Nat
      BY <1>1
    <3> QED BY <3>1, FirstOfAll
  <2> HIDE DEF v, e
  <2> QED BY <1>3, <2>1, <2>2
<1>6. ASSUME NEW x, hs = {x}, Sound(x), IsReply(x)
      PROVE  v.backlog = {Backlog(x)} /\ v.projected = Pending(x, MaxTiles)
  <2>1. IsHistogram(x)
    BY <1>6, SoundIsParsed
  <2>2. /\ Pending(x, MaxBacklog) \in Seq(Blocks) /\ Len(Pending(x, MaxBacklog)) <= MaxBacklog
        /\ Pending(x, MaxTiles) \in Seq(Blocks) /\ Len(Pending(x, MaxTiles)) <= MaxTiles
    <3>1. x.txs \in Nat /\ x.capacity \in Nat \ {0}
      BY <2>1 DEF IsHistogram
    <3>2. Over(x.txs, x.capacity) \in Nat
      BY <3>1, DepthIs
    <3> QED BY <1>1, <2>1, <3>2, PendingIs DEF Least
  <2>3. e.backlog = {Backlog(x)} /\ e.projected = Pending(x, MaxTiles)
    <3>1. (CHOOSE h \in {x} : TRUE) = x
      OBVIOUS
    <3>2. hs # {} /\ Projected(hs) = Pending(x, MaxTiles)
      <4> HIDE DEF hs
      <4> QED BY <1>6, <3>1 DEF Projected
    <3> HIDE DEF hs, e
    <3> QED BY <1>2, <1>6, <3>2
  <2>4. BacklogParsed(Backlog(x)) = {Backlog(x)}
    <3>1. Backlog(x).blocks = Pending(x, MaxBacklog)
      BY DEF Backlog
    <3>2. ~ Len(Pending(x, MaxBacklog)) > MaxBacklog
      <4>1. Len(Pending(x, MaxBacklog)) \in Nat
        BY <2>2, LenProperties
      <4> QED BY <1>1, <2>2, <4>1
    <3> QED BY <3>1, <3>2 DEF BacklogParsed
  <2>5. FirstOf(Pending(x, MaxTiles), MaxTiles) = Pending(x, MaxTiles)
    BY <1>1, <2>2, FirstOfAll
  <2> HIDE DEF v, e
  <2> QED BY <1>3, <2>3, <2>4, <2>5
<1>7. CASE q = {}
  <2>1. hs = {}
    BY <1>7
  <2> HIDE DEF hs, v, e
  <2> QED BY <1>2, <1>3, <1>5, <1>7, <2>1 DEF Shows, v, e
<1>8. ASSUME NEW x, q = {x}, IsReply(x), Sound(x) PROVE Shows(v, q, c)
  <2>1. hs = {x}
    BY <1>8, SoundIsParsed
  <2> HIDE DEF hs, v, e
  <2> QED BY <1>2, <1>3, <1>6, <1>8, <2>1 DEF Shows
<1>9. ASSUME NEW x, q = {x}, IsReply(x), ~ Sound(x) PROVE Shows(v, q, c)
  <2>1. hs = {}
    BY <1>9, SoundIsParsed
  <2> HIDE DEF hs, v, e
  <2> QED BY <1>2, <1>3, <1>5, <1>9, <2>1 DEF Shows
<1> QED BY <1>4, <1>7, <1>8, <1>9
\* The panel of a view of the reply is what the reply says: its state, the
\* blocks it draws, and its depth.
LEMMA PanelOfReply ==
  ASSUME reply \in OneReply, NEW c, flow = {View(FlowEvent(reply, c))}
  PROVE  BacklogHonest /\ PackingExact /\ DepthExact
<1> DEFINE v == View(FlowEvent(reply, c))
<1>1. Shows(v, reply, c) /\ flow = {v}
  BY ViewIs
<1>2. reply = {} \/ \E x : reply = {x} /\ IsReply(x)
  BY RepliesAreReplies DEF OneReply
<1>3. MaxTiles \in Nat \ {0} /\ MaxBacklog \in Nat \ {0}
  BY MempoolViewAssumption
<1> HIDE DEF v
<1>4. (CHOOSE f \in flow : TRUE) = v /\ flow # {}
  BY <1>1
<1>5. ASSUME v.backlog = {} PROVE BacklogState = "unavailable"
  BY <1>4, <1>5 DEF BacklogState
<1>6. ASSUME NEW x, reply = {x}, IsReply(x), Sound(x)
      PROVE  /\ v.backlog = {Backlog(x)} /\ v.projected = Pending(x, MaxTiles)
             /\ x.txs \in Nat /\ x.capacity \in Nat \ {0}
             /\ Depth(x) = Over(x.txs, x.capacity) /\ Depth(x) \in Nat
             /\ (Depth(x) + 1) * x.capacity >= x.txs
             /\ Depth(x) > 0 => Depth(x) * x.capacity < x.txs
             /\ \A cap \in Nat \ {0} : /\ PackedExactly(x, Pending(x, cap), cap)
                                       /\ Len(Pending(x, cap)) = Least(Depth(x), cap)
  <2>1. v.backlog = {Backlog(x)} /\ v.projected = Pending(x, MaxTiles)
    BY <1>1, <1>6 DEF Shows
  <2>2. IsHistogram(x)
    BY <1>6, SoundIsParsed
  <2>3. x.txs \in Nat /\ x.capacity \in Nat \ {0}
    BY <2>2 DEF IsHistogram
  <2>4. /\ Depth(x) = Over(x.txs, x.capacity) /\ Depth(x) \in Nat
        /\ (Depth(x) + 1) * x.capacity >= x.txs
        /\ Depth(x) > 0 => Depth(x) * x.capacity < x.txs
    BY <2>3, DepthIs
  <2>5. ASSUME NEW cap \in Nat \ {0}
        PROVE  PackedExactly(x, Pending(x, cap), cap) /\ Len(Pending(x, cap)) = Least(Depth(x), cap)
    <3>1. PackedExactly(x, Pending(x, cap), cap) /\ Len(Pending(x, cap)) = Least(Over(x.txs, x.capacity), cap)
      BY <2>2, PendingIs
    <3> QED BY <2>4, <3>1
  <2> QED BY <2>1, <2>3, <2>4, <2>5
<1>7. BacklogHonest
  <2>1. CASE reply = {}
    <3>1. BacklogState = "unavailable"
      BY <1>1, <1>5, <2>1 DEF Shows
    <3> QED BY <2>1, <3>1 DEF BacklogHonest
  <2>2. ASSUME NEW x, reply = {x}, IsReply(x) PROVE BacklogHonest
    <3>1. CASE ~ Sound(x)
      <4>1. BacklogState = "unavailable"
        BY <1>1, <1>5, <2>2, <3>1 DEF Shows
      <4>2. \E r \in reply : ~ Sound(r)
        BY <2>2, <3>1
      <4> QED BY <4>1, <4>2 DEF BacklogHonest
    <3>2. CASE Sound(x)
      <4>1. v.backlog = {Backlog(x)} /\ Backlog(x).txs = x.txs /\ Backlog(x).depth = Depth(x)
        BY <1>6, <2>2, <3>2 DEF Backlog
      <4>2. (CHOOSE b \in v.backlog : TRUE) = Backlog(x) /\ v.backlog # {}
        BY <4>1
      <4>3. BacklogState = IF x.txs = 0 THEN "empty" ELSE IF Depth(x) = 0 THEN "clear" ELSE "deep"
        BY <1>4, <4>1, <4>2 DEF BacklogState
      <4>4. Depth(x) = 0 <=> x.txs <= x.capacity
        <5>1. /\ x.txs \in Nat /\ x.capacity \in Nat \ {0} /\ Depth(x) = Over(x.txs, x.capacity)
          BY <1>6, <2>2, <3>2
        <5>2. CASE x.txs <= x.capacity
          BY <5>1, <5>2 DEF Over
        <5>3. CASE ~ x.txs <= x.capacity
          <6>1. 1 * x.capacity < x.txs /\ 1 \in Nat \ {0}
            BY <5>1, <5>3
          <6>2. Over(x.txs, x.capacity) >= 1 /\ Over(x.txs, x.capacity) \in Nat
            BY <5>1, <6>1, OverAtLeast
          <6> QED BY <5>1, <5>3, <6>2
        <5> QED BY <5>2, <5>3
      <4>5. reply # {} /\ ~ (\E r \in reply : ~ Sound(r)) /\ (CHOOSE r \in reply : TRUE) = x
        BY <2>2, <3>2
      <4> QED BY <4>3, <4>4, <4>5 DEF BacklogHonest
    <3> QED BY <3>1, <3>2
  <2> QED BY <1>2, <2>1, <2>2
<1>8. PackingExact
  <2> SUFFICES ASSUME NEW r \in reply, Sound(r)
               PROVE  /\ PackedExactly(r, v.projected, MaxTiles)
                      /\ \A b \in v.backlog : PackedExactly(r, b.blocks, MaxBacklog)
    BY <1>1 DEF PackingExact
  <2>1. reply = {r} /\ IsReply(r)
    BY <1>2
  <2>2. /\ v.projected = Pending(r, MaxTiles) /\ v.backlog = {Backlog(r)}
        /\ PackedExactly(r, Pending(r, MaxTiles), MaxTiles)
        /\ PackedExactly(r, Pending(r, MaxBacklog), MaxBacklog)
    BY <1>3, <1>6, <2>1
  <2>3. Backlog(r).blocks = Pending(r, MaxBacklog)
    BY DEF Backlog
  <2> QED BY <2>2, <2>3
<1>9. DepthExact
  <2> SUFFICES ASSUME NEW r \in reply, NEW b \in v.backlog
               PROVE  /\ (b.depth + 1) * r.capacity >= r.txs
                      /\ b.depth > 0 => b.depth * r.capacity < r.txs
                      /\ Len(b.blocks) = Least(b.depth, MaxBacklog)
    BY <1>1 DEF DepthExact
  <2>1. reply = {r} /\ IsReply(r)
    BY <1>2
  <2>2. Sound(r)
    BY <1>1, <2>1 DEF Shows
  <2>3. b = Backlog(r)
    BY <1>6, <2>1, <2>2
  <2>4. b.depth = Depth(r) /\ b.blocks = Pending(r, MaxBacklog)
    BY <2>3 DEF Backlog
  <2>5. /\ (Depth(r) + 1) * r.capacity >= r.txs
        /\ Depth(r) > 0 => Depth(r) * r.capacity < r.txs
        /\ Len(Pending(r, MaxBacklog)) = Least(Depth(r), MaxBacklog)
    BY <1>3, <1>6, <2>1, <2>2
  <2> QED BY <2>4, <2>5
<1> QED BY <1>7, <1>8, <1>9
----
\* The samples of the backlog trend.

Samples == [at : Nat, pending : Nat, session : Nat]

\* The samples of session s up to time now, oldest first.
Observed(samples, instant, s) ==
  /\ samples \in Seq(Samples) /\ Len(samples) <= MaxSamples
  /\ \A i \in 1..Len(samples) : samples[i].session = s /\ samples[i].at <= instant
  /\ \A i, j \in 1..Len(samples) : i <= j => samples[i].at <= samples[j].at

\* Samples are of the type of samples.
LEMMA ObservedIsTyped ==
  ASSUME NEW samples, NEW instant, NEW s, Observed(samples, instant, s)
  PROVE  /\ Len(samples) \in Nat
         /\ \A i \in 1..Len(samples) : samples[i] \in Samples /\ samples[i].at \in Nat
<1>1. samples \in Seq(Samples)
  BY DEF Observed
<1>2. ASSUME NEW i \in 1..Len(samples) PROVE samples[i] \in Samples
  BY <1>1, ElementOfSeq
<1> QED BY <1>1, <1>2, LenProperties DEF Samples

\* One more sample, of now; the oldest goes when there are too many.
LEMMA SampleAdded ==
  ASSUME NEW samples, NEW instant \in Nat, NEW s, Observed(samples, instant, s),
         NEW x \in Samples, x.at = instant, x.session = s
  PROVE  Observed(Trimmed(Append(samples, x)), instant, s)
<1> DEFINE n == Len(samples)
           a == Append(samples, x)
<1>1. /\ samples \in Seq(Samples) /\ n <= MaxSamples /\ MaxSamples \in Nat
      /\ \A i \in 1..n : samples[i].session = s /\ samples[i].at <= instant
      /\ \A i, j \in 1..n : i <= j => samples[i].at <= samples[j].at
  BY MempoolViewAssumption DEF Observed
<1>2. n \in Nat /\ \A i \in 1..n : samples[i] \in Samples /\ samples[i].at \in Nat
  BY ObservedIsTyped
<1>3. a \in Seq(Samples) /\ Len(a) = n + 1 /\ a[n + 1] = x /\ \A i \in 1..n : a[i] = samples[i]
  BY <1>1
<1> HIDE DEF n, a
<1>4. \A i \in 1..(n + 1) : a[i].session = s /\ a[i].at <= instant /\ a[i].at \in Nat
  <2> TAKE i \in 1..(n + 1)
  <2>1. CASE i = n + 1
    BY <1>3, <2>1
  <2>2. CASE i # n + 1
    <3>1. i \in 1..n
      BY <1>2, <2>2
    <3> QED BY <1>1, <1>2, <1>3, <3>1
  <2> QED BY <2>1, <2>2
<1>5. \A i, j \in 1..(n + 1) : i <= j => a[i].at <= a[j].at
  <2> SUFFICES ASSUME NEW i \in 1..(n + 1), NEW j \in 1..(n + 1), i <= j
               PROVE  a[i].at <= a[j].at
    OBVIOUS
  <2>1. CASE j = n + 1
    BY <1>3, <1>4, <2>1
  <2>2. CASE j # n + 1
    <3>1. i \in 1..n /\ j \in 1..n
      BY <1>2, <2>2
    <3> QED BY <1>1, <1>3, <3>1
  <2> QED BY <2>1, <2>2
<1>6. CASE n + 1 <= MaxSamples
  <2>1. Trimmed(a) = a
    BY <1>1, <1>2, <1>3, <1>6 DEF Trimmed
  <2> QED BY <1>3, <1>4, <1>5, <1>6, <2>1 DEF Observed, a
<1>7. CASE ~ n + 1 <= MaxSamples
  <2>1. Trimmed(a) = Tail(a)
    BY <1>1, <1>2, <1>3, <1>7 DEF Trimmed
  <2> DEFINE t == Tail(a)
  <2>2. /\ t \in Seq(Samples) /\ Len(t) = n /\ \A i \in 1..n : t[i] = a[i + 1]
    BY <1>2, <1>3
  <2>3. \A i \in 1..n : i + 1 \in 1..(n + 1)
    BY <1>2
  <2>4. \A i, j \in 1..n : i <= j => i + 1 <= j + 1
    BY <1>2
  <2> HIDE DEF t
  <2>5. \A i \in 1..n : t[i].session = s /\ t[i].at <= instant
    BY <1>4, <2>2, <2>3
  <2>6. \A i, j \in 1..n : i <= j => t[i].at <= t[j].at
    BY <1>5, <2>2, <2>3, <2>4
  <2> QED BY <1>1, <2>1, <2>2, <2>5, <2>6 DEF Observed, a, t
<1> QED BY <1>6, <1>7

\* The oldest sample of the window and the newest of all make the trend.
LEMMA TrendIsObserved ==
  ASSUME Observed(history, clock, session), clock \in Nat
  PROVE  TrendObserved
<1> DEFINE n == Len(history)
<1>1. n \in Nat /\ \A i \in 1..n : history[i] \in Samples /\ history[i].at \in Nat
  BY ObservedIsTyped
<1>2. /\ \A i \in 1..n : history[i].session = session
      /\ \A i, j \in 1..n : i <= j => history[i].at <= history[j].at
  BY DEF Observed
<1>3. TrendSpan \in Nat
  BY MempoolViewAssumption
<1> SUFFICES ASSUME NEW t \in Trend
             PROVE  \E i, j \in 1..n :
                      /\ history[i].session = session /\ history[j].session = session
                      /\ history[j].at - history[i].at = t.span /\ t.span >= TrendSpan
                      /\ clock - history[i].at <= TrendWindow
                      /\ history[j].pending - history[i].pending = t.delta
                      /\ \A k \in 1..n : history[k].at <= history[j].at
  BY DEF TrendObserved
<1>4. InWindow # {}
  BY DEF Trend
<1> DEFINE i == CHOOSE i \in InWindow : \A j \in InWindow : i <= j
<1>5. i \in InWindow
  <2>1. InWindow \in SUBSET Nat
    BY <1>1 DEF InWindow
  <2>2. \E k \in InWindow : \A j \in InWindow : k <= j
    BY <1>4, <2>1, LeastNumber
  <2> QED BY <2>2
<1>6. i \in 1..n /\ clock - history[i].at <= TrendWindow
  BY <1>5 DEF InWindow
<1>7. /\ ~ (history[n].at - history[i].at < TrendSpan)
      /\ t = [delta |-> history[n].pending - history[i].pending,
              span |-> history[n].at - history[i].at]
  BY <1>4 DEF Trend
<1> HIDE DEF i, n
<1>8. n \in 1..n /\ \A k \in 1..n : k <= n
  BY <1>1, <1>6
<1>9. \A k \in 1..n : history[k].at <= history[n].at
  BY <1>2, <1>8
<1>10. t.span = history[n].at - history[i].at /\ t.delta = history[n].pending - history[i].pending
  BY <1>7
<1>11. t.span >= TrendSpan
  BY <1>1, <1>3, <1>6, <1>7, <1>8, <1>10
<1> QED BY <1>2, <1>6, <1>8, <1>9, <1>10, <1>11
----
\* The bars of the block-time graph.

\* A chain, newest block first, whose times are declared or not.
DeclaredTimes == 0..(U64 - 1) \union {NotANumber}
ChainBlock == [height : Nat, time : DeclaredTimes]
IsChain(c) ==
  /\ c \in Seq(ChainBlock)
  /\ \A i, j \in 1..Len(c) : i < j => c[j].height < c[i].height

\* The chains an event may carry are chains.
LEMMA ChainsAreChains ==
  ASSUME NEW c \in Chains
  PROVE  IsChain(c)
<1>1. Times \subseteq DeclaredTimes
  BY MempoolViewAssumption DEF Times, DeclaredTimes
<1>2. CASE c = <<>>
  BY <1>2, EmptySeq DEF IsChain
<1>3. ASSUME NEW t \in [1..5 -> Times], NEW h \in {2, 1},
             c = <<[height |-> 5, time |-> t[1]], [height |-> 4, time |-> t[2]],
                   [height |-> 3, time |-> t[3]], [height |-> h, time |-> t[4]],
                   [height |-> h - 1, time |-> t[5]]>>
      PROVE  IsChain(c)
  <2>1. \A i \in 1..5 : t[i] \in DeclaredTimes
    BY <1>1
  <2>2. /\ t[1] \in DeclaredTimes /\ t[2] \in DeclaredTimes /\ t[3] \in DeclaredTimes
        /\ t[4] \in DeclaredTimes /\ t[5] \in DeclaredTimes
    BY <2>1
  <2> DEFINE b1 == [height |-> 5, time |-> t[1]]
             b2 == [height |-> 4, time |-> t[2]]
             b3 == [height |-> 3, time |-> t[3]]
             b4 == [height |-> h, time |-> t[4]]
             b5 == [height |-> h - 1, time |-> t[5]]
  <2>3. b1 \in ChainBlock /\ b2 \in ChainBlock /\ b3 \in ChainBlock /\ b4 \in ChainBlock /\ b5 \in ChainBlock
    BY <2>2 DEF ChainBlock
  <2>4. /\ b1.height = 5 /\ b2.height = 4 /\ b3.height = 3 /\ b4.height = h /\ b5.height = h - 1
    OBVIOUS
  <2>5. c = <<b1, b2, b3, b4, b5>>
    BY <1>3
  <2> HIDE DEF b1, b2, b3, b4, b5
  <2>6. c \in Seq(ChainBlock) /\ Len(c) = 5
    BY <2>3, <2>5
  <2>7. c[1] = b1 /\ c[2] = b2 /\ c[3] = b3 /\ c[4] = b4 /\ c[5] = b5
    BY <2>5
  <2>8. ASSUME NEW i \in 1..5, NEW j \in 1..5, i < j PROVE c[j].height < c[i].height
    <3>1. \/ i = 1 /\ j \in {2, 3, 4, 5}
          \/ i = 2 /\ j \in {3, 4, 5}
          \/ i = 3 /\ j \in {4, 5}
          \/ i = 4 /\ j = 5
      BY <2>8
    <3> QED BY <2>4, <2>7, <3>1
  <2> QED BY <2>6, <2>8 DEF IsChain
<1> QED BY <1>2, <1>3 DEF Chains

\* The bar of block i of a chain, whose parent is the next one.
BarOf(c, i) == [height |-> c[i].height, interval |-> Interval(c[i].time, c[i + 1].time)]

\* The bars are those of the first of the pairs, last one first.
BarsOf(c, bars, N, m) ==
  /\ N = Cardinality(Pairs(c)) /\ N \in Nat /\ m \in Nat /\ m <= N
  /\ m = N \/ m = MaxBars
  /\ bars \in Seq([height : Nat, interval : SUBSET Int]) /\ Len(bars) = m
  /\ \A k \in 1..m : bars[k] = BarOf(c, Nth(Pairs(c), m + 1 - k))
  /\ \A n \in 1..N : /\ Nth(Pairs(c), n) \in Pairs(c) /\ Nth(Pairs(c), n) \in 1..(Len(c) - 1)
                     /\ Nth(Pairs(c), n) + 1 \in 1..Len(c)
  /\ \A n, j \in 1..N : n < j => Nth(Pairs(c), n) < Nth(Pairs(c), j)
  /\ \A i \in Pairs(c) : \E n \in 1..N : Nth(Pairs(c), n) = i

\* An interval is the difference of two declared times, if both are.
LEMMA IntervalsAreNumbers ==
  ASSUME NEW x \in DeclaredTimes, NEW y \in DeclaredTimes
  PROVE  /\ Interval(x, y) = IF x = NotANumber \/ y = NotANumber THEN {} ELSE {Saturated(x - y)}
         /\ Interval(x, y) \in SUBSET Int
         /\ \A n, k \in Interval(x, y) : n = k
<1>1. U64 \in Nat
  BY MempoolViewAssumption
<1>2. \A z \in DeclaredTimes : z \in Int /\ (IsNumber(z) <=> z # NotANumber)
  BY <1>1 DEF DeclaredTimes, IsNumber, NotANumber
<1>3. Interval(x, y) = IF x = NotANumber \/ y = NotANumber THEN {} ELSE {Saturated(x - y)}
  BY <1>2 DEF Interval
<1>4. Saturated(x - y) \in Int
  <2>1. U64 \div 2 \in Nat
    BY <1>1, Quotients
  <2>2. MaxSigned \in Int /\ MinSigned \in Int
    BY <2>1 DEF MaxSigned, MinSigned
  <2>3. x - y \in Int
    BY <1>2
  <2> QED BY <2>2, <2>3 DEF Saturated
<1> QED BY <1>3, <1>4

\* The bars drawn are those of the pairs.
LEMMA BarsAre ==
  ASSUME NEW c, IsChain(c)
  PROVE  \E N, m : BarsOf(c, Bars(c), N, m)
<1> DEFINE P == Pairs(c)
           L == Len(c)
           N == Cardinality(P)
           all == [n \in 1..N |-> BarOf(c, Nth(P, N + 1 - n))]
           from == Greatest(1, N - MaxBars + 1)
           m == Least(N, MaxBars)
           B == [height : Nat, interval : SUBSET Int]
<1>1. MaxBars \in Nat \ {0}
  BY MempoolViewAssumption
<1>2. L \in Nat /\ \A i \in 1..L : c[i].height \in Nat /\ c[i].time \in DeclaredTimes
  <2>1. c \in Seq(ChainBlock)
    BY DEF IsChain
  <2>2. ASSUME NEW i \in 1..L PROVE c[i] \in ChainBlock
    BY <2>1, ElementOfSeq
  <2> QED BY <2>1, <2>2, LenProperties DEF ChainBlock
<1>3. P \in SUBSET Nat /\ IsFiniteSet(P) /\ \A i \in P : i \in 1..(L - 1)
  <2>1. P \subseteq 1..(L - 1)
    BY DEF Pairs
  <2>2. IsFiniteSet(1..(L - 1))
    <3>1. 1 \in Int /\ L - 1 \in Int
      BY <1>2
    <3> HIDE DEF L
    <3> QED BY <3>1, FS_Interval
  <2> QED BY <1>2, <2>1, <2>2, FS_Subset
<1>4. \A i \in P : i + 1 \in 1..L /\ i \in 1..L
  BY <1>2, <1>3
<1> HIDE DEF P
<1>5. /\ N \in Nat
      /\ \A n \in 1..N : Nth(P, n) \in P
      /\ \A n, j \in 1..N : n < j => Nth(P, n) < Nth(P, j)
      /\ \A i \in P : \E n \in 1..N : Nth(P, n) = i
  BY <1>3, NthIs
<1>6. Bars(c) = SubSeq(all, Greatest(1, Len(all) - MaxBars + 1), Len(all))
  BY DEF Bars, BarOf, P
<1>7. ASSUME NEW i \in P PROVE BarOf(c, i) \in B
  <2>1. c[i].height \in Nat /\ c[i].time \in DeclaredTimes /\ c[i + 1].time \in DeclaredTimes
    BY <1>2, <1>4
  <2>2. Interval(c[i].time, c[i + 1].time) \in SUBSET Int
    BY <2>1, IntervalsAreNumbers
  <2> QED BY <2>1, <2>2 DEF BarOf
<1> HIDE DEF N, L, B
<1>8. \A n \in 1..N : N + 1 - n \in 1..N
  BY <1>5
<1>9. \A n \in 1..N : BarOf(c, Nth(P, N + 1 - n)) \in B
  BY <1>5, <1>7, <1>8
<1>10. all \in Seq(B) /\ Len(all) = N /\ \A n \in 1..N : all[n] = BarOf(c, Nth(P, N + 1 - n))
  BY <1>5, <1>9
<1>11. /\ m \in Nat /\ m <= N /\ (m = N \/ m = MaxBars)
       /\ from \in 1..(N + 1) /\ (N - from) + 1 = m
       /\ \A k \in 1..m : from - 1 + k \in 1..N /\ N + 1 - (from - 1 + k) = m + 1 - k
  BY <1>1, <1>5 DEF Least, Greatest
<1> HIDE DEF all, from, m
<1>12. Bars(c) = SubSeq(all, from, N)
  BY <1>6, <1>10 DEF from
<1>13. /\ Bars(c) \in Seq(B) /\ Len(Bars(c)) = m
       /\ \A k \in 1..m : Bars(c)[k] = all[from - 1 + k]
  <2>1. \A k \in from..N : all[k] \in B
    BY <1>5, <1>10, <1>11, ElementOfSeq
  <2>2. Len(SubSeq(all, from, N)) = m /\ \A k \in 1..m : SubSeq(all, from, N)[k] = all[from - 1 + k]
    BY <1>5, <1>10, <1>11
  <2>3. SubSeq(all, from, N) \in Seq(B)
    BY <1>5, <1>10, <1>11
  <2> QED BY <1>12, <2>2, <2>3
<1>14. \A k \in 1..m : Bars(c)[k] = BarOf(c, Nth(P, m + 1 - k))
  BY <1>10, <1>11, <1>13
<1>15. \A n \in 1..N : /\ Nth(P, n) \in P /\ Nth(P, n) \in 1..(L - 1) /\ Nth(P, n) + 1 \in 1..L
  BY <1>3, <1>4, <1>5 DEF L
<1>16. BarsOf(c, Bars(c), N, m)
  BY <1>5, <1>11, <1>13, <1>14, <1>15 DEF BarsOf, P, N, L, B
<1> QED BY <1>16
\* Heights of a chain say which block it is.
TimesAt(c, h) == {c[i].time : i \in {k \in 1..Len(c) : c[k].height = h}}

\* A height of a chain is that of one block.
LEMMA OneTimeEach ==
  ASSUME NEW c, IsChain(c)
  PROVE  /\ Len(c) \in Nat
         /\ \A i \in 1..Len(c) : /\ c[i].height \in Nat /\ c[i].time \in DeclaredTimes
                                 /\ TimesAt(c, c[i].height) = {c[i].time}
         /\ \A i, j \in 1..Len(c) : i < j => c[j].height < c[i].height
         /\ \A h \in Int : TimesAt(c, h) # {} => \E k \in 1..Len(c) : c[k].height = h
<1>1. /\ c \in Seq(ChainBlock)
      /\ \A i, j \in 1..Len(c) : i < j => c[j].height < c[i].height
  BY DEF IsChain
<1>2. Len(c) \in Nat /\ \A i \in 1..Len(c) : c[i].height \in Nat /\ c[i].time \in DeclaredTimes
  <2>1. ASSUME NEW i \in 1..Len(c) PROVE c[i] \in ChainBlock
    BY <1>1, ElementOfSeq
  <2> QED BY <1>1, <2>1, LenProperties DEF ChainBlock
<1>3. ASSUME NEW i \in 1..Len(c), NEW k \in 1..Len(c), c[k].height = c[i].height PROVE k = i
  <2>1. ~ (k < i) /\ ~ (i < k)
    BY <1>1, <1>2, <1>3
  <2> QED BY <1>2, <2>1
<1>4. ASSUME NEW i \in 1..Len(c) PROVE TimesAt(c, c[i].height) = {c[i].time}
  <2>1. {k \in 1..Len(c) : c[k].height = c[i].height} = {i}
    BY <1>3
  <2> QED BY <2>1 DEF TimesAt
<1>5. \A h \in Int : TimesAt(c, h) # {} => \E k \in 1..Len(c) : c[k].height = h
  BY DEF TimesAt
<1> QED BY <1>1, <1>2, <1>4, <1>5

BarsReal(c, bars) ==
  /\ \A i \in 1..Len(bars) :
        /\ TimesAt(c, bars[i].height - 1) # {}
        /\ \A a \in TimesAt(c, bars[i].height), b \in TimesAt(c, bars[i].height - 1) :
              IF a = NotANumber \/ b = NotANumber THEN bars[i].interval = {}
              ELSE bars[i].interval = {Saturated(a - b)}
  /\ \A i \in 2..Len(bars) : bars[i - 1].height < bars[i].height
  /\ \A i \in 1..(Len(c) - 1) :
        TimesAt(c, c[i].height - 1) # {} =>
            \/ c[i].height \in {bars[j].height : j \in 1..Len(bars)}
            \/ Len(bars) = MaxBars /\ c[i].height < bars[1].height

\* A bar is drawn for a block and its parent, for the newest of them.
LEMMA BarsAreReal ==
  ASSUME NEW c, IsChain(c), \A f \in flow : f.recent = c
  PROVE  IntervalsReal
<1> DEFINE bars == Bars(c)
           nth(n) == Nth(Pairs(c), n)
<1>1. PICK N, m : BarsOf(c, bars, N, m)
  BY BarsAre
<1> HIDE DEF bars
<1>2. /\ N \in Nat /\ m \in Nat /\ m <= N /\ (m = N \/ m = MaxBars)
      /\ Len(bars) = m
      /\ \A k \in 1..m : bars[k] = BarOf(c, nth(m + 1 - k))
      /\ \A n \in 1..N : nth(n) \in Pairs(c) /\ nth(n) \in 1..(Len(c) - 1) /\ nth(n) + 1 \in 1..Len(c)
      /\ \A n, j \in 1..N : n < j => nth(n) < nth(j)
      /\ \A i \in Pairs(c) : \E n \in 1..N : nth(n) = i
  BY <1>1 DEF BarsOf
<1>3. /\ Len(c) \in Nat
      /\ \A i \in 1..Len(c) : /\ c[i].height \in Nat /\ c[i].time \in DeclaredTimes
                              /\ TimesAt(c, c[i].height) = {c[i].time}
      /\ \A i, j \in 1..Len(c) : i < j => c[j].height < c[i].height
      /\ \A h \in Int : TimesAt(c, h) # {} => \E k \in 1..Len(c) : c[k].height = h
  BY OneTimeEach
<1>4. \A k \in 1..m : m + 1 - k \in 1..m /\ m + 1 - k \in 1..N
  BY <1>2
<1> HIDE DEF nth
<1>5. \A n \in 1..N : nth(n) \in 1..Len(c) /\ nth(n) + 1 \in 1..Len(c)
                       /\ c[nth(n) + 1].height + 1 = c[nth(n)].height
  BY <1>2, <1>3 DEF Pairs, IsParent
<1>6. \A k \in 1..m : /\ bars[k].height = c[nth(m + 1 - k)].height
                      /\ bars[k].interval = Interval(c[nth(m + 1 - k)].time, c[nth(m + 1 - k) + 1].time)
  <2> TAKE k \in 1..m
  <2> DEFINE i == nth(m + 1 - k)
  <2>1. bars[k] = BarOf(c, i)
    BY <1>2
  <2> HIDE DEF i
  <2>2. bars[k].height = c[i].height /\ bars[k].interval = Interval(c[i].time, c[i + 1].time)
    BY <2>1 DEF BarOf
  <2> QED BY <2>2 DEF i
<1>7. ASSUME NEW k \in 1..m
      PROVE  /\ TimesAt(c, bars[k].height - 1) # {}
             /\ \A a \in TimesAt(c, bars[k].height), b \in TimesAt(c, bars[k].height - 1) :
                  IF a = NotANumber \/ b = NotANumber THEN bars[k].interval = {}
                  ELSE bars[k].interval = {Saturated(a - b)}
  <2> DEFINE i == nth(m + 1 - k)
  <2>1. /\ i \in 1..Len(c) /\ i + 1 \in 1..Len(c) /\ c[i + 1].height + 1 = c[i].height
        /\ bars[k].height = c[i].height /\ bars[k].interval = Interval(c[i].time, c[i + 1].time)
    BY <1>4, <1>5, <1>6
  <2> HIDE DEF i
  <2>2. /\ c[i].height \in Nat /\ c[i + 1].height \in Nat
        /\ c[i].time \in DeclaredTimes /\ c[i + 1].time \in DeclaredTimes
    BY <1>3, <2>1
  <2>3. bars[k].height - 1 = c[i + 1].height
    BY <2>1, <2>2
  <2>4. TimesAt(c, bars[k].height) = {c[i].time} /\ TimesAt(c, bars[k].height - 1) = {c[i + 1].time}
    BY <1>3, <2>1, <2>3
  <2>5. bars[k].interval = IF c[i].time = NotANumber \/ c[i + 1].time = NotANumber THEN {}
                           ELSE {Saturated(c[i].time - c[i + 1].time)}
    BY <2>1, <2>2, IntervalsAreNumbers
  <2> QED BY <2>4, <2>5
<1>8. ASSUME NEW k \in 2..m PROVE bars[k - 1].height < bars[k].height
  <2>1. /\ k \in 1..m /\ k - 1 \in 1..m /\ m + 1 - k \in 1..N /\ m + 1 - (k - 1) \in 1..N
        /\ m + 1 - k < m + 1 - (k - 1)
    BY <1>2
  <2>2. nth(m + 1 - k) < nth(m + 1 - (k - 1))
    BY <1>2, <2>1
  <2> QED BY <1>3, <1>5, <1>6, <2>1, <2>2
<1> DEFINE barred == {bars[k].height : k \in 1..m}
<1>9. ASSUME NEW i \in 1..(Len(c) - 1), TimesAt(c, c[i].height - 1) # {}
      PROVE  c[i].height \in barred \/ (m = MaxBars /\ c[i].height < bars[1].height)
  <2>1. i \in 1..Len(c) /\ i + 1 \in 1..Len(c) /\ c[i].height \in Nat
    BY <1>3
  <2>2. PICK k \in 1..Len(c) : c[k].height = c[i].height - 1
    BY <1>9 DEF TimesAt
  <2>3. ~ (k < i) /\ k # i
    BY <1>3, <2>1, <2>2
  <2>4. ~ (i + 1 < k)
    <3> SUFFICES ASSUME i + 1 < k PROVE FALSE
      OBVIOUS
    <3>1. c[k].height < c[i + 1].height /\ c[i + 1].height < c[i].height
      BY <1>3, <2>1
    <3> QED BY <1>3, <2>1, <2>2, <3>1
  <2>5. k = i + 1
    BY <1>3, <2>3, <2>4
  <2>6. i \in Pairs(c)
    <3>1. c[i + 1].height + 1 = c[i].height
      BY <1>3, <2>1, <2>2, <2>5
    <3> QED BY <3>1 DEF Pairs, IsParent
  <2>7. PICK n \in 1..N : nth(n) = i
    BY <1>2, <2>6
  <2>8. CASE n <= m
    <3>1. m + 1 - n \in 1..m /\ m + 1 - (m + 1 - n) = n
      BY <1>2, <2>8
    <3>2. bars[m + 1 - n].height = c[i].height
      BY <1>6, <2>7, <3>1
    <3> QED BY <3>1, <3>2
  <2>9. CASE ~ n <= m
    <3>1. m = MaxBars /\ m < n
      BY <1>2, <2>9
    <3>2. m \in 1..N /\ 1 \in 1..m /\ m + 1 - 1 = m
      BY <1>2, <3>1, MempoolViewAssumption
    <3>3. nth(m) < i
      BY <1>2, <2>7, <3>1, <3>2
    <3>4. bars[1].height = c[nth(m)].height
      BY <1>6, <3>2
    <3> QED BY <1>3, <1>5, <2>1, <3>1, <3>2, <3>3, <3>4
  <2> QED BY <1>2, <2>8, <2>9
<1>10. barred = {bars[k].height : k \in 1..Len(bars)}
  BY <1>2
<1> HIDE DEF barred
<1>11. BarsReal(c, bars)
  BY <1>2, <1>7, <1>8, <1>9, <1>10 DEF BarsReal
<1>12. ASSUME NEW f \in flow PROVE BarsReal(f.recent, Bars(f.recent))
  BY <1>11 DEF bars
<1> QED BY <1>12 DEF IntervalsReal, BarsReal, TimesAt
----
\* The median and the mean.

\* A quotient that rounds towards zero lies between what bounds the exact one.
LEMMA NaturalQuotientBetween ==
  ASSUME NEW n \in Nat, NEW m \in Nat, m # 0, NEW a \in Int, NEW b \in Int, m * a <= n, n <= m * b
  PROVE  n \div m \in Nat /\ a <= n \div m /\ n \div m <= b
<1> DEFINE q == n \div m
           r == n % m
<1>1. q \in Nat /\ r \in Nat /\ r < m /\ n = m * q + r
  BY Quotients
<1> HIDE DEF q, r
<1>2. a <= q
  <2> SUFFICES ASSUME ~ a <= q PROVE FALSE
    OBVIOUS
  <2> DEFINE d == a - q - 1
             e == m * d
  <2>1. d \in Nat /\ a = q + 1 + d
    BY <1>1
  <2>2. e \in Nat
    BY <2>1, Products
  <2>3. m * a = m * q + m + e
    BY <1>1, <2>1
  <2>4. m * q \in Nat
    BY <1>1, Products
  <2> DEFINE x == m * q
             y == m * a
  <2> HIDE DEF d, e, x, y
  <2>5. x \in Nat /\ y = x + m + e /\ y <= n /\ n = x + r
    BY <1>1, <2>3, <2>4 DEF x, y
  <2> QED BY <1>1, <2>2, <2>5
<1>3. q <= b
  <2> SUFFICES ASSUME ~ q <= b PROVE FALSE
    OBVIOUS
  <2> DEFINE d == q - b - 1
             e == m * d
  <2>1. d \in Nat /\ q = b + 1 + d
    BY <1>1
  <2>2. e \in Nat
    BY <2>1, Products
  <2>3. m * q = m * b + m + e
    BY <1>1, <2>1
  <2>4. m * b \in Int
    OBVIOUS
  <2> DEFINE x == m * b
             y == m * q
  <2> HIDE DEF d, e, x, y
  <2>5. x \in Int /\ y = x + m + e /\ n <= x /\ n = y + r
    BY <1>1, <2>3, <2>4 DEF x, y
  <2> QED BY <1>1, <2>2, <2>5
<1> QED BY <1>1, <1>2, <1>3 DEF q

\* The same of a number below zero.
LEMMA QuotientBetween ==
  ASSUME NEW n \in Int, NEW m \in Nat, m # 0, NEW a \in Int, NEW b \in Int, m * a <= n, n <= m * b
  PROVE  a <= Quotient(n, m) /\ Quotient(n, m) <= b
<1>1. CASE n >= 0
  <2>1. n \in Nat /\ Quotient(n, m) = n \div m
    BY <1>1 DEF Quotient
  <2> QED BY <2>1, NaturalQuotientBetween
<1>2. CASE n < 0
  <2>1. -n \in Nat /\ -a \in Int /\ -b \in Int /\ Quotient(n, m) = -((-n) \div m)
    BY <1>2 DEF Quotient
  <2>2. m * (-b) <= -n /\ -n <= m * (-a)
    <3>1. m * (-b) = -(m * b) /\ m * (-a) = -(m * a) /\ m * a \in Int /\ m * b \in Int
      OBVIOUS
    <3> DEFINE x == m * a
               y == m * b
    <3> HIDE DEF x, y
    <3>2. x \in Int /\ y \in Int /\ x <= n /\ n <= y /\ m * (-b) = -y /\ m * (-a) = -x
      BY <3>1 DEF x, y
    <3> QED BY <3>2
  <2>3. (-n) \div m \in Nat /\ -b <= (-n) \div m /\ (-n) \div m <= -a
    BY <2>1, <2>2, NaturalQuotientBetween
  <2> QED BY <2>1, <2>3
<1> QED BY <1>1, <1>2

\* The known intervals of bars, in the order that Sorted puts them in.
IsBars(bars) ==
  /\ Known(bars) \in SUBSET Nat /\ IsFiniteSet(Known(bars))
  /\ \A i \in Known(bars) : At(bars, i) \in Int /\ bars[i].interval = {At(bars, i)}
Order(bars) ==
  {p \in Known(bars) \X Known(bars) :
     \/ At(bars, p[1]) < At(bars, p[2])
     \/ At(bars, p[1]) = At(bars, p[2]) /\ p[1] <= p[2]}
UpTo(bars, n) == {i \in Known(bars) : At(bars, i) <= n}
Beyond(bars, n) == {i \in Known(bars) : At(bars, i) >= n}

\* At least n of the intervals are at most the n-th, the rest at least that.
InOrder(bars, s, K) ==
  /\ K = Cardinality(Known(bars)) /\ K \in Nat /\ Len(s) = K
  /\ \A n \in 1..K : /\ s[n] \in Int
                     /\ Cardinality(UpTo(bars, s[n])) >= n
                     /\ Cardinality(Beyond(bars, s[n])) >= K + 1 - n
  /\ \A n, m \in 1..K : n <= m => s[n] <= s[m]
  /\ \A n \in Int : /\ IsFiniteSet(UpTo(bars, n)) /\ Cardinality(UpTo(bars, n)) \in Nat
                    /\ IsFiniteSet(Beyond(bars, n)) /\ Cardinality(Beyond(bars, n)) \in Nat

\* Sorted puts the known intervals in order.
LEMMA SortedIs ==
  ASSUME NEW bars, IsBars(bars)
  PROVE  InOrder(bars, Sorted(bars), Cardinality(Known(bars)))
<1> DEFINE S == Known(bars)
           R == Order(bars)
           K == Cardinality(S)
           value == [i \in S |-> At(bars, i)]
           nth(n) == CHOOSE i \in S : Rank(R, S, i) = n
           s == Sorted(bars)
<1>1. S \in SUBSET Nat /\ IsFiniteSet(S) /\ \A i \in S : value[i] = At(bars, i) /\ value[i] \in Int
  BY DEF IsBars
<1>2. \A x, y \in S : <<x, y>> \in R <=> (value[x] < value[y] \/ (value[x] = value[y] /\ x <= y))
  BY DEF Order
<1> DEFINE of(i) == {j \in S : At(bars, j) < At(bars, i) \/ (At(bars, j) = At(bars, i) /\ j <= i)}
           first(n) == CHOOSE i \in S : Cardinality(of(i)) = n
<1>3. s = [n \in 1..K |-> At(bars, first(n))]
  BY DEF Sorted
<1>4. \A n : first(n) = nth(n)
  <2>1. \A i \in S : Through(R, S, i) = of(i)
    BY DEF Through, Order
  <2>2. \A i \in S : Rank(R, S, i) = Cardinality(of(i))
    BY <2>1 DEF Rank
  <2> HIDE DEF of, R, S
  <2> QED BY <2>2
<1> HIDE DEF S, R, value, nth, K, s, first, of
<1>5. TotalOrder(R, S)
  <2>1. \A x \in S : x \in Nat /\ value[x] \in Int
    BY <1>1
  <2>2. ASSUME NEW x \in S, NEW y \in S PROVE <<x, y>> \in R \/ <<y, x>> \in R
    <3>1. /\ <<x, y>> \in R <=> (value[x] < value[y] \/ (value[x] = value[y] /\ x <= y))
          /\ <<y, x>> \in R <=> (value[y] < value[x] \/ (value[y] = value[x] /\ y <= x))
      BY <1>2
    <3> DEFINE p == value[x]
               q == value[y]
    <3> HIDE DEF p, q
    <3>2. x \in Nat /\ y \in Nat /\ p \in Int /\ q \in Int
      BY <2>1 DEF p, q
    <3>3. (p < q \/ (p = q /\ x <= y)) \/ (q < p \/ (q = p /\ y <= x))
      BY <3>2
    <3> QED BY <3>1, <3>3 DEF p, q
  <2>3. \A x, y \in S : <<x, y>> \in R /\ <<y, x>> \in R => x = y
    BY <1>1, <1>2, <2>1
  <2>4. \A x, y, z \in S : <<x, y>> \in R /\ <<y, z>> \in R => <<x, z>> \in R
    BY <1>1, <1>2, <2>1
  <2> QED BY <2>2, <2>3, <2>4 DEF TotalOrder
<1>6. Counted(R, S)
  BY <1>1, <1>5, RankIs
<1>7. /\ K \in Nat
      /\ \A i \in S : IsFiniteSet(Through(R, S, i))
      /\ \A i, j \in S : Rank(R, S, i) <= Rank(R, S, j) => <<i, j>> \in R
      /\ \A n \in 1..K : \E i \in S : Rank(R, S, i) = n
  BY <1>6 DEF Counted, K
<1>8. \A x, y \in S : <<x, y>> \in R => value[x] <= value[y]
  <2> SUFFICES ASSUME NEW x \in S, NEW y \in S, <<x, y>> \in R PROVE value[x] <= value[y]
    OBVIOUS
  <2>1. value[x] \in Int /\ value[y] \in Int /\ (value[x] < value[y] \/ (value[x] = value[y] /\ x <= y))
    BY <1>1, <1>2
  <2> QED BY <2>1
<1> DEFINE w == [n \in 1..K |-> nth(n)]
<1>9. \A n \in 1..K : w[n] \in S /\ Rank(R, S, w[n]) = n
  <2>1. \A n \in 1..K : nth(n) \in S /\ Rank(R, S, nth(n)) = n
    BY <1>7 DEF nth
  <2> QED BY <2>1
<1>10. s = [n \in 1..K |-> value[w[n]]]
  <2>1. ASSUME NEW n \in 1..K PROVE At(bars, first(n)) = value[w[n]]
    <3>1. first(n) = nth(n) /\ w[n] = nth(n)
      BY <1>4
    <3> QED BY <1>1, <1>9, <3>1
  <2> QED BY <1>3, <2>1
<1> HIDE DEF w
<1>11. Len(s) = K /\ \A n \in 1..K : s[n] = value[w[n]] /\ s[n] \in Int
  <2>1. \A n \in 1..K : value[w[n]] \in Int
    BY <1>1, <1>9
  <2>2. [n \in 1..K |-> value[w[n]]] \in Seq(Int) /\ Len([n \in 1..K |-> value[w[n]]]) = K
    BY <1>7, <2>1
  <2>3. \A n \in 1..K : s[n] = value[w[n]]
    BY <1>10
  <2> QED BY <1>10, <2>1, <2>2, <2>3
<1>12. \A n, m \in 1..K : n <= m => s[n] <= s[m]
  <2> SUFFICES ASSUME NEW n \in 1..K, NEW m \in 1..K, n <= m PROVE s[n] <= s[m]
    OBVIOUS
  <2>1. <<w[n], w[m]>> \in R
    BY <1>7, <1>9
  <2>2. value[w[n]] <= value[w[m]]
    BY <1>9, <1>8, <2>1
  <2> QED BY <1>11, <2>2
<1>13. \A n \in Int : /\ IsFiniteSet(UpTo(bars, n)) /\ Cardinality(UpTo(bars, n)) \in Nat
                      /\ IsFiniteSet(Beyond(bars, n)) /\ Cardinality(Beyond(bars, n)) \in Nat
  <2>1. \A n \in Int : UpTo(bars, n) \subseteq S /\ Beyond(bars, n) \subseteq S
    BY DEF UpTo, Beyond, S
  <2> QED BY <1>1, <2>1, FS_Subset, FS_CardinalityType
<1>14. ASSUME NEW n \in 1..K PROVE Cardinality(UpTo(bars, s[n])) >= n
  <2>1. Through(R, S, w[n]) \subseteq UpTo(bars, s[n])
    <3> SUFFICES ASSUME NEW j \in Through(R, S, w[n]) PROVE j \in UpTo(bars, s[n])
      OBVIOUS
    <3>1. j \in S /\ <<j, w[n]>> \in R
      BY DEF Through
    <3>2. value[j] <= value[w[n]]
      BY <1>9, <1>8, <3>1
    <3> QED BY <1>1, <1>9, <1>11, <3>1, <3>2 DEF UpTo, S
  <2>2. Cardinality(Through(R, S, w[n])) = n
    BY <1>9 DEF Rank
  <2> QED BY <1>11, <1>13, <2>1, <2>2, FS_Subset
<1>15. ASSUME NEW n \in 1..K PROVE Cardinality(Beyond(bars, s[n])) >= K + 1 - n
  <2> DEFINE i == w[n]
             T == Through(R, S, i)
             A == (S \ T) \union {i}
  <2>1. i \in S /\ Cardinality(T) = n /\ IsFiniteSet(T)
    BY <1>7, <1>9 DEF Rank
  <2>2. T \subseteq S /\ i \in T
    <3>1. <<i, i>> \in R
      BY <1>5, <2>1 DEF TotalOrder
    <3> QED BY <2>1, <3>1 DEF Through
  <2> HIDE DEF i, T
  <2>3. IsFiniteSet(S \ T) /\ Cardinality(S \ T) = K - n
    <3>1. S \cap T = T
      BY <2>2
    <3> QED BY <1>1, <2>1, <3>1, FS_Difference DEF K
  <2>4. IsFiniteSet(A) /\ Cardinality(A) = (K - n) + 1
    <3>1. i \notin S \ T
      BY <2>2
    <3> QED BY <2>3, <3>1, FS_AddElement
  <2>5. A \subseteq Beyond(bars, s[n])
    <3> SUFFICES ASSUME NEW j \in A PROVE j \in Beyond(bars, s[n])
      OBVIOUS
    <3>1. j \in S /\ <<i, j>> \in R
      <4>1. CASE j = i
        BY <1>5, <2>1, <4>1 DEF TotalOrder
      <4>2. CASE j # i
        <5>1. j \in S /\ j \notin T
          BY <4>2
        <5>2. ~ <<j, i>> \in R
          BY <5>1 DEF T, Through
        <5> QED BY <1>5, <2>1, <5>1, <5>2 DEF TotalOrder
      <4> QED BY <4>1, <4>2
    <3>2. value[i] <= value[j]
      BY <1>8, <2>1, <3>1
    <3>3. s[n] = value[i] /\ value[j] \in Int /\ value[i] \in Int
      BY <1>1, <1>11, <2>1, <3>1 DEF i
    <3>4. value[j] >= s[n]
      BY <3>2, <3>3
    <3> QED BY <1>1, <3>1, <3>4 DEF Beyond, S
  <2> HIDE DEF A
  <2>6. Cardinality(A) <= Cardinality(Beyond(bars, s[n]))
    BY <1>11, <1>13, <2>5, FS_Subset
  <2> QED BY <1>7, <1>11, <1>13, <2>4, <2>6
<1>16. InOrder(bars, s, K)
  BY <1>7, <1>11, <1>12, <1>13, <1>14, <1>15 DEF InOrder, K, S
<1> QED BY <1>16 DEF K, S, s
\* More of them are at most more, and at least less.
LEMMA WiderHoldsMore ==
  ASSUME NEW bars, IsBars(bars), NEW a \in Int, NEW b \in Int, a <= b
  PROVE  /\ UpTo(bars, a) \subseteq UpTo(bars, b) /\ Beyond(bars, b) \subseteq Beyond(bars, a)
         /\ Cardinality(UpTo(bars, a)) <= Cardinality(UpTo(bars, b))
         /\ Cardinality(Beyond(bars, b)) <= Cardinality(Beyond(bars, a))
<1>1. IsFiniteSet(Known(bars)) /\ \A i \in Known(bars) : At(bars, i) \in Int
  BY DEF IsBars
<1>2. UpTo(bars, a) \subseteq UpTo(bars, b) /\ Beyond(bars, b) \subseteq Beyond(bars, a)
  BY <1>1 DEF UpTo, Beyond
<1>3. UpTo(bars, b) \subseteq Known(bars) /\ Beyond(bars, a) \subseteq Known(bars)
  BY DEF UpTo, Beyond
<1>4. IsFiniteSet(UpTo(bars, b)) /\ IsFiniteSet(Beyond(bars, a))
  BY <1>1, <1>3, FS_Subset
<1> QED BY <1>2, <1>4, FS_Subset

\* The middle of an even number of intervals lies between the two middle ones.
LEMMA MedianOfBars ==
  ASSUME NEW bars, IsBars(bars), NEW s, NEW K, InOrder(bars, s, K), K # 0
  PROVE  /\ Median(s) \in Int
         /\ 2 * Cardinality(UpTo(bars, Median(s))) >= K
         /\ 2 * Cardinality(Beyond(bars, Median(s))) >= K
<1> DEFINE q == K \div 2
<1>1. /\ K \in Nat /\ Len(s) = K
      /\ \A n \in 1..K : /\ s[n] \in Int
                         /\ Cardinality(UpTo(bars, s[n])) >= n
                         /\ Cardinality(Beyond(bars, s[n])) >= K + 1 - n
      /\ \A n, m \in 1..K : n <= m => s[n] <= s[m]
      /\ \A n \in Int : /\ IsFiniteSet(UpTo(bars, n)) /\ Cardinality(UpTo(bars, n)) \in Nat
                        /\ IsFiniteSet(Beyond(bars, n)) /\ Cardinality(Beyond(bars, n)) \in Nat
  BY DEF InOrder
<1>2. q \in Nat /\ (K = 2 * q \/ K = 2 * q + 1) /\ (K % 2 = 1 <=> K = 2 * q + 1)
  <2> DEFINE r == K % 2
  <2>1. q \in Nat /\ r \in Nat /\ r < 2 /\ K = 2 * q + r
    <3>1. 2 \in Nat /\ 2 # 0
      OBVIOUS
    <3> QED BY <1>1, <3>1, Quotients
  <2> HIDE DEF q, r
  <2>2. r = 0 \/ r = 1
    BY <2>1
  <2>3. (K = 2 * q \/ K = 2 * q + 1) /\ (r = 1 <=> K = 2 * q + 1)
    BY <2>1, <2>2
  <2> QED BY <2>1, <2>3 DEF r
<1>3. Median(s) = IF K % 2 = 1 THEN s[q + 1] ELSE Quotient(s[q] + s[q + 1], 2)
  BY <1>1 DEF Median
<1> HIDE DEF q
<1>4. CASE K = 2 * q + 1
  <2>1. Median(s) = s[q + 1] /\ q + 1 \in 1..K
    BY <1>2, <1>3, <1>4
  <2> DEFINE a == s[q + 1]
             x == Cardinality(UpTo(bars, a))
             y == Cardinality(Beyond(bars, a))
  <2>2. a \in Int /\ x \in Nat /\ y \in Nat /\ x >= q + 1 /\ y >= K + 1 - (q + 1)
    BY <1>1, <2>1
  <2> HIDE DEF x, y, a
  <2>3. 2 * x >= K /\ 2 * y >= K
    BY <1>2, <1>4, <2>2
  <2> QED BY <2>1, <2>2, <2>3 DEF x, y, a
<1>5. CASE K # 2 * q + 1
  <2> DEFINE lo == s[q]
             hi == s[q + 1]
             a == Median(s)
  <2>1. q \in 1..K /\ q + 1 \in 1..K /\ q <= q + 1 /\ K = 2 * q
    <3>1. K = 2 * q /\ q \in Nat /\ K \in Nat /\ K # 0
      BY <1>1, <1>2, <1>5
    <3> QED BY <3>1
  <2>2. lo \in Int /\ hi \in Int /\ lo <= hi
    BY <1>1, <2>1
  <2>3. a = Quotient(lo + hi, 2)
    BY <1>2, <1>3, <1>5
  <2> HIDE DEF lo, hi, a
  <2>4. lo + hi \in Int /\ 2 * lo <= lo + hi /\ lo + hi <= 2 * hi /\ 2 \in Nat /\ 2 # 0
    BY <2>2
  <2>5. lo <= a /\ a <= hi /\ a \in Int
    <3>1. lo <= a /\ a <= hi
      BY <2>2, <2>3, <2>4, QuotientBetween
    <3>2. a \in Int
      BY <2>3, <2>4 DEF Quotient
    <3> QED BY <3>1, <3>2
  <2> DEFINE x == Cardinality(UpTo(bars, a))
             y == Cardinality(Beyond(bars, a))
  <2>6. x \in Nat /\ y \in Nat /\ x >= q /\ y >= K + 1 - (q + 1)
    <3> DEFINE x0 == Cardinality(UpTo(bars, lo))
               y0 == Cardinality(Beyond(bars, hi))
    <3>1. x0 <= x /\ y0 <= y
      BY <2>2, <2>5, WiderHoldsMore
    <3>2. x0 \in Nat /\ x0 >= q /\ y0 \in Nat /\ y0 >= K + 1 - (q + 1)
      BY <1>1, <2>1, <2>2 DEF lo, hi
    <3>3. x \in Nat /\ y \in Nat
      BY <1>1, <2>5
    <3> HIDE DEF x, y, x0, y0
    <3> QED BY <1>1, <1>2, <3>1, <3>2, <3>3
  <2> HIDE DEF x, y
  <2>7. 2 * x >= K /\ 2 * y >= K
    BY <1>1, <1>2, <2>1, <2>6
  <2> QED BY <2>5, <2>7 DEF x, y, a
<1> QED BY <1>4, <1>5

\* The mean lies between the first and the last of them.
LEMMA MeanOfBars ==
  ASSUME NEW bars, IsBars(bars), NEW s, NEW K, InOrder(bars, s, K), K # 0
  PROVE  LET mean == Quotient(Total(s), Len(s)) IN
         UpTo(bars, mean) # {} /\ Beyond(bars, mean) # {}
<1> DEFINE sum == SumTo(s, K)
           mean == Quotient(sum, K)
           lo == s[1]
           hi == s[K]
<1>1. /\ K \in Nat /\ Len(s) = K
      /\ \A n \in 1..K : /\ s[n] \in Int
                         /\ Cardinality(UpTo(bars, s[n])) >= n
                         /\ Cardinality(Beyond(bars, s[n])) >= K + 1 - n
      /\ \A n, m \in 1..K : n <= m => s[n] <= s[m]
      /\ \A n \in Int : /\ IsFiniteSet(UpTo(bars, n)) /\ Cardinality(UpTo(bars, n)) \in Nat
                        /\ IsFiniteSet(Beyond(bars, n)) /\ Cardinality(Beyond(bars, n)) \in Nat
  BY DEF InOrder
<1>2. 1 \in 1..K /\ K \in 1..K
  BY <1>1
<1>3. lo \in Int /\ hi \in Int /\ \A n \in 1..K : s[n] \in Int /\ lo <= s[n] /\ s[n] <= hi
  <2>1. \A n \in 1..K : n \in Int /\ 1 <= n /\ n <= K
    BY <1>1
  <2>2. \A n \in 1..K : s[n] \in Int /\ s[1] <= s[n] /\ s[n] <= s[K]
    BY <1>1, <1>2, <2>1
  <2> QED BY <1>2, <2>2
<1> HIDE DEF lo, hi
<1>4. sum \in Int /\ K * lo <= sum /\ sum <= K * hi
  BY <1>1, <1>3, SumBetween
<1> HIDE DEF sum
<1>5. lo <= mean /\ mean <= hi
  BY <1>1, <1>3, <1>4, QuotientBetween
<1>6. mean \in Int
  <2>1. CASE sum < 0
    <3>1. -sum \in Nat
      BY <1>4, <2>1
    <3>2. (-sum) \div K \in Nat
      BY <1>1, <3>1, Quotients
    <3> QED BY <2>1, <3>2 DEF Quotient
  <2>2. CASE ~ sum < 0
    <3>1. sum \in Nat
      BY <1>4, <2>2
    <3>2. sum \div K \in Nat
      BY <1>1, <3>1, Quotients
    <3> QED BY <2>2, <3>2 DEF Quotient
  <2> QED BY <2>1, <2>2
<1>7. Quotient(Total(s), Len(s)) = mean
  BY <1>1 DEF Total, sum
<1> HIDE DEF mean
<1>8. UpTo(bars, lo) # {} /\ Beyond(bars, hi) # {}
  <2>1. Cardinality(UpTo(bars, lo)) >= 1 /\ Cardinality(Beyond(bars, hi)) >= 1
    <3>1. Cardinality(Beyond(bars, hi)) >= K + 1 - K
      BY <1>1, <1>2 DEF hi
    <3> QED BY <1>1, <1>2, <3>1 DEF lo
  <2> QED BY <2>1, FS_EmptySet
<1>9. UpTo(bars, lo) \subseteq UpTo(bars, mean) /\ Beyond(bars, hi) \subseteq Beyond(bars, mean)
  BY <1>3, <1>5, <1>6, WiderHoldsMore
<1> QED BY <1>7, <1>8, <1>9

\* The known intervals of the bars of a chain are numbers, one to a bar.
LEMMA BarsAreBars ==
  ASSUME NEW c, IsChain(c)
  PROVE  IsBars(Bars(c))
<1> DEFINE bars == Bars(c)
<1>1. PICK N, m : BarsOf(c, bars, N, m)
  BY BarsAre
<1> HIDE DEF bars
<1>2. m \in Nat /\ m <= N /\ N \in Nat /\ Len(bars) = m
  BY <1>1 DEF BarsOf
<1>3. Known(bars) \subseteq 1..m
  BY <1>2 DEF Known
<1>4. Known(bars) \in SUBSET Nat /\ IsFiniteSet(Known(bars))
  <2>1. IsFiniteSet(1..m)
    BY <1>2, FS_Interval
  <2> QED BY <1>2, <1>3, <2>1, FS_Subset
<1>5. ASSUME NEW k \in Known(bars) PROVE At(bars, k) \in Int /\ bars[k].interval = {At(bars, k)}
  <2>1. k \in 1..m /\ m + 1 - k \in 1..N /\ bars[k].interval # {}
    BY <1>2, <1>3 DEF Known
  <2> DEFINE i == Nth(Pairs(c), m + 1 - k)
  <2>2. i \in 1..(Len(c) - 1) /\ i + 1 \in 1..Len(c) /\ bars[k] = BarOf(c, i)
    BY <1>1, <2>1 DEF BarsOf
  <2> HIDE DEF i
  <2>3. c[i].time \in DeclaredTimes /\ c[i + 1].time \in DeclaredTimes
    <3>1. Len(c) \in Nat /\ \A j \in 1..Len(c) : c[j].time \in DeclaredTimes
      BY OneTimeEach
    <3> QED BY <2>2, <3>1
  <2>4. bars[k].interval = Interval(c[i].time, c[i + 1].time)
    BY <2>2 DEF BarOf
  <2>5. bars[k].interval \in SUBSET Int /\ \A x, y \in bars[k].interval : x = y
    BY <2>3, <2>4, IntervalsAreNumbers
  <2> QED BY <2>1, <2>5 DEF At
<1> QED BY <1>4, <1>5 DEF IsBars, bars

\* Median and mean of the bars of a chain.
LEMMA MediansAreMiddle ==
  ASSUME NEW c, IsChain(c), \A f \in flow : f.recent = c
  PROVE  MedianIsMiddle
<1> SUFFICES ASSUME NEW f \in flow
             PROVE  /\ (Known(Bars(f.recent)) = {}) = (Stats(Bars(f.recent)) = {})
                    /\ \A s \in Stats(Bars(f.recent)) :
                          /\ 2 * Cardinality({i \in Known(Bars(f.recent)) :
                                               \E x \in Bars(f.recent)[i].interval : x <= s.median})
                               >= Cardinality(Known(Bars(f.recent)))
                          /\ 2 * Cardinality({i \in Known(Bars(f.recent)) :
                                               \E x \in Bars(f.recent)[i].interval : x >= s.median})
                               >= Cardinality(Known(Bars(f.recent)))
                          /\ {i \in Known(Bars(f.recent)) :
                                \E x \in Bars(f.recent)[i].interval : x <= s.mean} # {}
                          /\ {i \in Known(Bars(f.recent)) :
                                \E x \in Bars(f.recent)[i].interval : x >= s.mean} # {}
  BY DEF MedianIsMiddle, Known
<1> DEFINE bars == Bars(f.recent)
           known == Sorted(bars)
           K == Cardinality(Known(bars))
<1>1. IsBars(bars)
  BY BarsAreBars
<1> HIDE DEF bars
<1>2. InOrder(bars, known, K)
  BY <1>1, SortedIs
<1>3. \A n : /\ {i \in Known(bars) : \E x \in bars[i].interval : x <= n} = UpTo(bars, n)
             /\ {i \in Known(bars) : \E x \in bars[i].interval : x >= n} = Beyond(bars, n)
  <2>1. \A i \in Known(bars) : bars[i].interval = {At(bars, i)}
    BY <1>1 DEF IsBars
  <2> QED BY <2>1 DEF UpTo, Beyond
<1>4. (Known(bars) = {}) = (Stats(bars) = {})
  BY DEF Stats
<1>5. ASSUME NEW s \in Stats(bars)
      PROVE  /\ 2 * Cardinality(UpTo(bars, s.median)) >= K
             /\ 2 * Cardinality(Beyond(bars, s.median)) >= K
             /\ UpTo(bars, s.mean) # {} /\ Beyond(bars, s.mean) # {}
  <2>1. Known(bars) # {} /\ s = [median |-> Median(known), mean |-> Quotient(Total(known), Len(known))]
    BY DEF Stats
  <2>2. s.median = Median(known) /\ s.mean = Quotient(Total(known), Len(known))
    BY <2>1
  <2>3. K # 0
    BY <1>1, <2>1, FS_EmptySet DEF IsBars
  <2> HIDE DEF known, K
  <2>4. /\ 2 * Cardinality(UpTo(bars, Median(known))) >= K
        /\ 2 * Cardinality(Beyond(bars, Median(known))) >= K
    BY <1>1, <1>2, <2>3, MedianOfBars
  <2>5. UpTo(bars, s.mean) # {} /\ Beyond(bars, s.mean) # {}
    BY <1>1, <1>2, <2>2, <2>3, MeanOfBars
  <2> QED BY <2>2, <2>4, <2>5
<1> QED BY <1>3, <1>4, <1>5 DEF bars, K
----
\* The panels over time.

MempoolSpec == MempoolInit /\ [][MempoolNext]_mempoolVars

\* The event on its way is of the last reply; so is what is shown when there is
\* none, and anything shown is of some reply.
PanelInv ==
  /\ node \in {"arbitrary", "chain", "plain"} /\ clock \in 0..MaxTime /\ session \in 1..MaxSessions
  /\ reply \in OneReply
  /\ event = {} \/ \E c \in Chains : event = {FlowEvent(reply, c)}
  /\ flow = {} \/ \E q \in OneReply, c \in Chains : flow = {View(FlowEvent(q, c))}
  /\ flow # {} /\ event = {} => \E c \in Chains : flow = {View(FlowEvent(reply, c))}
  /\ Observed(history, clock, session)

\* No samples are those of any session.
LEMMA NothingObserved ==
  ASSUME NEW instant \in Nat, NEW s
  PROVE  Observed(<<>>, instant, s)
<1>1. <<>> \in Seq(Samples) /\ Len(<<>>) = 0 /\ 0 <= MaxSamples
  BY EmptySeq, MempoolViewAssumption
<1> QED BY <1>1 DEF Observed

\* Samples do not change as time passes.
LEMMA ObservedLater ==
  ASSUME NEW samples, NEW instant \in Nat, NEW later \in Nat, NEW s, instant <= later,
         Observed(samples, instant, s)
  PROVE  Observed(samples, later, s)
<1>1. \A i \in 1..Len(samples) : samples[i].at \in Nat
  BY ObservedIsTyped
<1> QED BY <1>1 DEF Observed

\* The window opens with nothing to show.
LEMMA PanelBegins == MempoolInit => PanelInv
<1> SUFFICES ASSUME MempoolInit PROVE PanelInv
  OBVIOUS
<1>1. /\ node \in {"arbitrary", "chain", "plain"} /\ reply = {} /\ event = {} /\ flow = {}
      /\ history = <<>> /\ clock = 0 /\ session = 1
  BY DEF MempoolInit, MempoolAt
<1>2. {} \in OneReply
  BY DEF OneReply
<1>3. Observed(history, clock, session)
  BY <1>1, NothingObserved
<1>4. clock \in 0..MaxTime /\ session \in 1..MaxSessions
  BY <1>1, MempoolViewAssumption
<1> QED BY <1>1, <1>2, <1>3, <1>4 DEF PanelInv

\* A poll changes the reply and the event together.
LEMMA PollKeeps ==
  ASSUME PanelInv, NEW rs, rs \subseteq HistogramReplies \union PlainReplies,
         NEW chains, chains \subseteq Chains, Poll(rs, chains)
  PROVE  PanelInv'
<1>1. PICK r \in {{}} \union {{x} : x \in rs}, c \in chains : reply' = r /\ event' = {FlowEvent(r, c)}
  BY DEF Poll
<1>2. reply' \in OneReply
  BY <1>1 DEF OneReply
<1>3. c \in Chains /\ event' = {FlowEvent(reply', c)}
  BY <1>1
<1>4. node' = node /\ flow' = flow /\ history' = history /\ clock' = clock /\ session' = session
  BY DEF Poll
<1>5. Observed(history', clock', session')
  BY <1>4 DEF PanelInv
<1>6. event' # {}
  BY <1>3
<1> QED BY <1>2, <1>3, <1>4, <1>5, <1>6 DEF PanelInv

\* What the window shows of a reply keeps its limits, and so does the sample.
LEMMA ViewIsTyped ==
  ASSUME NEW q \in OneReply, NEW c
  PROVE  LET v == View(FlowEvent(q, c)) IN
         /\ Len(v.projected) <= MaxTiles
         /\ \A b \in v.backlog : IsNumber(b.depth) /\ Len(b.blocks) <= MaxBacklog /\ b.txs \in Nat
<1> DEFINE v == View(FlowEvent(q, c))
<1>1. Shows(v, q, c)
  BY ViewIs
<1>2. q = {} \/ \E x : q = {x} /\ IsReply(x)
  BY RepliesAreReplies DEF OneReply
<1>3. MaxTiles \in Nat \ {0} /\ MaxBacklog \in Nat \ {0} /\ U64 \in Nat
  BY MempoolViewAssumption
<1> HIDE DEF v
<1>4. ASSUME v.backlog = {}, v.projected = <<>>
      PROVE  /\ Len(v.projected) <= MaxTiles
             /\ \A b \in v.backlog : IsNumber(b.depth) /\ Len(b.blocks) <= MaxBacklog /\ b.txs \in Nat
  <2>1. Len(v.projected) = 0
    BY <1>4
  <2> QED BY <1>3, <1>4, <2>1
<1>5. ASSUME NEW x, q = {x}, IsReply(x), Sound(x)
      PROVE  /\ Len(v.projected) <= MaxTiles
             /\ \A b \in v.backlog : IsNumber(b.depth) /\ Len(b.blocks) <= MaxBacklog /\ b.txs \in Nat
  <2>1. v.backlog = {Backlog(x)} /\ v.projected = Pending(x, MaxTiles)
    BY <1>1, <1>5 DEF Shows
  <2>2. IsHistogram(x) /\ x.txs < U64
    BY <1>5, SoundIsParsed
  <2>3. x.txs \in Nat /\ x.capacity \in Nat \ {0}
    BY <2>2 DEF IsHistogram
  <2>4. Depth(x) = Over(x.txs, x.capacity) /\ Depth(x) \in Nat /\ Depth(x) <= x.txs
    BY <2>3, DepthIs
  <2>5. /\ Len(Pending(x, MaxTiles)) = Least(Depth(x), MaxTiles)
        /\ Len(Pending(x, MaxBacklog)) = Least(Depth(x), MaxBacklog)
    BY <1>3, <2>2, <2>4, PendingIs
  <2>6. Len(Pending(x, MaxTiles)) <= MaxTiles /\ Len(Pending(x, MaxBacklog)) <= MaxBacklog
    BY <1>3, <2>4, <2>5 DEF Least
  <2>7. IsNumber(Depth(x))
    BY <1>3, <2>2, <2>3, <2>4 DEF IsNumber
  <2>8. Backlog(x).txs = x.txs /\ Backlog(x).depth = Depth(x) /\ Backlog(x).blocks = Pending(x, MaxBacklog)
    BY DEF Backlog
  <2> QED BY <2>1, <2>3, <2>6, <2>7, <2>8
<1>6. CASE q = {}
  BY <1>1, <1>4, <1>6 DEF Shows, v
<1>7. ASSUME NEW x, q = {x}, ~ Sound(x)
      PROVE  /\ Len(v.projected) <= MaxTiles
             /\ \A b \in v.backlog : IsNumber(b.depth) /\ Len(b.blocks) <= MaxBacklog /\ b.txs \in Nat
  BY <1>1, <1>4, <1>7 DEF Shows
<1> QED BY <1>2, <1>5, <1>6, <1>7 DEF v

\* The window shows the event on its way, and samples it.
LEMMA ApplyKeeps ==
  ASSUME PanelInv, ApplyEvent
  PROVE  PanelInv'
<1>1. PICK c \in Chains : event = {FlowEvent(reply, c)}
  BY DEF PanelInv, ApplyEvent
<1> DEFINE v == View(FlowEvent(reply, c))
           samples == {[at |-> clock, pending |-> b.txs, session |-> session] : b \in v.backlog}
           grown == IF samples = {} THEN history ELSE Append(history, CHOOSE s \in samples : TRUE)
<1>2. /\ flow' = {v} /\ history' = Trimmed(grown) /\ event' = {}
      /\ node' = node /\ reply' = reply /\ clock' = clock /\ session' = session
  BY <1>1 DEF ApplyEvent
<1>3. clock \in Nat /\ session \in Nat /\ reply \in OneReply /\ Observed(history, clock, session)
  BY MempoolViewAssumption DEF PanelInv
<1>4. \A b \in v.backlog : b.txs \in Nat
  BY <1>3, ViewIsTyped
<1>5. Observed(Trimmed(grown), clock, session)
  <2>1. CASE samples = {}
    <3>1. Len(history) <= MaxSamples /\ Len(history) \in Nat /\ MaxSamples \in Nat
      BY <1>3, ObservedIsTyped, MempoolViewAssumption DEF Observed
    <3>2. Trimmed(history) = history
      BY <3>1 DEF Trimmed
    <3> QED BY <1>3, <2>1, <3>2
  <2>2. CASE samples # {}
    <3> DEFINE s == CHOOSE s \in samples : TRUE
    <3>1. s \in samples
      BY <2>2
    <3>2. PICK b \in v.backlog : s = [at |-> clock, pending |-> b.txs, session |-> session]
      BY <3>1
    <3>3. s \in Samples /\ s.at = clock /\ s.session = session
      BY <1>3, <1>4, <3>2 DEF Samples
    <3>4. grown = Append(history, s)
      BY <2>2
    <3> HIDE DEF s, grown, samples, v
    <3> QED BY <1>3, <3>3, <3>4, SampleAdded
  <2> QED BY <2>1, <2>2
<1>6. Observed(history', clock', session')
  BY <1>2, <1>5
<1>7. flow' = {View(FlowEvent(reply', c))}
  BY <1>2
<1> HIDE DEF v, grown
<1> QED BY <1>2, <1>6, <1>7 DEF PanelInv

\* Every step keeps what is shown that of the last reply.
LEMMA PanelStep == PanelInv /\ [MempoolNext]_mempoolVars => PanelInv'
<1> SUFFICES ASSUME PanelInv, [MempoolNext]_mempoolVars PROVE PanelInv'
  OBVIOUS
<1>1. {} \subseteq HistogramReplies \union PlainReplies /\ {<<>>} \subseteq Chains
  BY DEF Chains
<1>2. CASE PollAnything
  <2>1. Poll(HistogramReplies, {<<>>})
    BY <1>2 DEF PollAnything
  <2> QED BY <1>1, <2>1, PollKeeps
<1>3. CASE PollChain
  <2>1. Poll({}, Chains)
    BY <1>3 DEF PollChain
  <2> QED BY <1>1, <2>1, PollKeeps
<1>4. CASE PollPlainly
  <2>1. Poll(PlainReplies, {<<>>})
    BY <1>4 DEF PollPlainly
  <2> QED BY <1>1, <2>1, PollKeeps
<1>5. CASE ApplyEvent
  BY <1>5, ApplyKeeps
<1>6. CASE SessionEnds
  <2>1. /\ event = {} /\ session < MaxSessions /\ session' = session + 1
        /\ flow' = {} /\ history' = <<>> /\ reply' = {}
        /\ node' = node /\ event' = event /\ clock' = clock
    BY <1>6 DEF SessionEnds, Kept
  <2>2. clock \in Nat /\ clock' = clock
    BY <2>1, MempoolViewAssumption DEF PanelInv
  <2>3. Observed(history', clock', session')
    BY <2>1, <2>2, NothingObserved
  <2>4. reply' \in OneReply
    BY <2>1 DEF OneReply
  <2>5. session' \in 1..MaxSessions
    BY <2>1, MempoolViewAssumption DEF PanelInv
  <2> QED BY <2>1, <2>3, <2>4, <2>5 DEF PanelInv
<1>7. CASE TimePasses
  <2>1. /\ clock < MaxTime /\ clock' = clock + 1
        /\ node' = node /\ reply' = reply /\ event' = event /\ flow' = flow
        /\ history' = history /\ session' = session
    BY <1>7 DEF TimePasses
  <2>2. clock \in Nat /\ clock' \in Nat /\ clock <= clock' /\ clock' \in 0..MaxTime
    BY <2>1, MempoolViewAssumption DEF PanelInv
  <2>3. Observed(history', clock', session')
    <3>1. Observed(history, clock, session)
      BY DEF PanelInv
    <3>2. Observed(history, clock', session)
      BY <2>2, <3>1, ObservedLater
    <3> QED BY <2>1, <3>2
  <2> QED BY <2>1, <2>2, <2>3 DEF PanelInv
<1>8. CASE UNCHANGED mempoolVars
  BY <1>8 DEF PanelInv, mempoolVars
<1> QED BY <1>2, <1>3, <1>4, <1>5, <1>6, <1>7, <1>8 DEF MempoolNext

\* The types of the variables.
LEMMA PanelsTyped ==
  ASSUME PanelInv
  PROVE  MempoolTypeOK
<1>1. Cardinality(reply) <= 1 /\ Cardinality(event) <= 1 /\ Cardinality(flow) <= 1
  <2>1. \A x : Cardinality({x}) = 1
    BY FS_Singleton
  <2>2. Cardinality({}) = 0
    BY FS_EmptySet
  <2>3. reply = {} \/ \E x : reply = {x}
    BY DEF PanelInv, OneReply
  <2>4. event = {} \/ \E x : event = {x}
    BY DEF PanelInv
  <2>5. flow = {} \/ \E x : flow = {x}
    BY DEF PanelInv
  <2>6. ASSUME NEW S, S = {} \/ \E x : S = {x} PROVE Cardinality(S) <= 1
    <3>1. Cardinality(S) = 0 \/ Cardinality(S) = 1
      BY <2>1, <2>2, <2>6
    <3> QED BY <3>1
  <2> QED BY <2>3, <2>4, <2>5, <2>6
<1>2. Len(history) <= MaxSamples /\ \A i \in 1..Len(history) : history[i].at \in 0..clock
  <2>1. Observed(history, clock, session) /\ clock \in Nat
    BY MempoolViewAssumption DEF PanelInv
  <2>2. \A i \in 1..Len(history) : history[i].at \in Nat
    BY <2>1, ObservedIsTyped
  <2> QED BY <2>1, <2>2 DEF Observed
<1>3. ASSUME NEW f \in flow
      PROVE  /\ Len(f.projected) <= MaxTiles
             /\ \A b \in f.backlog : IsNumber(b.depth) /\ Len(b.blocks) <= MaxBacklog
  <2>1. PICK q \in OneReply, c \in Chains : f = View(FlowEvent(q, c))
    BY <1>3 DEF PanelInv
  <2> QED BY <2>1, ViewIsTyped
<1> QED BY <1>1, <1>2, <1>3 DEF PanelInv, MempoolTypeOK

\* In every state, what the panels show is what the node and the headers said,
\* or that they do not know.
LEMMA PanelsShow ==
  ASSUME PanelInv
  PROVE  PanelsTrue
<1>1. MempoolTypeOK
  BY PanelsTyped
<1>2. TrendObserved
  <2>1. Observed(history, clock, session) /\ clock \in Nat
    BY MempoolViewAssumption DEF PanelInv
  <2> QED BY <2>1, TrendIsObserved
<1>3. ASSUME ~ Shown
      PROVE  BacklogHonest /\ PackingExact /\ DepthExact /\ IntervalsReal /\ MedianIsMiddle
  BY <1>3 DEF BacklogHonest, PackingExact, DepthExact, IntervalsReal, MedianIsMiddle
<1>4. ASSUME Shown
      PROVE  BacklogHonest /\ PackingExact /\ DepthExact /\ IntervalsReal /\ MedianIsMiddle
  <2>1. PICK c \in Chains : flow = {View(FlowEvent(reply, c))}
    BY <1>4 DEF PanelInv, Shown
  <2>2. reply \in OneReply /\ IsChain(c)
    BY ChainsAreChains DEF PanelInv
  <2>3. BacklogHonest /\ PackingExact /\ DepthExact
    BY <2>1, <2>2, PanelOfReply
  <2>4. \A f \in flow : f.recent = c
    BY <2>1, <2>2, ViewIs DEF Shows
  <2> QED BY <2>2, <2>3, <2>4, BarsAreReal, MediansAreMiddle
<1> QED BY <1>1, <1>2, <1>3, <1>4 DEF PanelsTrue

\* Whatever the node replies and the headers declare: the backlog panel says what
\* a sound reply says and nothing of any other, its blocks are the mempool
\* dealt out in auction order and its depth what is left to mine, the trend is
\* between two counts of this session, a bar is the time between a block and
\* its parent, and the median and the mean are those of the bars (main.rs:
\* run_rpc_session; blockflow.rs: mempool_histogram, packed_pending_blocks,
\* backlog_depth; gui.rs: BlockFlowView, backlog_trend, block_interval_bars,
\* interval_window_stats).
THEOREM PanelsAreTrue == MempoolSpec => []PanelsTrue
<1>1. PanelInv => PanelsTrue
  BY PanelsShow
<1> QED BY PanelBegins, PanelStep, <1>1, PTL DEF MempoolSpec

============================================================================
