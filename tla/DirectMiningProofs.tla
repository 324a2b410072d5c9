------------------------- MODULE DirectMiningProofs -------------------------
(***************************************************************************)
(* DirectMining, for any number of workers, any targets and any bounds.    *)
(***************************************************************************)
EXTENDS DirectMining, FiniteSetTheorems, TLAPS

USE DEF BumpGeneration, JobEvent, CountSubmission, StillCurrent, Deadline, TimerDue

\* TypeOK, one lemma per kind of step.
LEMMA TypeInit == Init => TypeOK
<1> SUFFICES ASSUME Init PROVE TypeOK
  OBVIOUS
<1>1. tip \in [height : Nat, version : Nat]
  BY DEF Init
<1>2. /\ requests \in SUBSET Seal /\ mined \in SUBSET Seal
      /\ sealed \in SUBSET Seal
      /\ announced \in SUBSET Nat /\ cleared \in SUBSET Nat
  BY DEF Init
<1>3. /\ wpc \in [Workers -> WorkerStates]
      /\ seen \in [Workers -> Nat \cup {NoGeneration}]
      /\ held \in [Workers -> Job \cup {NoJob}]
      /\ nonce \in [Workers -> Nat]
      /\ reply \in [Workers -> {"none", "ok", "error"}]
      /\ \A w \in Workers : wpc[w] \notin {"loop", "read"} => held[w] # NoJob
  BY DEF Init, WorkerStates
<1> QED
  BY <1>1, <1>2, <1>3 DEF Init, TypeOK, SessionStates

\* A worker past the head of its loop holds a job.
LEMMA HeldJob ==
  TypeOK => \A w \in Workers : wpc[w] \notin {"loop", "read"} => held[w] \in Job
  BY DEF TypeOK

\* What a worker is about to submit is a seal of the job it holds.
LEMMA SealType == TypeOK => \A w \in Workers : wpc[w] \notin {"loop", "read"} => SealOf(w) \in Seal
  BY DEF TypeOK, SealOf, Seal

\* The node's steps.
LEMMA TypeNode == TypeOK /\ NodeNext => TypeOK'
<1> USE DEF nodeVars, slotVars, ledgerVars, eventVars, sessionVars, workerVars
<1> SUFFICES ASSUME TypeOK, NodeNext PROVE TypeOK'
  OBVIOUS
<1>1. CASE MoveTip
  BY <1>1 DEF MoveTip, TypeOK, SessionStates, WorkerStates
<1>2. ASSUME NEW s \in requests, AcceptBlock(s) PROVE TypeOK'
  BY <1>2 DEF AcceptBlock, Answer, TypeOK, Seal, Job, SessionStates, WorkerStates
<1>3. ASSUME NEW s \in requests, RejectBlock(s) PROVE TypeOK'
  BY <1>3 DEF RejectBlock, Answer, TypeOK, Seal, Job, SessionStates, WorkerStates
<1> QED
  BY <1>1, <1>2, <1>3 DEF NodeNext

\* The session's steps.
LEMMA TypeSession == TypeOK /\ (SessionStep \/ SessionError) => TypeOK'
<1> USE DirectMiningAssumption
    DEF nodeVars, slotVars, ledgerVars, eventVars, sessionVars, workerVars,
        SessionStates, WorkerStates, TypeOK
<1> SUFFICES ASSUME TypeOK, SessionStep \/ SessionError PROVE TypeOK'
  OBVIOUS
<1>1. CASE BeginSession  BY <1>1 DEF BeginSession, NoHeight
<1>2. CASE PollNewHeight  BY <1>2 DEF PollNewHeight
<1>3. CASE PollTimer  BY <1>3 DEF PollTimer
<1>4. CASE PollUnchanged  BY <1>4 DEF PollUnchanged
<1>5. CASE FetchTemplate
  <2>1. PICK account \in Accounts : template' = OfferedBy(account)
    BY <1>5 DEF FetchTemplate
  <2>2. template' \in Job
    BY <2>1 DEF OfferedBy, Job
  <2> QED
    BY <1>5, <2>2 DEF FetchTemplate
<1>6. CASE InstallJob
  <2>1. template \in Job
    BY <1>6 DEF InstallJob
  <2>2. template.id \in Nat
    BY <2>1 DEF Job
  <2> QED
    BY <1>6, <2>1, <2>2 DEF InstallJob
<1>7. CASE ReleaseWorkers  BY <1>7 DEF ReleaseWorkers
<1>8. CASE DropEndpoint  BY <1>8 DEF DropEndpoint
<1>9. CASE DropJob  BY <1>9 DEF DropJob
<1>10. CASE EndSession  BY <1>10 DEF EndSession
<1>11. CASE SessionError  BY <1>11 DEF SessionError
<1> QED
  BY <1>1, <1>2, <1>3, <1>4, <1>5, <1>6, <1>7, <1>8, <1>9, <1>10, <1>11
  DEF SessionStep

\* The workers' steps.
LEMMA TypeWorker ==
  ASSUME TypeOK, NEW w \in Workers, WorkerStep(w) \/ RestartWorker(w)
  PROVE  TypeOK'
<1> USE DirectMiningAssumption
    DEF nodeVars, slotVars, ledgerVars, eventVars, sessionVars, workerVars,
        SessionStates, WorkerStates, TypeOK
<1>1. CASE LoadGeneration(w)  BY <1>1 DEF LoadGeneration
<1>2. CASE ReadJob(w)  BY <1>2 DEF ReadJob
<1>3. CASE Miss(w)  BY <1>3 DEF Miss
<1>4. CASE Hit(w)  BY <1>4 DEF Hit, Hashing
<1>5. CASE CheckHit(w)  BY <1>5 DEF CheckHit
<1>6. CASE DropHit(w)  BY <1>6 DEF DropHit
<1>7. CASE SubmitBlock(w)
  BY <1>7, SealType DEF SubmitBlock
<1>8. CASE CountAccepted(w)
  BY <1>8, SealType DEF CountAccepted
<1>9. CASE CountRejected(w)
  BY <1>9 DEF CountRejected
<1>10. CASE ClearJob(w)  BY <1>10 DEF ClearJob
<1>11. CASE AnnounceCleared(w)
  <2>1. held[w] \in Job
    BY <1>11, HeldJob DEF AnnounceCleared
  <2>2. held[w].id \in Nat
    BY <2>1 DEF Job
  <2>3. cleared' \in SUBSET Nat
    BY <1>11, <2>2 DEF AnnounceCleared
  <2> QED
    BY <1>11, <2>3 DEF AnnounceCleared
<1>12. CASE LeaveNewerJob(w)  BY <1>12 DEF LeaveNewerJob
<1>13. CASE RestartWorker(w)  BY <1>13 DEF RestartWorker, NoGeneration
<1> QED
  BY <1>1, <1>2, <1>3, <1>4, <1>5, <1>6, <1>7, <1>8, <1>9, <1>10, <1>11,
     <1>12, <1>13
  DEF WorkerStep

\* Every step.
LEMMA TypeNext == TypeOK /\ [Next]_vars => TypeOK'
<1>1. TypeOK /\ UNCHANGED vars => TypeOK'
  BY DEF TypeOK, vars, nodeVars, slotVars, ledgerVars, eventVars, sessionVars,
         workerVars
<1> QED
  BY <1>1, TypeNode, TypeSession, TypeWorker DEF Next

\* Every variable keeps its type: in particular a worker that is past the head
\* of its loop holds a job, and the session installs no empty template.
THEOREM TypeCorrect == Spec => []TypeOK
  BY TypeInit, TypeNext, PTL DEF Spec
-----------------------------------------------------------------------------
(* The slot: DirectMining implements WorkSlot.                             *)

\* What WorkSlot sees of a step: nothing, or a replaced slot, or a bump, or a
\* worker reading.
LEMMA SlotUntouched ==
  ASSUME UNCHANGED <<job, generation, wpc, spc, seen, held>>
  PROVE  UNCHANGED Slot!vars
  BY DEF Slot!vars, Owing

\* The mapping to the abstract slot, one lemma per kind of step.
LEMMA SlotInit == Init => Slot!Init
  BY DEF Init, Slot!Init, Owing, NoGeneration, Slot!NoGeneration

\* The node does not touch the slot.
LEMMA SlotNode == NodeNext => UNCHANGED Slot!vars
  BY SlotUntouched
  DEF NodeNext, MoveTip, AcceptBlock, RejectBlock, slotVars, sessionVars,
      workerVars

\* The session installs and retires work.
LEMMA SlotSession ==
  TypeOK /\ (SessionStep \/ SessionError) => [Slot!Next]_(Slot!vars)
<1> SUFFICES ASSUME TypeOK, SessionStep \/ SessionError
             PROVE  [Slot!Next]_(Slot!vars)
  OBVIOUS
<1> USE DirectMiningAssumption DEF slotVars, sessionVars, workerVars
<1>1. CASE \/ BeginSession \/ PollNewHeight \/ PollTimer \/ PollUnchanged
           \/ FetchTemplate \/ DropEndpoint \/ SessionError
  <2>1. UNCHANGED <<job, generation, wpc, seen, held>>
    BY <1>1 DEF BeginSession, PollNewHeight, PollTimer, PollUnchanged,
       FetchTemplate, DropEndpoint, SessionError
  <2>2. Owing' = Owing
    BY <1>1, <2>1 DEF BeginSession, PollNewHeight, PollTimer, PollUnchanged,
       FetchTemplate, DropEndpoint, SessionError, Owing
  <2> QED
    BY <2>1, <2>2 DEF Slot!vars
<1>2. CASE InstallJob \/ DropJob
  <2>1. Session \notin Owing /\ Owing' = Owing \cup {Session}
    BY <1>2 DEF InstallJob, DropJob, Owing
  <2>2. job' \in Job \cup {NoJob}
    BY <1>2 DEF InstallJob, DropJob, TypeOK
  <2>3. Slot!Replace(Session)
    BY <1>2, <2>1, <2>2 DEF InstallJob, DropJob, Slot!Replace
  <2> QED
    BY <2>3 DEF Slot!Next
<1>3. CASE ReleaseWorkers \/ EndSession
  <2>1. Session \in Owing /\ Owing' = Owing \ {Session}
    BY <1>3 DEF ReleaseWorkers, EndSession, Owing
  <2>2. Slot!Bump(Session)
    BY <1>3, <2>1 DEF ReleaseWorkers, EndSession, Slot!Bump
  <2> QED
    BY <2>2 DEF Slot!Next
<1> QED
  BY <1>1, <1>2, <1>3 DEF SessionStep

\* Workers read the slot, and clear only the work they were told about.
LEMMA SlotWorker ==
  ASSUME TypeOK, NEW w \in Workers, WorkerStep(w) \/ RestartWorker(w)
  PROVE  [Slot!Next]_(Slot!vars)
<1> USE DirectMiningAssumption DEF slotVars, sessionVars, workerVars, TypeOK
<1> DEFINE Phase == [x \in Workers |-> IF wpc[x] = "read" THEN "reading"
                                                          ELSE "working"]
<1>1. CASE LoadGeneration(w)
  <2>1. Owing' = Owing
    BY <1>1 DEF LoadGeneration, Owing
  <2>2. Phase[w] = "working" /\ Phase' = [Phase EXCEPT ![w] = "reading"]
    BY <1>1 DEF LoadGeneration
  <2>3. Slot!Load(w)
    BY <1>1, <2>1, <2>2 DEF LoadGeneration, Slot!Load
  <2> QED
    BY <2>3 DEF Slot!Next
<1>2. CASE ReadJob(w)
  <2>1. Owing' = Owing
    BY <1>2 DEF ReadJob, Owing
  <2>2. Phase[w] = "reading" /\ Phase' = [Phase EXCEPT ![w] = "working"]
    BY <1>2 DEF ReadJob
  <2>3. Slot!Take(w)
    BY <1>2, <2>1, <2>2 DEF ReadJob, Slot!Take
  <2> QED
    BY <2>3 DEF Slot!Next
<1>3. CASE RestartWorker(w)
  <2>1. Owing' = Owing /\ Phase' = Phase /\ Phase[w] = "working"
    BY <1>3 DEF RestartWorker, Owing
  <2>2. Slot!Restart(w)
    BY <1>3, <2>1 DEF RestartWorker, Slot!Restart, NoGeneration,
       Slot!NoGeneration
  <2> QED
    BY <2>2 DEF Slot!Next
<1>4. CASE ClearJob(w)
  <2>1. w \notin Owing /\ Owing' = Owing \cup {w} /\ Phase' = Phase
    BY <1>4 DEF ClearJob, Owing
  <2>2. Slot!Replace(w)
    BY <1>4, <2>1 DEF ClearJob, Slot!Replace
  <2> QED
    BY <2>2 DEF Slot!Next
<1>5. CASE AnnounceCleared(w)
  <2>1. w \in Owing /\ Owing' = Owing \ {w} /\ Phase' = Phase
    BY <1>5 DEF AnnounceCleared, Owing
  <2>2. Slot!Bump(w)
    BY <1>5, <2>1 DEF AnnounceCleared, Slot!Bump
  <2> QED
    BY <2>2 DEF Slot!Next
<1>6. CASE \/ Miss(w) \/ Hit(w) \/ CheckHit(w) \/ DropHit(w) \/ SubmitBlock(w)
           \/ CountAccepted(w) \/ CountRejected(w) \/ LeaveNewerJob(w)
  <2>1. UNCHANGED <<job, generation, spc, seen, held>>
    BY <1>6 DEF Miss, Hit, CheckHit, DropHit, SubmitBlock, CountAccepted,
       CountRejected, LeaveNewerJob
  <2>2. \A x \in Workers : /\ (wpc'[x] = "bump") = (wpc[x] = "bump")
                           /\ (wpc'[x] = "read") = (wpc[x] = "read")
    BY <1>6 DEF Miss, Hit, Hashing, CheckHit, DropHit, SubmitBlock, CountAccepted,
       CountRejected, LeaveNewerJob
  <2>3. Owing' = Owing /\ Phase' = Phase
    BY <2>1, <2>2 DEF Owing
  <2> QED
    BY <2>1, <2>3 DEF Slot!vars
<1> QED
  BY <1>1, <1>2, <1>3, <1>4, <1>5, <1>6 DEF WorkerStep

\* Every step is a step of the slot or a stutter.
LEMMA SlotNext == TypeOK /\ [Next]_vars => [Slot!Next]_(Slot!vars)
<1>1. UNCHANGED vars => UNCHANGED Slot!vars
  BY SlotUntouched DEF vars, slotVars, sessionVars, workerVars
<1> QED
  BY <1>1, SlotNode, SlotSession, SlotWorker DEF Next

\* Every step of the session and of a worker is a step WorkSlot allows:
\* install_job, clear_job_if_current, the teardown of run_rpc_session and the
\* head of worker_loop bump after they write and load before they read.
THEOREM ImplementsWorkSlot == Spec => WorkSlotSpec
<1>1. TypeOK /\ [Next]_vars => [Slot!Next]_(Slot!vars)
  BY SlotNext
<1> QED
  BY <1>1, SlotInit, TypeCorrect, PTL DEF Spec, WorkSlotSpec, Slot!Spec

\* A worker that finds its generation current is mining the published job,
\* unless a writer is between its slot write and its bump.
THEOREM WorkersCoherent == Spec => []Coherent
  BY Slot!SlotCoherent, ImplementsWorkSlot DEF Coherent, WorkSlotSpec

-----------------------------------------------------------------------------
(* What an answer of the node can do, and when.                            *)

\* The facts the properties below rest on.  A sealed block in the chain is off
\* the tip for good; a worker believes an answer only of a seal that is in the
\* chain and was not counted; the endpoint is there as long as anybody submits.
ReplyTrue ==
  \A w \in Workers :
    /\ wpc[w] # "call" => reply[w] = "none"
    /\ reply[w] = "ok" => SealOf(w) \in mined \ sealed
    /\ wpc[w] = "clear" => SealOf(w) \in sealed

MinedLeftTip == \A s \in mined : s.job.parent < tip.version

EndpointUp ==
  /\ endpoint <=> spc \in {"poll", "fetch", "install", "bump", "dropEndpoint"}
  /\ \A w \in Workers : HoldsEndpoint(w) => endpoint
  /\ spc \in {"begin", "dropBump"} => job = NoJob

WorkAnnounced ==
  /\ job # NoJob => job.id \in announced
  /\ AnnouncedBeforeHashed

Pays(j) == j # NoJob => ValidCoinbase(j)

WorkPays ==
  /\ Pays(job) /\ Pays(template)
  /\ \A w \in Workers : Pays(held[w])
  /\ \A s \in requests \cup mined : Pays(s.job)

Inv ==
  /\ TypeOK
  /\ sealed \subseteq mined
  /\ ReplyTrue
  /\ MinedLeftTip
  /\ EndpointUp
  /\ WorkAnnounced
  /\ WorkPays

\* The ownership invariant, one lemma per kind of step.
LEMMA InvInit == Init => Inv
<1> SUFFICES ASSUME Init PROVE Inv
  OBVIOUS
<1>1. ReplyTrue
  BY DEF Init, ReplyTrue
<1>2. (sealed \subseteq mined) /\ MinedLeftTip
  BY DEF Init, MinedLeftTip
<1>3. EndpointUp
  BY DEF Init, EndpointUp, HoldsEndpoint
<1>4. WorkAnnounced /\ WorkPays
  BY DEF Init, WorkAnnounced, AnnouncedBeforeHashed, WorkPays, Pays
<1> QED
  BY <1>1, <1>2, <1>3, <1>4, TypeInit DEF Inv

\* The node's steps.
LEMMA InvNode == Inv /\ NodeNext => Inv'
<1> SUFFICES ASSUME Inv, NodeNext PROVE Inv'
  OBVIOUS
<1> USE DEF Inv, nodeVars, slotVars, ledgerVars, eventVars, sessionVars,
        workerVars
<1>0. TypeOK'
  BY TypeNode
<1>1. /\ EndpointUp' /\ WorkAnnounced' /\ sealed' = sealed
      /\ mined \subseteq mined' /\ tip'.version >= tip.version
      /\ UNCHANGED <<wpc, held, nonce>>
  BY DEF NodeNext, MoveTip, AcceptBlock, RejectBlock, EndpointUp,
     HoldsEndpoint, WorkAnnounced, AnnouncedBeforeHashed, TypeOK
<1>2. CASE MoveTip
  BY <1>0, <1>1, <1>2 DEF MoveTip, TypeOK, ReplyTrue, MinedLeftTip, WorkPays,
     Pays, SealOf, ValidCoinbase, Seal, Job
<1>3. ASSUME NEW s \in requests, AcceptBlock(s) PROVE Inv'
  <2>1. s \in Seal /\ s.job \in Job
    BY DEF TypeOK, Seal
  <2>2. s \notin mined
    BY <1>3, <2>1 DEF AcceptBlock, MinedLeftTip, Job
  <2>3. MinedLeftTip'
    BY <1>3, <2>1 DEF AcceptBlock, MinedLeftTip, TypeOK, Seal, Job
  <2>4. ReplyTrue'
    BY <1>1, <1>3, <2>1, <2>2
    DEF AcceptBlock, Answer, Awaits, ReplyTrue, SealOf, TypeOK, Seal
  <2>5. WorkPays'
    BY <1>1, <1>3 DEF AcceptBlock, Answer, WorkPays, Pays, ValidCoinbase
  <2> QED
    BY <1>0, <1>1, <2>3, <2>4, <2>5
<1>4. ASSUME NEW s \in requests, RejectBlock(s) PROVE Inv'
  <2>1. ReplyTrue'
    BY <1>1, <1>4
    DEF RejectBlock, Answer, Awaits, ReplyTrue, SealOf, TypeOK, Seal
  <2>2. WorkPays' /\ MinedLeftTip'
    BY <1>1, <1>4
    DEF RejectBlock, Answer, WorkPays, Pays, ValidCoinbase, MinedLeftTip
  <2> QED
    BY <1>0, <1>1, <1>4, <2>1, <2>2 DEF RejectBlock
<1> QED
  BY <1>2, <1>3, <1>4 DEF NodeNext

\* The session's steps.
LEMMA InvSession == Inv /\ (SessionStep \/ SessionError) => Inv'
<1> SUFFICES ASSUME Inv, SessionStep \/ SessionError PROVE Inv'
  OBVIOUS
<1> USE DirectMiningAssumption
    DEF Inv, nodeVars, slotVars, ledgerVars, eventVars, sessionVars, workerVars
<1>0. TypeOK'
  BY TypeSession
<1>1. UNCHANGED <<requests, mined, sealed, tip, wpc, held, nonce, reply>>
  BY DEF SessionStep, SessionError, BeginSession, PollNewHeight, PollTimer,
     PollUnchanged, FetchTemplate, InstallJob, ReleaseWorkers, DropEndpoint,
     DropJob, EndSession
<1>2. (sealed \subseteq mined)' /\ ReplyTrue' /\ MinedLeftTip'
  BY <1>1 DEF ReplyTrue, MinedLeftTip, SealOf
<1>3. EndpointUp'
  BY <1>1 DEF SessionStep, SessionError, BeginSession, PollNewHeight, PollTimer,
     PollUnchanged, FetchTemplate, InstallJob, ReleaseWorkers, DropEndpoint,
     DropJob, EndSession, EndpointUp, HoldsEndpoint
<1>4. WorkAnnounced'
  BY <1>1 DEF SessionStep, SessionError, BeginSession, PollNewHeight, PollTimer,
     PollUnchanged, FetchTemplate, InstallJob, ReleaseWorkers, DropEndpoint,
     DropJob, EndSession, WorkAnnounced, AnnouncedBeforeHashed
<1>5. WorkPays'
  <2>1. CASE FetchTemplate
    BY <1>1, <2>1 DEF FetchTemplate, WorkPays, Pays, ValidCoinbase
  <2>2. CASE ~FetchTemplate
    BY <1>1, <2>2 DEF SessionStep, SessionError, BeginSession, PollNewHeight,
     PollTimer, PollUnchanged, InstallJob, ReleaseWorkers, DropEndpoint,
     DropJob, EndSession, WorkPays, Pays, ValidCoinbase
  <2> QED
    BY <2>1, <2>2
<1> QED
  BY <1>0, <1>2, <1>3, <1>4, <1>5

\* The workers' steps.
LEMMA InvWorker ==
  ASSUME Inv, NEW w \in Workers, WorkerStep(w) \/ RestartWorker(w)
  PROVE  Inv'
<1> USE DEF Inv, nodeVars, slotVars, ledgerVars, eventVars, sessionVars,
        workerVars
<1>0. TypeOK'
  BY TypeWorker
<1>1. UNCHANGED <<mined, tip, endpoint, spc, template, announced>>
  BY DEF WorkerStep, LoadGeneration, ReadJob, Miss, Hit, CheckHit, DropHit,
     SubmitBlock, CountAccepted, CountRejected, ClearJob, AnnounceCleared,
     LeaveNewerJob, RestartWorker
<1>2. MinedLeftTip'
  BY <1>1 DEF MinedLeftTip
<1>3. EndpointUp'
  <2>1. job' \in {job, NoJob}
    BY DEF WorkerStep, LoadGeneration, ReadJob, Miss, Hit, CheckHit, DropHit,
     SubmitBlock, CountAccepted, CountRejected, ClearJob, AnnounceCleared,
     LeaveNewerJob, RestartWorker
  <2>2. \A x \in Workers \ {w} : wpc'[x] = wpc[x]
    BY DEF WorkerStep, LoadGeneration, ReadJob, Miss, Hit, CheckHit, DropHit,
     SubmitBlock, CountAccepted, CountRejected, ClearJob, AnnounceCleared,
     LeaveNewerJob, RestartWorker, TypeOK
  <2>3. wpc'[w] \in {"call", "clear", "bump"}
          => endpoint \/ wpc[w] \in {"call", "clear", "bump"}
    BY DEF WorkerStep, LoadGeneration, ReadJob, Miss, Hit, CheckHit, DropHit,
     SubmitBlock, CountAccepted, CountRejected, ClearJob, AnnounceCleared,
     LeaveNewerJob, RestartWorker, TypeOK
  <2> QED
    BY <1>1, <2>1, <2>2, <2>3 DEF EndpointUp, HoldsEndpoint
<1>4. WorkAnnounced'
  BY <1>1 DEF WorkerStep, LoadGeneration, ReadJob, Miss, Hit, CheckHit,
     DropHit, SubmitBlock, CountAccepted, CountRejected, ClearJob,
     AnnounceCleared, LeaveNewerJob, RestartWorker, WorkAnnounced,
     AnnouncedBeforeHashed, TypeOK
<1>5. WorkPays'
  <2>1. CASE SubmitBlock(w)
    BY <1>1, <2>1 DEF SubmitBlock, WorkPays, Pays, SealOf, ValidCoinbase
  <2>2. CASE ~SubmitBlock(w)
    <3>1. requests' \subseteq requests
      BY <2>2 DEF WorkerStep, LoadGeneration, ReadJob, Miss, Hit, CheckHit,
       DropHit, CountAccepted, CountRejected, ClearJob, AnnounceCleared,
       LeaveNewerJob, RestartWorker
    <3>2. /\ job' \in {job, NoJob}
          /\ \A x \in Workers : held'[x] \in {held[x], job, NoJob}
      BY <2>2 DEF WorkerStep, LoadGeneration, ReadJob, Miss, Hit, CheckHit,
       DropHit, CountAccepted, CountRejected, ClearJob, AnnounceCleared,
       LeaveNewerJob, RestartWorker, TypeOK
    <3> QED
      BY <1>1, <3>1, <3>2 DEF WorkPays, Pays, ValidCoinbase
  <2> QED
    BY <2>1, <2>2
<1>6. (sealed \subseteq mined)' /\ ReplyTrue'
  <2>1. CASE CountAccepted(w)
    BY <1>1, <2>1 DEF CountAccepted, Validated, ReplyTrue, SealOf, TypeOK
  <2>2. CASE ~CountAccepted(w)
    <3>1. sealed' = sealed
      BY <2>2 DEF WorkerStep, LoadGeneration, ReadJob, Miss, Hit, CheckHit,
       DropHit, SubmitBlock, CountRejected, ClearJob, AnnounceCleared,
       LeaveNewerJob, RestartWorker
    <3>2. \A x \in Workers \ {w} :
            /\ wpc'[x] = wpc[x] /\ reply'[x] = reply[x]
            /\ held'[x] = held[x] /\ nonce'[x] = nonce[x]
      BY <2>2 DEF WorkerStep, LoadGeneration, ReadJob, Miss, Hit, CheckHit,
       DropHit, SubmitBlock, CountRejected, ClearJob, AnnounceCleared,
       LeaveNewerJob, RestartWorker, TypeOK
    <3>3. wpc'[w] # "clear" /\ reply'[w] = "none"
      BY <2>2 DEF WorkerStep, LoadGeneration, ReadJob, Miss, Hit, Hashing,
       CheckHit, DropHit, SubmitBlock, CountRejected, ClearJob,
       AnnounceCleared, LeaveNewerJob, RestartWorker, TypeOK, ReplyTrue
    <3> QED
      BY <1>1, <3>1, <3>2, <3>3 DEF ReplyTrue, SealOf
  <2> QED
    BY <2>1, <2>2
<1> QED
  BY <1>0, <1>2, <1>3, <1>4, <1>5, <1>6

\* Every step.
LEMMA InvNext == Inv /\ [Next]_vars => Inv'
<1>1. Inv /\ UNCHANGED vars => Inv'
  BY DEF Inv, TypeOK, vars, nodeVars, slotVars, ledgerVars, eventVars,
     sessionVars, workerVars, ReplyTrue, SealOf, MinedLeftTip, EndpointUp,
     HoldsEndpoint, WorkAnnounced, AnnouncedBeforeHashed, WorkPays, Pays,
     ValidCoinbase
<1> QED
  BY <1>1, InvNode, InvSession, InvWorker DEF Next

\* So it always holds.
LEMMA InvAlways == Spec => []Inv
  BY InvInit, InvNext, PTL DEF Spec

\* No worker hashes a job whose "job" event is not out yet (install_job).
THEOREM NoEarlyHash == Spec => []AnnouncedBeforeHashed
<1>1. Inv => AnnouncedBeforeHashed
  BY DEF Inv, WorkAnnounced
<1> QED
  BY <1>1, InvAlways, PTL

\* No block of ours pays anybody but the account the user asked for
\* (validate_rpc_coinbase).
THEOREM OnlyRequestedPaid == Spec => []PaysRequested
<1>1. Inv => PaysRequested
  BY DirectMiningAssumption
  DEF Inv, TypeOK, Seal, WorkPays, Pays, ValidCoinbase, PaysRequested
<1> QED
  BY <1>1, InvAlways, PTL

\* No submission outlives its session (the teardown of run_rpc_session).
THEOREM NoSubmissionLeft == Spec => []QuietTeardown
<1>1. Inv => QuietTeardown
  BY DEF Inv, EndpointUp, HoldsEndpoint, QuietTeardown
<1> QED
  BY <1>1, InvAlways, PTL

\* The slot loses its job to the teardown or to a chain that moved past it,
\* however late an answer is (clear_job_if_current).
THEOREM GoodWorkKept == Spec => CurrentWorkKept
<1>1. ASSUME Inv, [Next]_vars, job # NoJob, job' = NoJob
      PROVE  spc = "dropJob" \/ job.parent # tip.version
  <2> USE DEF slotVars
  <2>1. CASE NodeNext \/ UNCHANGED vars
    BY <1>1, <2>1 DEF NodeNext, MoveTip, AcceptBlock, RejectBlock, vars
  <2>2. CASE SessionStep \/ SessionError
    BY <1>1, <2>2 DEF SessionStep, SessionError, BeginSession, PollNewHeight,
     PollTimer, PollUnchanged, FetchTemplate, InstallJob, ReleaseWorkers,
     DropEndpoint, DropJob, EndSession, Inv, TypeOK
  <2>3. ASSUME NEW w \in Workers, WorkerStep(w) \/ RestartWorker(w)
        PROVE  job.parent # tip.version
    <3>1. ClearJob(w)
      BY <1>1, <2>3 DEF WorkerStep, LoadGeneration, ReadJob, Miss, Hit,
       CheckHit, DropHit, SubmitBlock, CountAccepted, CountRejected,
       AnnounceCleared, LeaveNewerJob, RestartWorker
    <3>2. SealOf(w) \in mined /\ SealOf(w).job = job
      BY <1>1, <3>1 DEF ClearJob, Inv, ReplyTrue, SealOf
    <3>3. job.parent \in Nat /\ tip.version \in Nat
      BY <1>1 DEF Inv, TypeOK, Job
    <3> QED
      BY <1>1, <3>2, <3>3 DEF Inv, MinedLeftTip
  <2> QED
    BY <1>1, <2>1, <2>2, <2>3 DEF Next
<1>2. Inv /\ [Next]_vars
        => [job # NoJob /\ job' = NoJob
              => spc = "dropJob" \/ job.parent # tip.version]_vars
  BY <1>1
<1> QED
  BY <1>2, InvAlways, PTL DEF Spec, CurrentWorkKept

-----------------------------------------------------------------------------
(* The ledger: what the counters say of the submissions.                   *)

Calling == {w \in Workers : wpc[w] = "call"}

Ledger ==
  /\ IsFiniteSet(sealed)
  /\ accepted = Cardinality(sealed)
  /\ SubmissionsAccounted

\* The workers inside a call can be counted.
LEMMA CallingFinite == IsFiniteSet(Calling) /\ Cardinality(Calling) \in Nat
  BY DirectMiningAssumption, FS_Subset, FS_CardinalityType DEF Calling

\* The ledger of submissions starts balanced.
LEMMA LedgerInit == Init => Ledger
<1> SUFFICES ASSUME Init PROVE Ledger
  OBVIOUS
<1>1. {w \in Workers : wpc[w] = "call"} = {}
  BY DEF Init
<1> QED
  BY <1>1, FS_EmptySet DEF Init, Ledger, SubmissionsAccounted

\* A step that touches neither counters nor calls keeps it balanced.
LEMMA LedgerKept ==
  ASSUME Ledger, UNCHANGED <<submitted, accepted, rejected, sealed>>,
         Calling' = Calling
  PROVE  Ledger'
  BY DEF Ledger, SubmissionsAccounted, Calling

\* The workers' steps keep it balanced.
LEMMA LedgerWorker ==
  ASSUME Inv, Ledger, NEW w \in Workers, WorkerStep(w) \/ RestartWorker(w)
  PROVE  Ledger'
<1> USE DEF ledgerVars, workerVars
<1>1. TypeOK
  BY DEF Inv
<1>2. /\ IsFiniteSet(Calling) /\ Cardinality(Calling) \in Nat
      /\ accepted \in Nat /\ rejected \in Nat /\ submitted \in Nat
      /\ submitted = accepted + rejected + Cardinality(Calling)
  BY <1>1, CallingFinite DEF TypeOK, Ledger, SubmissionsAccounted, Calling
<1>3. CASE SubmitBlock(w)
  <2>1. w \notin Calling /\ Calling' = Calling \cup {w}
    BY <1>1, <1>3 DEF SubmitBlock, Calling, TypeOK
  <2>2. Cardinality(Calling') = Cardinality(Calling) + 1
    BY <1>2, <2>1, FS_AddElement
  <2>3. submitted' = submitted + 1 /\ UNCHANGED <<accepted, rejected, sealed>>
    BY <1>3 DEF SubmitBlock
  <2>4. submitted' = accepted' + rejected' + Cardinality(Calling')
    BY <1>2, <2>2, <2>3
  <2> QED
    BY <2>3, <2>4 DEF Ledger, SubmissionsAccounted, Calling
<1>4. CASE CountAccepted(w) \/ CountRejected(w)
  <2>1. w \in Calling /\ Calling' = Calling \ {w}
    BY <1>1, <1>4 DEF CountAccepted, CountRejected, Calling, TypeOK
  <2>2. Cardinality(Calling') = Cardinality(Calling) - 1
    BY <1>2, <2>1, FS_RemoveElement
  <2>3. submitted' = submitted
    BY <1>4 DEF CountAccepted, CountRejected
  <2>4. \/ accepted' = accepted + 1 /\ rejected' = rejected
        \/ accepted' = accepted /\ rejected' = rejected + 1
    BY <1>4 DEF CountAccepted, CountRejected
  <2>5. submitted' = accepted' + rejected' + Cardinality(Calling')
    BY <1>2, <2>2, <2>3, <2>4
  <2>6. IsFiniteSet(sealed') /\ accepted' = Cardinality(sealed')
    <3>1. CASE CountAccepted(w)
      <4>1. SealOf(w) \notin sealed
        BY <3>1 DEF CountAccepted, Validated, Inv, ReplyTrue
      <4>2. Cardinality(sealed \cup {SealOf(w)}) = Cardinality(sealed) + 1
        BY <4>1, FS_AddElement DEF Ledger
      <4>3. IsFiniteSet(sealed \cup {SealOf(w)})
        BY FS_AddElement DEF Ledger
      <4> QED
        BY <3>1, <4>2, <4>3 DEF CountAccepted, Ledger
    <3>2. CASE CountRejected(w)
      BY <3>2 DEF CountRejected, Ledger
    <3> QED
      BY <1>4, <3>1, <3>2
  <2> QED
    BY <2>5, <2>6 DEF Ledger, SubmissionsAccounted, Calling
<1>5. CASE ~SubmitBlock(w) /\ ~CountAccepted(w) /\ ~CountRejected(w)
  <2>1. UNCHANGED <<submitted, accepted, rejected, sealed>>
    BY <1>5 DEF WorkerStep, LoadGeneration, ReadJob, Miss, Hit, CheckHit,
     DropHit, ClearJob, AnnounceCleared, LeaveNewerJob, RestartWorker
  <2>2. \A x \in Workers : wpc'[x] = "call" <=> wpc[x] = "call"
    BY <1>1, <1>5 DEF WorkerStep, LoadGeneration, ReadJob, Miss, Hit, Hashing,
     CheckHit, DropHit, ClearJob, AnnounceCleared, LeaveNewerJob, RestartWorker, TypeOK
  <2>3. Calling' = Calling
    BY <2>2 DEF Calling
  <2> QED
    BY <2>1, <2>3, LedgerKept
<1> QED
  BY <1>3, <1>4, <1>5

\* Every step does.
LEMMA LedgerNext == Inv /\ Ledger /\ [Next]_vars => Ledger'
<1> SUFFICES ASSUME Inv, Ledger, [Next]_vars PROVE Ledger'
  OBVIOUS
<1>1. CASE NodeNext \/ SessionStep \/ SessionError \/ UNCHANGED vars
  <2>1. UNCHANGED <<submitted, accepted, rejected, sealed, wpc>>
    BY <1>1 DEF NodeNext, MoveTip, AcceptBlock, RejectBlock, SessionStep,
     SessionError, BeginSession, PollNewHeight, PollTimer, PollUnchanged,
     FetchTemplate, InstallJob, ReleaseWorkers, DropEndpoint, DropJob,
     EndSession, vars, ledgerVars, workerVars
  <2> QED
    BY <2>1, LedgerKept DEF Calling
<1>2. ASSUME NEW w \in Workers, WorkerStep(w) \/ RestartWorker(w)
      PROVE  Ledger'
  BY <1>2, LedgerWorker
<1> QED
  BY <1>1, <1>2 DEF Next

\* So it always is.
LEMMA LedgerAlways == Spec => []Ledger
  BY LedgerInit, LedgerNext, InvAlways, PTL DEF Spec

\* Every submission is counted once, or still in its call (worker_loop).
THEOREM EverySealCounted == Spec => []SubmissionsAccounted
<1>1. Ledger => SubmissionsAccounted
  BY DEF Ledger
<1> QED
  BY <1>1, LedgerAlways, PTL

\* A block counted as accepted is in the chain, and counted once
\* (validate_rpc_submission, record_sealed_block).
THEOREM AcceptsAreBlocks == Spec => []AcceptedAreMined
<1>1. Inv /\ Ledger => AcceptedAreMined
  BY DEF Inv, Ledger, AcceptedAreMined
<1> QED
  BY <1>1, InvAlways, LedgerAlways, PTL
=============================================================================
