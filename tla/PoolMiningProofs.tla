-------------------------- MODULE PoolMiningProofs --------------------------
(***************************************************************************)
(* PoolMining, for any number of workers, any work and any bounds.         *)
(***************************************************************************)
EXTENDS PoolMining, FiniteSetTheorems, TLAPS

USE DEF BumpGeneration, FinishShare, EmptySlot, HasRoom, NotCounted, GiveBack,
        WriteTimeout, NoConn, NoGeneration

\* The limit is a number: there are finitely many workers.
LEMMA MaxPendingType == MaxPending \in Nat
  BY PoolMiningAssumption, FS_CardinalityType DEF MaxPending

\* finish_share stays within the limit, and frees at most one place.
LEMMA FinishedType ==
  ASSUME NEW n \in 0..MaxPending
  PROVE  /\ Finished(n) \in 0..MaxPending
         /\ Finished(n) = IF n = 0 THEN 0 ELSE n - 1
  BY MaxPendingType DEF Finished

\* A worker that holds the connection has a share in hand.
LEMMA ShareInHand ==
  ASSUME TypeOK, NEW w \in Workers, wpc[w] \in {"write", "count"}
  PROVE  /\ share[w] \in Share
         /\ share[w].conn \in Conns
<1>1. share[w] \in Share
  BY DEF TypeOK, HoldsConnection
<1> QED
  BY <1>1 DEF Share

-----------------------------------------------------------------------------
(* Type correctness, one lemma per kind of step.                           *)

\* The start of the program.
LEMMA TypeInit == Init => TypeOK
<1> SUFFICES ASSUME Init PROVE TypeOK
  OBVIOUS
<1> USE PoolMiningAssumption, MaxPendingType
<1>1. pending \in [Conns -> 0..MaxPending]
  BY DEF Init
<1>2. /\ wpc \in [Workers -> WorkerStates]
      /\ seen \in [Workers -> Nat \cup {NoGeneration}]
      /\ held \in [Workers -> Job \cup {NoJob}]
      /\ share \in [Workers -> Share \cup {NoShare}]
      /\ \A w \in Workers : HoldsConnection(w) <=> share[w] # NoShare
  BY DEF Init, WorkerStates, HoldsConnection
<1> QED
  BY <1>1, <1>2 DEF Init, TypeOK, SessionStates

\* The session's own steps and its failures.
LEMMA TypeSession == TypeOK /\ (SessionStep \/ LoginFails \/ SessionFails) => TypeOK'
<1> USE PoolMiningAssumption
    DEF slotVars, ledgerVars, sessionVars, shareVars, workerVars,
        SessionStates, HoldsConnection, TypeOK
<1> SUFFICES ASSUME TypeOK, SessionStep \/ LoginFails \/ SessionFails PROVE TypeOK'
  OBVIOUS
<1>1. CASE Connect  BY <1>1 DEF Connect, Conns
<1>2. CASE Login  BY <1>2 DEF Login
<1>3. CASE ReleaseWorkers  BY <1>3 DEF ReleaseWorkers
<1>4. CASE ClearConnection  BY <1>4 DEF ClearConnection
<1>5. CASE EndSession  BY <1>5 DEF EndSession
<1>6. CASE LoginFails  BY <1>6 DEF LoginFails
<1>7. CASE SessionFails  BY <1>7 DEF SessionFails
<1> QED
  BY <1>1, <1>2, <1>3, <1>4, <1>5, <1>6, <1>7 DEF SessionStep

\* What the pool sends.
LEMMA TypePool == TypeOK /\ PoolStep => TypeOK'
<1> USE PoolMiningAssumption
    DEF slotVars, ledgerVars, sessionVars, shareVars, workerVars,
        SessionStates, HoldsConnection
<1> SUFFICES ASSUME TypeOK, PoolStep PROVE TypeOK'
  OBVIOUS
<1>1. CASE InstallJob
  <2>1. sessions \in Conns
    BY <1>1 DEF InstallJob, TypeOK
  <2>2. job' \in Job
    BY <1>1, <2>1 DEF InstallJob, Job
  <2> QED
    BY <1>1, <2>1, <2>2 DEF InstallJob, TypeOK
<1>2. ASSUME spc = "read", FinishShare PROVE pending' \in [Conns -> 0..MaxPending]
  <2>1. sessions \in Conns /\ pending \in [Conns -> 0..MaxPending]
    BY <1>2 DEF TypeOK
  <2>2. Finished(pending[sessions]) \in 0..MaxPending
    BY <2>1, FinishedType
  <2> QED
    BY <1>2, <2>1, <2>2
<1>3. CASE ReceiveAnswer
  BY <1>2, <1>3 DEF ReceiveAnswer, Verdict, TypeOK
<1>4. CASE StrayAnswer
  BY <1>2, <1>4 DEF StrayAnswer, Verdict, TypeOK
<1>5. CASE KeepAlive
  BY <1>5 DEF KeepAlive, vars, TypeOK
<1> QED
  BY <1>1, <1>3, <1>4, <1>5 DEF PoolStep

\* The workers' steps.
LEMMA TypeWorker ==
  ASSUME TypeOK, NEW w \in Workers,
         WorkerStep(w) \/ Write(w) \/ RestartWorker(w)
  PROVE  TypeOK'
<1> USE PoolMiningAssumption
    DEF slotVars, ledgerVars, sessionVars, shareVars, workerVars,
        SessionStates, WorkerStates, HoldsConnection
<1>1. CASE LoadGeneration(w)  BY <1>1 DEF LoadGeneration, TypeOK
<1>2. CASE ReadJob(w)  BY <1>2 DEF ReadJob, TypeOK
<1>3. CASE Hit(w)  BY <1>3 DEF Hit, TypeOK
<1>4. CASE CheckHit(w)  BY <1>4 DEF CheckHit, TypeOK
<1>5. CASE ReserveShare(w)
  <2>1. connection \in Conns /\ pending[connection] \in 0..MaxPending
    BY <1>5 DEF ReserveShare, TypeOK
  <2>2. pending[connection] + 1 \in 0..MaxPending
    BY <1>5, <2>1, MaxPendingType DEF ReserveShare
  <2>3. [id |-> nextRequest, conn |-> connection, worker |-> w] \in Share
    BY <2>1 DEF Share, TypeOK
  <2> QED
    BY <1>5, <2>1, <2>2, <2>3 DEF ReserveShare, TypeOK
<1>6. CASE LoseShare(w)  BY <1>6 DEF LoseShare, TypeOK
<1>7. CASE Write(w)
  <2>1. share[w] \in Share
    BY <1>7, ShareInHand DEF Write
  <2> QED
    BY <1>7, <2>1 DEF Write, TypeOK
<1>8. CASE WriteFails(w)
  <2>1. share[w].conn \in Conns
    BY <1>8, ShareInHand DEF WriteFails
  <2>2. Finished(pending[share[w].conn]) \in 0..MaxPending
    BY <2>1, FinishedType DEF TypeOK
  <2> QED
    BY <1>8, <2>1, <2>2 DEF WriteFails, TypeOK
<1>9. CASE CountSubmitted(w)  BY <1>9 DEF CountSubmitted, TypeOK
<1>10. CASE RestartWorker(w)  BY <1>10 DEF RestartWorker, TypeOK
<1> QED
  BY <1>1, <1>2, <1>3, <1>4, <1>5, <1>6, <1>7, <1>8, <1>9, <1>10
  DEF WorkerStep

\* Every step.
LEMMA TypeNext == TypeOK /\ [Next]_vars => TypeOK'
<1>1. TypeOK /\ UNCHANGED vars => TypeOK'
  BY DEF TypeOK, vars, slotVars, ledgerVars, sessionVars, shareVars,
         workerVars, HoldsConnection
<1> QED
  BY <1>1, TypeSession, TypePool, TypeWorker DEF Next

\* Every variable keeps its type: in particular a connection's counter stays
\* within the limit, and a worker has a share in hand exactly while it holds
\* the connection (Connection::reserve_share, worker_loop).
THEOREM TypeCorrect == Spec => []TypeOK
  BY TypeInit, TypeNext, PTL DEF Spec

-----------------------------------------------------------------------------
(* The slot: PoolMining implements WorkSlot.                               *)

\* The mapping to the abstract slot, one lemma per kind of step.
LEMMA SlotInit == Init => Slot!Init
  BY DEF Init, Slot!Init, Owing, Slot!NoGeneration

\* Steps that leave the slot, the generation and the workers alone.
LEMMA SlotUntouched ==
  ASSUME UNCHANGED <<job, generation, wpc, seen, held>>, Owing' = Owing
  PROVE  UNCHANGED Slot!vars
  BY DEF Slot!vars

\* The session and the pool: new work, and giving it up.
LEMMA SlotSession ==
  TypeOK /\ (SessionStep \/ PoolStep \/ LoginFails \/ SessionFails)
    => [Slot!Next]_(Slot!vars)
<1> SUFFICES ASSUME TypeOK, SessionStep \/ PoolStep \/ LoginFails \/ SessionFails
             PROVE  [Slot!Next]_(Slot!vars)
  OBVIOUS
<1> USE PoolMiningAssumption DEF slotVars, sessionVars, workerVars
<1>1. CASE \/ Connect \/ Login \/ LoginFails \/ SessionFails
           \/ ReceiveAnswer \/ StrayAnswer \/ KeepAlive
  <2>1. UNCHANGED <<job, generation, wpc, seen, held>>
    BY <1>1 DEF Connect, Login, LoginFails, SessionFails, ReceiveAnswer,
       StrayAnswer, KeepAlive, vars
  <2>2. Owing' = Owing
    BY <1>1 DEF Connect, Login, LoginFails, SessionFails, ReceiveAnswer,
       StrayAnswer, KeepAlive, vars, Owing
  <2> QED
    BY <2>1, <2>2, SlotUntouched
<1>2. CASE InstallJob \/ ClearConnection
  <2>1. Session \notin Owing /\ Owing' = Owing \cup {Session}
    BY <1>2 DEF InstallJob, ClearConnection, Owing
  <2>2. job' \in Job \cup {NoJob}
    BY <1>2, TypeNext DEF TypeOK, Next, SessionStep, PoolStep, InstallJob,
       ClearConnection
  <2>3. Slot!Replace(Session)
    BY <1>2, <2>1, <2>2 DEF InstallJob, ClearConnection, Slot!Replace
  <2> QED
    BY <2>3 DEF Slot!Next
<1>3. CASE ReleaseWorkers \/ EndSession
  <2>1. Session \in Owing /\ Owing' = Owing \ {Session}
    BY <1>3 DEF ReleaseWorkers, EndSession, Owing
  <2>2. Slot!Bump(Session)
    BY <1>3, <2>1 DEF ReleaseWorkers, EndSession, Slot!Bump
  <2> QED
    BY <2>2 DEF Slot!Next
<1> QED
  BY <1>1, <1>2, <1>3 DEF SessionStep, PoolStep

\* Workers only read the slot.
LEMMA SlotWorker ==
  ASSUME TypeOK, NEW w \in Workers,
         WorkerStep(w) \/ Write(w) \/ RestartWorker(w)
  PROVE  [Slot!Next]_(Slot!vars)
<1> USE DEF slotVars, sessionVars, workerVars, TypeOK
<1> DEFINE Phase == [x \in Workers |-> IF wpc[x] = "read" THEN "reading"
                                                          ELSE "working"]
<1>1. CASE LoadGeneration(w)
  <2>1. Owing' = Owing
    BY <1>1 DEF LoadGeneration, Owing
  <2>2. Phase[w] = "working" /\ Phase' = [Phase EXCEPT ![w] = "reading"]
    BY <1>1 DEF LoadGeneration
  <2>3. Slot!Load(w)
    BY <1>1, <2>1, <2>2 DEF LoadGeneration, Slot!Load
  <2> QED
    BY <2>3 DEF Slot!Next
<1>2. CASE ReadJob(w)
  <2>1. Owing' = Owing
    BY <1>2 DEF ReadJob, Owing
  <2>2. Phase[w] = "reading" /\ Phase' = [Phase EXCEPT ![w] = "working"]
    BY <1>2 DEF ReadJob
  <2>3. Slot!Take(w)
    BY <1>2, <2>1, <2>2 DEF ReadJob, Slot!Take
  <2> QED
    BY <2>3 DEF Slot!Next
<1>3. CASE RestartWorker(w)
  <2>1. Owing' = Owing /\ Phase' = Phase /\ Phase[w] = "working"
    BY <1>3 DEF RestartWorker, Owing
  <2>2. Slot!Restart(w)
    BY <1>3, <2>1 DEF RestartWorker, Slot!Restart, Slot!NoGeneration
  <2> QED
    BY <2>2 DEF Slot!Next
<1>4. CASE \/ Hit(w) \/ CheckHit(w) \/ ReserveShare(w) \/ LoseShare(w)
           \/ Write(w) \/ WriteFails(w) \/ CountSubmitted(w)
  <2>1. UNCHANGED <<job, generation, spc, seen, held>>
    BY <1>4 DEF Hit, CheckHit, ReserveShare, LoseShare, Write, WriteFails,
       CountSubmitted
  <2>2. \A x \in Workers : (wpc'[x] = "read") = (wpc[x] = "read")
    BY <1>4 DEF Hit, CheckHit, ReserveShare, LoseShare, Write, WriteFails,
       CountSubmitted
  <2>3. Owing' = Owing /\ Phase' = Phase
    BY <2>1, <2>2 DEF Owing
  <2> QED
    BY <2>1, <2>3 DEF Slot!vars
<1> QED
  BY <1>1, <1>2, <1>3, <1>4 DEF WorkerStep

\* Every step is a step of the slot or a stutter.
LEMMA SlotNext == TypeOK /\ [Next]_vars => [Slot!Next]_(Slot!vars)
<1>1. UNCHANGED vars => UNCHANGED Slot!vars
  BY SlotUntouched DEF vars, slotVars, sessionVars, workerVars, Owing
<1> QED
  BY <1>1, SlotSession, SlotWorker DEF Next

\* handle_message, clear_connection and the head of worker_loop use the slot as
\* WorkSlot says: bump after the write, load before the read.
THEOREM ImplementsWorkSlot == Spec => WorkSlotSpec
  BY SlotInit, SlotNext, TypeCorrect, PTL DEF Spec, WorkSlotSpec, Slot!Spec

-----------------------------------------------------------------------------
(* The work in the slot belongs to the connection.                         *)

\* Between a connection that is given up and the next login the slot is empty,
\* also after a login that failed; work is only installed on the connection.
SlotJobLive ==
  /\ job # NoJob => job.conn = connection
  /\ spc \in {"connect", "login", "clearBump"} => job = NoJob

\* Only the session touches slot and connection.
LEMMA LiveNext == TypeOK /\ SlotJobLive /\ [Next]_vars => SlotJobLive'
<1> SUFFICES ASSUME TypeOK, SlotJobLive, [Next]_vars PROVE SlotJobLive'
  OBVIOUS
<1> USE DEF slotVars, sessionVars, SlotJobLive
<1>1. CASE InstallJob
  <2>1. job'.conn = sessions /\ connection' = connection
    BY <1>1 DEF InstallJob
  <2>2. connection = sessions
    BY <1>1 DEF InstallJob, TypeOK
  <2> QED
    BY <1>1, <2>1, <2>2 DEF InstallJob
<1>2. CASE SessionStep \/ LoginFails \/ SessionFails
  BY <1>2 DEF SessionStep, Connect, Login, ReleaseWorkers, ClearConnection,
     EndSession, LoginFails, SessionFails
<1>3. CASE ReceiveAnswer \/ StrayAnswer \/ KeepAlive \/ UNCHANGED vars
  BY <1>3 DEF ReceiveAnswer, StrayAnswer, KeepAlive, vars
<1>4. ASSUME NEW w \in Workers, WorkerStep(w) \/ Write(w) \/ RestartWorker(w)
      PROVE  SlotJobLive'
  <2>1. UNCHANGED <<job, connection, spc>>
    BY <1>4 DEF WorkerStep, LoadGeneration, ReadJob, Hit, CheckHit,
       ReserveShare, LoseShare, Write, WriteFails, CountSubmitted, RestartWorker
  <2> QED
    BY <2>1
<1> QED
  BY <1>1, <1>2, <1>3, <1>4 DEF Next, PoolStep

\* With no bump owed, a worker about to hash under the current generation holds
\* the job in the slot: what WorkSlot promises, seen from the pool.
CoherentHere ==
  spc \notin {"bump", "clearBump"} =>
    \A w \in Workers : wpc[w] = "loop" /\ seen[w] = generation => held[w] = job

\* From the refinement and WorkSlot's own theorem.
LEMMA WorkersCoherent == Spec => []CoherentHere
<1>1. Slot!Coherent => CoherentHere
  BY DEF Slot!Coherent, CoherentHere, Owing
<1> QED
  BY <1>1, Slot!SlotCoherent, ImplementsWorkSlot, PTL DEF WorkSlotSpec

\* The job in the slot, and the job of every worker that finds its generation
\* current, belong to the connection State holds (clear_connection).
THEOREM NoDeadWork == Spec => []WorkIsLive
<1>1. Init => SlotJobLive
  BY DEF Init, SlotJobLive
<1>2. SlotJobLive /\ CoherentHere => WorkIsLive
  BY DEF SlotJobLive, CoherentHere, WorkIsLive
<1> QED
  BY <1>1, <1>2, LiveNext, WorkersCoherent, TypeCorrect, PTL DEF Spec

-----------------------------------------------------------------------------
(* Shares and their answers.                                               *)

\* A share is known by its id and the worker that sends it; one that is being
\* written is not in flight yet.  There are finitely many.
SharesDistinct ==
  /\ IsFiniteSet(inFlight)
  /\ \A s \in inFlight : s.id < nextRequest
  /\ \A w \in Workers : wpc[w] \in {"write", "count"} =>
       share[w].id < nextRequest /\ share[w].worker = w
  /\ \A w \in Workers : wpc[w] = "write" => share[w] \notin inFlight

LedgerInv == SharesDistinct /\ AnswersAccounted /\ PendingAccounts

\* The sets the ledger counts are finite.
LEMMA Finite ==
  ASSUME SharesDistinct
  PROVE  /\ IsFiniteSet(Counting) /\ Cardinality(Counting) \in Nat
         /\ Cardinality(inFlight) \in Nat
         /\ \A c \in Conns :
              /\ IsFiniteSet(Unanswered(c)) /\ Cardinality(Unanswered(c)) \in Nat
              /\ IsFiniteSet(Writing(c)) /\ Cardinality(Writing(c)) \in Nat
<1>1. IsFiniteSet(Counting)
  BY PoolMiningAssumption, FS_Subset DEF Counting
<1>2. ASSUME NEW c \in Conns
      PROVE  IsFiniteSet(Unanswered(c)) /\ IsFiniteSet(Writing(c))
  <2>1. IsFiniteSet(Unanswered(c))
    BY FS_Subset, Unanswered(c) \subseteq inFlight DEF Unanswered, SharesDistinct
  <2>2. IsFiniteSet(Writing(c))
    BY FS_Subset, PoolMiningAssumption DEF Writing
  <2> QED
    BY <2>1, <2>2
<1> QED
  BY <1>1, <1>2, FS_CardinalityType DEF SharesDistinct

\* A step that sends, answers and counts nothing.
LEMMA LedgerQuiet ==
  ASSUME LedgerInv, TypeOK,
         UNCHANGED <<pending, inFlight, share, ledgerVars, strays>>,
         nextRequest' \in {nextRequest, nextRequest + 1},
         \A w \in Workers : /\ (wpc'[w] = "write") = (wpc[w] = "write")
                            /\ (wpc'[w] = "count") = (wpc[w] = "count")
  PROVE  LedgerInv'
<1> USE DEF LedgerInv, ledgerVars
<1>1. SharesDistinct'
  <2>1. \A s \in inFlight : s.id \in Nat
    BY DEF TypeOK, Share
  <2>2. \A w \in Workers : wpc[w] \in {"write", "count"} => share[w].id \in Nat
    BY ShareInHand DEF Share
  <2>3. nextRequest \in Nat
    BY DEF TypeOK
  <2> QED
    BY <2>1, <2>2, <2>3 DEF SharesDistinct
<1>2. AnswersAccounted'
  <2>1. Counting' = Counting
    BY DEF Counting
  <2> QED
    BY <2>1 DEF AnswersAccounted
<1>3. ASSUME NEW c \in Conns PROVE Due(c)' = Due(c)
  <2>1. Writing(c)' = Writing(c) /\ Unanswered(c)' = Unanswered(c)
    BY DEF Writing, Unanswered
  <2> QED
    BY <2>1 DEF Due
<1>4. PendingAccounts'
  BY <1>3 DEF PendingAccounts
<1> QED
  BY <1>1, <1>2, <1>4

\* The session answers nothing ...
LEMMA LedgerSession ==
  ASSUME TypeOK, LedgerInv, SessionStep \/ LoginFails \/ SessionFails \/ InstallJob
  PROVE  LedgerInv'
<1>1. UNCHANGED <<pending, inFlight, nextRequest, share, ledgerVars, strays, wpc>>
  BY DEF SessionStep, Connect, Login, ReleaseWorkers, ClearConnection,
     EndSession, LoginFails, SessionFails, InstallJob, shareVars, workerVars
<1> QED
  BY <1>1, LedgerQuiet

\* ... but the answers it reads.
LEMMA LedgerAnswer ==
  ASSUME TypeOK, LedgerInv, ReceiveAnswer
  PROVE  LedgerInv'
<1> USE DEF LedgerInv, sessionVars, workerVars
<1>1. PICK s \in inFlight : s.conn = sessions /\ inFlight' = inFlight \ {s}
  BY DEF ReceiveAnswer
<1>2. sessions \in Conns
  BY DEF ReceiveAnswer, TypeOK
<1>3. SharesDistinct'
  BY <1>1, FS_RemoveElement DEF ReceiveAnswer, SharesDistinct
<1>4. Cardinality(inFlight') = Cardinality(inFlight) - 1
  BY <1>1, FS_RemoveElement DEF SharesDistinct
<1>5. AnswersAccounted'
  <2>1. Counting' = Counting
    BY DEF ReceiveAnswer, Counting
  <2>2. accepted' + rejected' = accepted + rejected + 1
    BY DEF ReceiveAnswer, Verdict, TypeOK
  <2>3. submitted' = submitted /\ strays' = strays
    BY DEF ReceiveAnswer
  <2> QED
    BY <1>4, <2>1, <2>2, <2>3, Finite DEF AnswersAccounted, TypeOK
<1>6. ASSUME NEW c \in Conns
      PROVE  pending'[c] <= Due(c)' /\ Due(c)' <= pending'[c] + strays'
  <2>1. Writing(c)' = Writing(c)
    BY DEF ReceiveAnswer, Writing
  <2>2. CASE c = sessions
    <3>1. Unanswered(c)' = Unanswered(c) \ {s} /\ s \in Unanswered(c)
      BY <1>1, <2>2 DEF Unanswered
    <3>2. Cardinality(Unanswered(c)') = Cardinality(Unanswered(c)) - 1
      BY <3>1, Finite, FS_RemoveElement
    <3>3. Due(c)' = Due(c) - 1
      BY <2>1, <3>2, Finite DEF Due
    <3>4. Cardinality(Unanswered(c)) # 0
      BY <3>1, Finite, FS_EmptySet
    <3>5. Due(c) \in Nat /\ Due(c) # 0
      BY <3>4, Finite DEF Due
    <3>6. pending'[c] = IF pending[c] = 0 THEN 0 ELSE pending[c] - 1
      BY <1>2, <2>2, FinishedType DEF ReceiveAnswer, TypeOK
    <3> QED
      BY <3>3, <3>5, <3>6, MaxPendingType DEF ReceiveAnswer, PendingAccounts, TypeOK
  <2>3. CASE c # sessions
    <3>1. Unanswered(c)' = Unanswered(c)
      BY <1>1, <2>3 DEF Unanswered
    <3>2. pending'[c] = pending[c] /\ strays' = strays
      BY <2>3 DEF ReceiveAnswer, TypeOK
    <3> QED
      BY <2>1, <3>1, <3>2 DEF Due, PendingAccounts
  <2> QED
    BY <2>2, <2>3
<1>7. PendingAccounts'
  BY <1>6 DEF PendingAccounts
<1> QED
  BY <1>3, <1>5, <1>7

\* An answer to no share frees a place too many: the one thing that may let
\* the counter fall behind.
LEMMA LedgerStray ==
  ASSUME TypeOK, LedgerInv, StrayAnswer
  PROVE  LedgerInv'
<1> USE DEF LedgerInv, sessionVars, workerVars
<1>1. SharesDistinct'
  BY DEF StrayAnswer, SharesDistinct
<1>2. AnswersAccounted'
  <2>1. Counting' = Counting
    BY DEF StrayAnswer, Counting
  <2>2. accepted' + rejected' = accepted + rejected + 1
    BY DEF StrayAnswer, Verdict, TypeOK
  <2>3. submitted' = submitted /\ strays' = strays + 1 /\ inFlight' = inFlight
    BY DEF StrayAnswer
  <2> QED
    BY <2>1, <2>2, <2>3, Finite DEF AnswersAccounted, TypeOK
<1>3. ASSUME NEW c \in Conns
      PROVE  pending'[c] <= Due(c)' /\ Due(c)' <= pending'[c] + strays'
  <2>1. Due(c)' = Due(c)
    BY DEF StrayAnswer, Due, Writing, Unanswered
  <2>2. pending'[c] \in {pending[c], Finished(pending[c])} /\ strays' = strays + 1
    BY DEF StrayAnswer, TypeOK
  <2>3. Finished(pending[c]) = IF pending[c] = 0 THEN 0 ELSE pending[c] - 1
    BY FinishedType DEF TypeOK
  <2>4. Due(c) \in Nat
    BY Finite DEF Due
  <2> QED
    BY <2>1, <2>2, <2>3, <2>4, MaxPendingType DEF PendingAccounts, TypeOK
<1>4. PendingAccounts'
  BY <1>3 DEF PendingAccounts
<1> QED
  BY <1>1, <1>2, <1>4

\* A worker takes a place before it writes ...
LEMMA LedgerReserve ==
  ASSUME TypeOK, LedgerInv, NEW w \in Workers, ReserveShare(w)
  PROVE  LedgerInv'
<1> USE DEF LedgerInv, ledgerVars
<1> DEFINE new == [id |-> nextRequest, conn |-> connection, worker |-> w]
<1>1. /\ wpc[w] = "take" /\ wpc' = [wpc EXCEPT ![w] = "write"]
      /\ share' = [share EXCEPT ![w] = new]
      /\ nextRequest' = nextRequest + 1 /\ nextRequest \in Nat
      /\ connection \in Conns
      /\ UNCHANGED <<inFlight, submitted, accepted, rejected, strays>>
  BY DEF ReserveShare, TypeOK
<1>2. \A v \in Workers \ {w} : share'[v] = share[v] /\ wpc'[v] = wpc[v]
  BY <1>1 DEF TypeOK
<1>3. share'[w] = new /\ wpc'[w] = "write"
  BY <1>1 DEF TypeOK
<1>4. SharesDistinct'
  <2>1. \A s \in inFlight : s.id \in Nat /\ s.id < nextRequest
    BY DEF TypeOK, Share, SharesDistinct
  <2>2. new \notin inFlight
    BY <1>1, <2>1
  <2>3. ASSUME NEW v \in Workers, wpc'[v] \in {"write", "count"}
        PROVE  share'[v].id < nextRequest' /\ share'[v].worker = v
    <3>1. CASE v = w
      BY <1>1, <1>3, <3>1
    <3>2. CASE v # w
      <4>1. share[v].id \in Nat /\ share[v].id < nextRequest /\ share[v].worker = v
        BY <1>2, <2>3, <3>2, ShareInHand DEF Share, SharesDistinct
      <4> QED
        BY <1>1, <1>2, <3>2, <4>1
    <3> QED
      BY <3>1, <3>2
  <2>4. ASSUME NEW v \in Workers, wpc'[v] = "write" PROVE share'[v] \notin inFlight
    BY <1>2, <1>3, <2>2, <2>4 DEF SharesDistinct
  <2> QED
    BY <1>1, <2>1, <2>3, <2>4 DEF SharesDistinct
<1>5. AnswersAccounted'
  <2>1. Counting' = Counting
    BY <1>1, <1>2, <1>3 DEF Counting
  <2> QED
    BY <1>1, <2>1 DEF AnswersAccounted
<1>6. ASSUME NEW c \in Conns
      PROVE  pending'[c] <= Due(c)' /\ Due(c)' <= pending'[c] + strays'
  <2>1. Unanswered(c)' = Unanswered(c)
    BY <1>1 DEF Unanswered
  <2>2. CASE c = connection
    <3>1. Writing(c)' = Writing(c) \cup {w} /\ w \notin Writing(c)
      BY <1>1, <1>2, <1>3, <2>2 DEF Writing
    <3>2. Cardinality(Writing(c)') = Cardinality(Writing(c)) + 1
      BY <3>1, Finite, FS_AddElement
    <3>3. Due(c)' = Due(c) + 1
      BY <2>1, <3>2, Finite DEF Due
    <3>4. pending'[c] = pending[c] + 1
      BY <2>2 DEF ReserveShare, TypeOK
    <3>5. Due(c) \in Nat
      BY Finite DEF Due
    <3> QED
      BY <1>1, <3>3, <3>4, <3>5, MaxPendingType DEF PendingAccounts, TypeOK
  <2>3. CASE c # connection
    <3>1. Writing(c)' = Writing(c)
      BY <1>1, <1>2, <1>3, <2>3 DEF Writing
    <3>2. pending'[c] = pending[c]
      BY <2>3 DEF ReserveShare, TypeOK
    <3> QED
      BY <1>1, <2>1, <3>1, <3>2 DEF Due, PendingAccounts
  <2> QED
    BY <2>2, <2>3
<1>7. PendingAccounts'
  BY <1>6 DEF PendingAccounts
<1> QED
  BY <1>4, <1>5, <1>7

\* ... keeps it while the share travels ...
LEMMA LedgerWrite ==
  ASSUME TypeOK, LedgerInv, NEW w \in Workers, Write(w)
  PROVE  LedgerInv'
<1> USE DEF LedgerInv, ledgerVars
<1>1. /\ wpc[w] = "write" /\ wpc' = [wpc EXCEPT ![w] = "count"]
      /\ inFlight' = inFlight \cup {share[w]}
      /\ UNCHANGED <<pending, nextRequest, share, submitted, accepted, rejected,
                     strays>>
  BY DEF Write
<1>2. /\ wpc'[w] = "count"
      /\ \A v \in Workers \ {w} : wpc'[v] = wpc[v]
  BY <1>1 DEF TypeOK
<1>3. share[w] \notin inFlight
  BY <1>1 DEF SharesDistinct
<1>4. Cardinality(inFlight') = Cardinality(inFlight) + 1
  BY <1>1, <1>3, FS_AddElement DEF SharesDistinct
<1>5. SharesDistinct'
  <2>1. IsFiniteSet(inFlight')
    BY <1>1, FS_AddElement DEF SharesDistinct
  <2>2. \A s \in inFlight' : s.id < nextRequest
    BY <1>1 DEF SharesDistinct
  <2>3. ASSUME NEW v \in Workers, wpc'[v] = "write"
        PROVE  share[v] \notin inFlight'
    <3>1. v # w /\ wpc[v] = "write"
      BY <1>2, <2>3
    <3>2. share[v].worker = v /\ share[w].worker = w /\ share[v] \notin inFlight
      BY <1>1, <3>1 DEF SharesDistinct
    <3> QED
      BY <1>1, <3>1, <3>2
  <2>4. \A v \in Workers : wpc'[v] \in {"write", "count"} =>
          share[v].id < nextRequest /\ share[v].worker = v
    BY <1>1, <1>2 DEF SharesDistinct
  <2> QED
    BY <1>1, <2>1, <2>2, <2>3, <2>4 DEF SharesDistinct
<1>6. AnswersAccounted'
  <2>1. Counting' = Counting \cup {w} /\ w \notin Counting
    BY <1>1, <1>2 DEF Counting
  <2>2. Cardinality(Counting') = Cardinality(Counting) + 1
    BY <2>1, Finite, FS_AddElement
  <2> QED
    BY <1>1, <1>4, <2>2, Finite DEF AnswersAccounted, TypeOK
<1>7. ASSUME NEW c \in Conns PROVE Due(c)' = Due(c)
  <2>1. CASE share[w].conn = c
    <3>1. Unanswered(c)' = Unanswered(c) \cup {share[w]} /\ share[w] \notin Unanswered(c)
      BY <1>1, <1>3, <2>1 DEF Unanswered
    <3>2. Writing(c)' = Writing(c) \ {w} /\ w \in Writing(c)
      BY <1>1, <1>2, <2>1 DEF Writing
    <3>3. Cardinality(Unanswered(c)') = Cardinality(Unanswered(c)) + 1
      BY <3>1, Finite, FS_AddElement
    <3>4. Cardinality(Writing(c)') = Cardinality(Writing(c)) - 1
      BY <3>2, Finite, FS_RemoveElement
    <3> QED
      BY <3>3, <3>4, Finite DEF Due
  <2>2. CASE share[w].conn # c
    <3>1. Unanswered(c)' = Unanswered(c)
      BY <1>1, <2>2 DEF Unanswered
    <3>2. Writing(c)' = Writing(c)
      BY <1>1, <1>2, <2>2 DEF Writing
    <3> QED
      BY <3>1, <3>2 DEF Due
  <2> QED
    BY <2>1, <2>2
<1>8. PendingAccounts'
  BY <1>1, <1>7 DEF PendingAccounts
<1> QED
  BY <1>5, <1>6, <1>8

\* ... or gives it back when the write fails.
LEMMA LedgerWriteFails ==
  ASSUME TypeOK, LedgerInv, NEW w \in Workers, WriteFails(w)
  PROVE  LedgerInv'
<1> USE DEF LedgerInv, ledgerVars
<1>1. /\ wpc[w] = "write" /\ wpc' = [wpc EXCEPT ![w] = "loop"]
      /\ share' = [share EXCEPT ![w] = NoShare]
      /\ UNCHANGED <<inFlight, nextRequest, submitted, accepted, rejected, strays>>
  BY DEF WriteFails
<1>2. /\ wpc'[w] = "loop"
      /\ \A v \in Workers \ {w} : wpc'[v] = wpc[v] /\ share'[v] = share[v]
  BY <1>1 DEF TypeOK
<1>3. SharesDistinct'
  BY <1>1, <1>2 DEF SharesDistinct
<1>4. AnswersAccounted'
  <2>1. Counting' = Counting
    BY <1>1, <1>2 DEF Counting
  <2> QED
    BY <1>1, <2>1 DEF AnswersAccounted
<1>5. share[w].conn \in Conns
  BY <1>1, ShareInHand
<1>6. ASSUME NEW c \in Conns
      PROVE  pending'[c] <= Due(c)' /\ Due(c)' <= pending'[c] + strays'
  <2>1. Unanswered(c)' = Unanswered(c)
    BY <1>1 DEF Unanswered
  <2>2. CASE c = share[w].conn
    <3>1. Writing(c)' = Writing(c) \ {w} /\ w \in Writing(c)
      BY <1>1, <1>2, <2>2 DEF Writing
    <3>2. Cardinality(Writing(c)') = Cardinality(Writing(c)) - 1
      BY <3>1, Finite, FS_RemoveElement
    <3>3. Cardinality(Writing(c)) # 0
      BY <3>1, Finite, FS_EmptySet
    <3>4. Due(c)' = Due(c) - 1 /\ Due(c) \in Nat /\ Due(c) # 0
      BY <2>1, <3>2, <3>3, Finite DEF Due
    <3>5. pending'[c] = IF pending[c] = 0 THEN 0 ELSE pending[c] - 1
      BY <1>5, <2>2, FinishedType DEF WriteFails, TypeOK
    <3> QED
      BY <1>1, <3>4, <3>5, MaxPendingType DEF PendingAccounts, TypeOK
  <2>3. CASE c # share[w].conn
    <3>1. Writing(c)' = Writing(c)
      BY <1>1, <1>2, <2>3 DEF Writing
    <3>2. pending'[c] = pending[c]
      BY <2>3 DEF WriteFails, TypeOK
    <3> QED
      BY <1>1, <2>1, <3>1, <3>2 DEF Due, PendingAccounts
  <2> QED
    BY <2>2, <2>3
<1>7. PendingAccounts'
  BY <1>6 DEF PendingAccounts
<1> QED
  BY <1>3, <1>4, <1>7

\* The worker counts what it has sent.
LEMMA LedgerCount ==
  ASSUME TypeOK, LedgerInv, NEW w \in Workers, CountSubmitted(w)
  PROVE  LedgerInv'
<1> USE DEF LedgerInv, shareVars
<1>1. /\ wpc[w] = "count" /\ wpc' = [wpc EXCEPT ![w] = "loop"]
      /\ share' = [share EXCEPT ![w] = NoShare]
      /\ submitted' = submitted + 1
      /\ UNCHANGED <<pending, inFlight, nextRequest, accepted, rejected, strays>>
  BY DEF CountSubmitted
<1>2. /\ wpc'[w] = "loop"
      /\ \A v \in Workers \ {w} : wpc'[v] = wpc[v] /\ share'[v] = share[v]
  BY <1>1 DEF TypeOK
<1>3. SharesDistinct'
  BY <1>1, <1>2 DEF SharesDistinct
<1>4. AnswersAccounted'
  <2>1. Counting' = Counting \ {w} /\ w \in Counting
    BY <1>1, <1>2 DEF Counting
  <2>2. Cardinality(Counting') = Cardinality(Counting) - 1
    BY <2>1, Finite, FS_RemoveElement
  <2> QED
    BY <1>1, <2>2, Finite DEF AnswersAccounted, TypeOK
<1>5. ASSUME NEW c \in Conns PROVE Due(c)' = Due(c)
  <2>1. Writing(c)' = Writing(c)
    BY <1>1, <1>2 DEF Writing
  <2>2. Unanswered(c)' = Unanswered(c)
    BY <1>1 DEF Unanswered
  <2> QED
    BY <2>1, <2>2 DEF Due
<1>6. PendingAccounts'
  BY <1>1, <1>5 DEF PendingAccounts
<1> QED
  BY <1>3, <1>4, <1>6

\* What a worker does between shares.
LEMMA LedgerHashing ==
  ASSUME TypeOK, LedgerInv, NEW w \in Workers,
         \/ LoadGeneration(w) \/ ReadJob(w) \/ Hit(w) \/ CheckHit(w)
         \/ LoseShare(w) \/ RestartWorker(w)
  PROVE  LedgerInv'
<1>1. /\ UNCHANGED <<pending, inFlight, share, ledgerVars, strays>>
      /\ nextRequest' \in {nextRequest, nextRequest + 1}
  BY DEF LoadGeneration, ReadJob, Hit, CheckHit, LoseShare, RestartWorker,
     shareVars
<1>2. \A v \in Workers : /\ (wpc'[v] = "write") = (wpc[v] = "write")
                         /\ (wpc'[v] = "count") = (wpc[v] = "count")
  BY DEF LoadGeneration, ReadJob, Hit, CheckHit, LoseShare, RestartWorker, TypeOK
<1> QED
  BY <1>1, <1>2, LedgerQuiet

\* The ledger at the start, and every step.
LEMMA LedgerInit == Init => LedgerInv
<1> SUFFICES ASSUME Init PROVE LedgerInv
  OBVIOUS
<1>1. SharesDistinct
  BY FS_EmptySet DEF Init, SharesDistinct
<1>2. Counting = {}
  BY DEF Init, Counting
<1>3. \A c \in Conns : Unanswered(c) = {} /\ Writing(c) = {}
  BY DEF Init, Unanswered, Writing
<1> QED
  BY <1>1, <1>2, <1>3, FS_EmptySet
  DEF Init, LedgerInv, AnswersAccounted, PendingAccounts, Due

\* Every step of a session or a worker keeps the ledger of shares and answers.
LEMMA LedgerNext == TypeOK /\ LedgerInv /\ [Next]_vars => LedgerInv'
<1> SUFFICES ASSUME TypeOK, LedgerInv, [Next]_vars PROVE LedgerInv'
  OBVIOUS
<1>1. CASE KeepAlive \/ UNCHANGED vars
  BY <1>1, LedgerQuiet DEF KeepAlive, vars, ledgerVars, shareVars, workerVars
<1> QED
  BY <1>1, LedgerSession, LedgerAnswer, LedgerStray, LedgerReserve, LedgerWrite,
     LedgerWriteFails, LedgerCount, LedgerHashing
  DEF Next, PoolStep, WorkerStep

\* A connection's counter is the number of its outstanding shares, less at most
\* one for every answer to no share (Connection::reserve_share, finish_share).
THEOREM NoLeakedPlace == Spec => []PendingAccounts
<1>1. LedgerInv => PendingAccounts
  BY DEF LedgerInv
<1> QED
  BY <1>1, LedgerInit, LedgerNext, TypeCorrect, PTL DEF Spec

\* Submitted shares and answers agree, whoever counts first (worker_loop,
\* handle_message).
THEOREM CountersAgree == Spec => []AnswersAccounted
<1>1. LedgerInv => AnswersAccounted
  BY DEF LedgerInv
<1> QED
  BY <1>1, LedgerInit, LedgerNext, TypeCorrect, PTL DEF Spec
=============================================================================
