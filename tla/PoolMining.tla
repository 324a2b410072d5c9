------------------------------ MODULE PoolMining ------------------------------
(***************************************************************************)
(* Mining through a Stratum pool: the session thread that logs in, reads   *)
(* pushed jobs and answers, and gives the connection up (run_session,      *)
(* handle_message), and the workers that send shares over the connection   *)
(* they find in State (worker_loop).  The pool is external: it pushes jobs *)
(* when it likes, the same one again if it likes, and answers the shares   *)
(* of a connection in any order, late, never, or once too often.  What it  *)
(* sends is modelled where the session reads it.                           *)
(*                                                                         *)
(* Shares are rate-limited per connection: `pending` counts the ones that  *)
(* wait for an answer, and each Connection has its own counter.            *)
(*                                                                         *)
(* FreshPending, KeepWork, BumpForgotten, RoomForOneMore, KeepReservation, *)
(* CountedAnyway and NoWriteTimeout are variants of the definitions that   *)
(* follow them, each with a plausible mistake.  No action uses one:        *)
(* PROJECT.json says which property refutes it.                            *)
(***************************************************************************)
EXTENDS Integers, FiniteSets

CONSTANTS
  Workers,     \* worker threads
  Session,     \* the session thread
  Work,        \* what a pushed job asks for
  NoJob,       \* an empty slot
  NoShare,     \* a worker that is sending nothing
  ConnBound,   \* bound: connections
  PushBound,   \* bound: pushed jobs
  ShareBound,  \* bound: shares found
  UpsetBound   \* bound: panics, and answers to no share

Conns == 1..ConnBound
NoConn == 0
MaxPending == Cardinality(Workers)   \* max_pending: cfg.workers

Job == [conn : Conns, work : Work]
Share == [id : Nat, conn : Conns, worker : Workers]

ASSUME PoolMiningAssumption ==
  /\ IsFiniteSet(Workers)
  /\ Session \notin Workers
  /\ NoJob \notin Job
  /\ NoShare \notin Share
  /\ ConnBound \in Nat \ {0}
  /\ {PushBound, ShareBound, UpsetBound} \subseteq Nat

NoGeneration == -1   \* u64::MAX

VARIABLES
  job,          \* State.job
  generation,   \* State.generation
  connection,   \* State.connection
  pending,      \* Connection.pending, of each connection made so far
  submitted, accepted, rejected,   \* State's counters
  nextRequest,  \* State.next_request: shares found so far
  spc,          \* session: where it is
  sessions,     \* session: its connection, counted from 1
  pushed,       \* pool: jobs pushed so far
  inFlight,     \* shares sent and not answered
  strays,       \* answers to no share that is in flight
  wpc,          \* worker: where it is
  seen,         \* worker: the generation it last loaded
  held,         \* worker: its copy of the job
  share,        \* worker: the share it is sending
  panics        \* spent so far, with strays, for UpsetBound

slotVars    == <<job, generation>>
ledgerVars  == <<submitted, accepted, rejected>>
sessionVars == <<spc, sessions, pushed>>
shareVars   == <<pending, inFlight, nextRequest>>
workerVars  == <<wpc, seen, held, share>>
vars == <<slotVars, connection, ledgerVars, sessionVars, shareVars, workerVars,
          strays, panics>>

SessionStates == {"connect", "login", "read", "bump", "clear", "clearBump"}
WorkerStates == {"loop", "read", "hit", "take", "write", "count"}

\* The read guard of State.connection lives to the end of the `if let`.
HoldsConnection(w) == wpc[w] \in {"write", "count"}
ConnectionFree == \A w \in Workers : ~HoldsConnection(w)

Init ==
  /\ job = NoJob /\ generation = 0
  /\ connection = NoConn
  /\ pending = [c \in Conns |-> 0]
  /\ submitted = 0 /\ accepted = 0 /\ rejected = 0
  /\ nextRequest = 0
  /\ spc = "connect" /\ sessions = 0 /\ pushed = 0
  /\ inFlight = {} /\ strays = 0
  /\ wpc = [w \in Workers |-> "loop"]
  /\ seen = [w \in Workers |-> NoGeneration]
  /\ held = [w \in Workers |-> NoJob]
  /\ share = [w \in Workers |-> NoShare]
  /\ panics = 0

-----------------------------------------------------------------------------
(* The session thread.                                                     *)

\* The new Connection replaces whatever State held.
Connect ==
  /\ spc = "connect"
  /\ ConnectionFree
  /\ sessions < ConnBound
  /\ sessions' = sessions + 1
  /\ connection' = sessions'
  /\ spc' = "login"
  /\ UNCHANGED <<slotVars, ledgerVars, pushed, shareVars, workerVars, strays,
                 panics>>

Login ==
  /\ spc = "login"
  /\ spc' = "read"
  /\ UNCHANGED <<slotVars, connection, ledgerVars, sessions, pushed, shareVars,
                 workerVars, strays, panics>>

\* The login cannot be written: run_session returns before clear_connection,
\* and State keeps the dead connection until the next one.
LoginFails ==
  /\ spc = "login"
  /\ sessions < ConnBound
  /\ spc' = "connect"
  /\ UNCHANGED <<slotVars, connection, ledgerVars, sessions, pushed, shareVars,
                 workerVars, strays, panics>>

\* handle_message: a pushed job, or the one in the login reply, whichever the
\* session thread reads; install_job writes the slot ...
InstallJob ==
  /\ spc = "read"
  /\ pushed < PushBound
  /\ pushed' = pushed + 1
  /\ job' \in [conn : {sessions}, work : Work]
  /\ spc' = "bump"
  /\ UNCHANGED <<generation, connection, ledgerVars, sessions, shareVars,
                 workerVars, strays, panics>>

\* ... and then bumps the generation.
ReleaseWorkers ==
  /\ spc = "bump"
  /\ generation' = generation + 1
  /\ spc' = "read"
  /\ UNCHANGED <<job, connection, ledgerVars, sessions, pushed, shareVars,
                 workerVars, strays, panics>>

\* finish_share saturates at zero.
Finished(n) == IF n > 0 THEN n - 1 ELSE 0

Verdict ==
  \/ accepted' = accepted + 1 /\ UNCHANGED rejected
  \/ rejected' = rejected + 1 /\ UNCHANGED accepted

FreshPending == pending' = [pending EXCEPT ![sessions] = 0]
FinishShare == pending' = [pending EXCEPT ![sessions] = Finished(@)]

\* The answer to a share of this connection.
ReceiveAnswer ==
  /\ spc = "read"
  /\ \E s \in inFlight : s.conn = sessions /\ inFlight' = inFlight \ {s}
  /\ FinishShare
  /\ Verdict
  /\ UNCHANGED <<slotVars, connection, submitted, sessionVars, nextRequest,
                 workerVars, strays, panics>>

\* Any other message whose id is not below FIRST_SUBMIT_ID counts like one.
StrayAnswer ==
  /\ spc = "read"
  /\ panics + strays < UpsetBound
  /\ strays' = strays + 1
  /\ FinishShare
  /\ Verdict
  /\ UNCHANGED <<slotVars, connection, submitted, sessionVars, nextRequest,
                 inFlight, workerVars, panics>>

\* Nothing for thirty seconds: the session writes a keepalive and reads on.
KeepAlive ==
  /\ spc = "read"
  /\ UNCHANGED vars

\* The pool closes the connection or refuses the login, a message or a job is
\* malformed or beyond the memory gate, a read or a keepalive fails.
SessionFails ==
  /\ spc = "read"
  /\ sessions < ConnBound
  /\ spc' = "clear"
  /\ UNCHANGED <<slotVars, connection, ledgerVars, sessions, pushed, shareVars,
                 workerVars, strays, panics>>

\* clear_connection, under the write lock of State.connection: it waits for
\* the workers that are sending.
KeepWork == UNCHANGED job
EmptySlot == job' = NoJob

ClearConnection ==
  /\ spc = "clear"
  /\ ConnectionFree
  /\ connection' = NoConn
  /\ EmptySlot
  /\ spc' = "clearBump"
  /\ UNCHANGED <<generation, ledgerVars, sessions, pushed, shareVars,
                 workerVars, strays, panics>>

\* The lock is released with the bump; run_headless sleeps and starts over.
BumpForgotten == UNCHANGED generation
BumpGeneration == generation' = generation + 1

EndSession ==
  /\ spc = "clearBump"
  /\ BumpGeneration
  /\ spc' = "connect"
  /\ UNCHANGED <<job, connection, ledgerVars, sessions, pushed, shareVars,
                 workerVars, strays, panics>>

-----------------------------------------------------------------------------
(* A worker thread.                                                        *)

LoadGeneration(w) ==
  /\ wpc[w] = "loop"
  /\ generation # seen[w]
  /\ seen' = [seen EXCEPT ![w] = generation]
  /\ wpc' = [wpc EXCEPT ![w] = "read"]
  /\ UNCHANGED <<slotVars, connection, ledgerVars, sessionVars, shareVars,
                 held, share, strays, panics>>

ReadJob(w) ==
  /\ wpc[w] = "read"
  /\ held' = [held EXCEPT ![w] = job]
  /\ wpc' = [wpc EXCEPT ![w] = "loop"]
  /\ UNCHANGED <<slotVars, connection, ledgerVars, sessionVars, shareVars,
                 seen, share, strays, panics>>

\* A digest at or below the share target.
Hit(w) ==
  /\ wpc[w] = "loop"
  /\ seen[w] = generation
  /\ held[w] # NoJob
  /\ nextRequest < ShareBound
  /\ wpc' = [wpc EXCEPT ![w] = "hit"]
  /\ UNCHANGED <<slotVars, connection, ledgerVars, sessionVars, shareVars,
                 seen, held, share, strays, panics>>

\* Hashing took time: a share of replaced work is dropped.
CheckHit(w) ==
  /\ wpc[w] = "hit"
  /\ wpc' = [wpc EXCEPT ![w] = IF seen[w] = generation THEN "take" ELSE "loop"]
  /\ UNCHANGED <<slotVars, connection, ledgerVars, sessionVars, shareVars,
                 seen, held, share, strays, panics>>

\* The connection in State may be another one by now; reserve_share.
RoomForOneMore == connection # NoConn /\ pending[connection] <= MaxPending
HasRoom == connection # NoConn /\ pending[connection] < MaxPending

ReserveShare(w) ==
  /\ wpc[w] = "take"
  /\ HasRoom
  /\ nextRequest' = nextRequest + 1
  /\ pending' = [pending EXCEPT ![connection] = @ + 1]
  /\ share' = [share EXCEPT ![w] =
                 [id |-> nextRequest, conn |-> connection, worker |-> w]]
  /\ wpc' = [wpc EXCEPT ![w] = "write"]
  /\ UNCHANGED <<slotVars, connection, ledgerVars, sessionVars, inFlight,
                 seen, held, strays, panics>>

\* No connection, or too many shares wait already: this one is lost.
LoseShare(w) ==
  /\ wpc[w] = "take"
  /\ ~HasRoom
  /\ spc # "clearBump"
  /\ nextRequest' = nextRequest + 1
  /\ wpc' = [wpc EXCEPT ![w] = "loop"]
  /\ UNCHANGED <<slotVars, connection, ledgerVars, sessionVars, pending,
                 inFlight, seen, held, share, strays, panics>>

\* write_json returns Ok: the share is on its way, the answer may come back
\* before the worker has counted it.
Write(w) ==
  /\ wpc[w] = "write"
  /\ inFlight' = inFlight \cup {share[w]}
  /\ wpc' = [wpc EXCEPT ![w] = "count"]
  /\ UNCHANGED <<slotVars, connection, ledgerVars, sessionVars, pending,
                 nextRequest, seen, held, share, strays, panics>>

\* write_json fails; set_write_timeout makes it fail on a pool that has
\* stopped reading.  The share is not counted, the reservation given back.
CountedAnyway == submitted' = submitted + 1
NotCounted == UNCHANGED submitted

KeepReservation(w) == UNCHANGED pending
GiveBack(w) == pending' = [pending EXCEPT ![share[w].conn] = Finished(@)]

NoWriteTimeout(w) == wpc[w] = "write" /\ spc = "read"
WriteTimeout(w) == wpc[w] = "write"

WriteFails(w) ==
  /\ WriteTimeout(w)
  /\ GiveBack(w)
  /\ NotCounted
  /\ share' = [share EXCEPT ![w] = NoShare]
  /\ wpc' = [wpc EXCEPT ![w] = "loop"]
  /\ UNCHANGED <<slotVars, connection, accepted, rejected, sessionVars,
                 nextRequest, inFlight, seen, held, strays, panics>>

CountSubmitted(w) ==
  /\ wpc[w] = "count"
  /\ submitted' = submitted + 1
  /\ share' = [share EXCEPT ![w] = NoShare]
  /\ wpc' = [wpc EXCEPT ![w] = "loop"]
  /\ UNCHANGED <<slotVars, connection, accepted, rejected, sessionVars,
                 shareVars, seen, held, strays, panics>>

\* worker_supervisor starts worker_loop over after a panic while hashing.
RestartWorker(w) ==
  /\ wpc[w] = "loop"
  /\ held[w] # NoJob
  /\ panics + strays < UpsetBound
  /\ panics' = panics + 1
  /\ seen' = [seen EXCEPT ![w] = NoGeneration]
  /\ held' = [held EXCEPT ![w] = NoJob]
  /\ UNCHANGED <<slotVars, connection, ledgerVars, sessionVars, shareVars, wpc,
                 share, strays>>

-----------------------------------------------------------------------------

SessionStep ==
  \/ Connect \/ Login \/ ReleaseWorkers \/ ClearConnection \/ EndSession

PoolStep == InstallJob \/ ReceiveAnswer \/ StrayAnswer \/ KeepAlive

WorkerStep(w) ==
  \/ LoadGeneration(w) \/ ReadJob(w) \/ Hit(w) \/ CheckHit(w)
  \/ ReserveShare(w) \/ LoseShare(w) \/ WriteFails(w) \/ CountSubmitted(w)

Next ==
  \/ SessionStep \/ PoolStep
  \/ LoginFails \/ SessionFails
  \/ \E w \in Workers : WorkerStep(w) \/ Write(w) \/ RestartWorker(w)

Spec == Init /\ [][Next]_vars

\* Threads keep running, and a write to a pool that does not read ends with
\* its timeout.  Nothing is assumed of the pool: it need not push a job, answer
\* a share or take one.
FairSpec ==
  /\ Spec
  /\ WF_vars(SessionStep)
  /\ \A w \in Workers : WF_vars(WorkerStep(w))

-----------------------------------------------------------------------------

TypeOK ==
  /\ job \in Job \cup {NoJob}
  /\ generation \in Nat
  /\ connection \in Conns \cup {NoConn}
  /\ pending \in [Conns -> 0..MaxPending]
  /\ submitted \in Nat /\ accepted \in Nat /\ rejected \in Nat
  /\ nextRequest \in Nat
  /\ spc \in SessionStates
  /\ sessions \in 0..ConnBound
  /\ spc # "connect" => sessions \in Conns
  /\ spc \in {"login", "read", "bump", "clear"} => connection = sessions
  /\ pushed \in Nat
  /\ inFlight \in SUBSET Share
  /\ strays \in Nat /\ panics \in Nat
  /\ wpc \in [Workers -> WorkerStates]
  /\ seen \in [Workers -> Nat \cup {NoGeneration}]
  /\ held \in [Workers -> Job \cup {NoJob}]
  /\ share \in [Workers -> Share \cup {NoShare}]
  /\ \A w \in Workers :
       HoldsConnection(w) <=> share[w] # NoShare

\* Shares of connection c that wait for an answer, or are being written.
Unanswered(c) == {s \in inFlight : s.conn = c}
Writing(c) == {w \in Workers : wpc[w] = "write" /\ share[w].conn = c}
Due(c) == Cardinality(Unanswered(c)) + Cardinality(Writing(c))

\* A connection's counter is the number of its shares that are being written
\* or wait for an answer, less at most one for every answer the pool sent to no
\* share: no reservation leaks, which would silence the miner for good, and
\* none is given back twice, which would undo the limit (Connection).
PendingAccounts == \A c \in Conns : pending[c] <= Due(c) /\ Due(c) <= pending[c] + strays

\* Workers that have sent a share and not counted it yet.
Counting == {w \in Workers : wpc[w] = "count"}

\* Whatever the order in which a worker counts its share and the session
\* counts the answer, the totals agree: every share sent is answered once or
\* in flight, also across connections (State's counters).
AnswersAccounted ==
  submitted + strays + Cardinality(Counting)
    = accepted + rejected + Cardinality(inFlight)

\* Work belongs to the connection State holds; so a worker that finds its
\* generation current, with no bump owed, sends no share of one session to
\* another (clear_connection).
WorkIsLive ==
  /\ job # NoJob => job.conn = connection
  /\ spc \notin {"bump", "clearBump"} =>
       \A w \in Workers :
         wpc[w] = "loop" /\ seen[w] = generation /\ held[w] # NoJob =>
           held[w].conn = connection

-----------------------------------------------------------------------------
(* What the slot promises, from the abstract module.                       *)

Owing == IF spc \in {"bump", "clearBump"} THEN {Session} ELSE {}

Slot == INSTANCE WorkSlot WITH
  Worker <- Workers,
  Writer <- {Session},
  slot   <- job,
  owing  <- Owing,
  phase  <- [w \in Workers |-> IF wpc[w] = "read" THEN "reading" ELSE "working"]

\* The session and the workers use the slot as WorkSlot says: the counter is
\* bumped after every change of the slot, and read before the slot is.
WorkSlotSpec == Slot!Spec

-----------------------------------------------------------------------------

\* Once sessions stop failing, the last one that failed has given its
\* connection up, though a worker may have been writing to a pool that no
\* longer reads (run_session, clear_connection), and every worker is on the job
\* in the slot, or idle when there is none: none stays on the work of a session
\* that is gone.
WorkersFollow ==
  <>[]( /\ spc \notin {"clear", "clearBump"}
        /\ \A w \in Workers : held[w] = job )

\* run_session: "each worker may have at most one share awaiting a pool
\* response on this connection".
OneShareEach ==
  \A c \in Conns : \A w \in Workers :
    Cardinality({s \in Unanswered(c) : s.worker = w}) <= 1
=============================================================================
