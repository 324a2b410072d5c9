---- MODULE MCNodeReplies ----
\* What is made of the words of a node, a pool or a child process: one RPC call
\* over an HTTP connection, the readers of byte streams, the parsing of a
\* template or a pool job into work, and the mempool and block-time panels from
\* the reply to what is drawn.  The four share no state, so a behaviour
\* exercises one of them and leaves the others at rest.
EXTENDS NodeCall, StreamLines, JobIntake, MempoolView

VARIABLE part

replyPartVars == <<part, callVars, streamVars, intakeVars, mempoolVars>>

CallAtRest == CallAt("done", "failed")
StreamAtRest == StreamAt("child", "ended")

Init ==
    \/ part = "call" /\ CallBegins /\ StreamAtRest /\ IntakeInit /\ MempoolAt("plain")
    \/ part = "stream" /\ CallAtRest /\ StreamInit /\ IntakeInit /\ MempoolAt("plain")
    \/ part = "intake" /\ CallAtRest /\ StreamAtRest /\ IntakeInit /\ MempoolAt("plain")
    \/ part = "mempool" /\ CallAtRest /\ StreamAtRest /\ IntakeInit /\ MempoolInit

Next ==
    \/ part = "call" /\ CallNext /\ UNCHANGED <<part, streamVars, intakeVars, mempoolVars>>
    \/ part = "stream" /\ StreamNext /\ UNCHANGED <<part, callVars, intakeVars, mempoolVars>>
    \/ part = "intake" /\ IntakeNext /\ UNCHANGED <<part, callVars, streamVars, mempoolVars>>
    \/ part = "mempool" /\ MempoolNext /\ UNCHANGED <<part, callVars, streamVars, intakeVars>>

Spec == Init /\ [][Next]_replyPartVars /\ CallFairness
====
