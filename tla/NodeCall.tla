---- MODULE NodeCall ----
\* One JSON-RPC call of the direct session (rpc.rs): connect, write the
\* request, read an HTTP/1.x reply from a node that may trickle, stall, close
\* or say anything, and decode it.  Every blocking system call is given what
\* is left of one deadline, `Timeout` ticks after the call began; the header
\* has one budget for all its lines and the body has another.
\*
\* The reply is not chosen beforehand: each read returns some piece of it.  A
\* header piece is a whole line of one of the kinds the parser tells apart, or
\* "more": part of a line whose end is still to come.  A body piece is one
\* unit of it.  `heard` keeps the header pieces read so far.
\*
\* Not under the deadline: resolving the node's name, which the operating
\* system may take any time over (to `Resolving` in the model).
\*
\* Variants used to check that the properties bite: IdleTimeout, NoSocketTimeout,
\* BudgetPerLine, AnyLength, UnboundedBody.
EXTENDS Naturals, Sequences, FiniteSets

CONSTANTS
    Timeout,        \* ticks from the beginning of the call to its deadline
    Resolving,      \* the latest time at which the name is resolved
    MaxAddresses,   \* addresses the name resolves to
    Request,        \* writes the request may take
    MaxHeader,      \* MAX_HEADER_BYTES, in header pieces
    MaxBody         \* MAX_BODY_BYTES, in body pieces

ASSUME NodeCallAssumption ==
    /\ Timeout \in Nat \ {0} /\ Resolving \in Nat /\ MaxAddresses \in Nat
    /\ Request \in Nat \ {0}
    /\ MaxHeader \in Nat \ {0} /\ MaxBody \in Nat

VARIABLES
    at,         \* what the call is doing
    now,        \* time since the call began
    wake,       \* when the system call in progress times out; NotBlocked outside one
    addresses,  \* addresses connect_with_timeout has left to try
    sent,       \* writes of the request done
    used,       \* `used` of read_response: header pieces charged to the budget
    heard,      \* the header pieces read
    length,     \* content_length; Undeclared is None
    body,       \* body pieces read
    closed,     \* a read has returned the end of the stream
    resolvedAt, \* when the name was resolved
    outcome     \* what rpc::call returned

callVars == <<at, now, wake, addresses, sent, used, heard, length, body, closed, resolvedAt, outcome>>
replyVars == <<sent, used, heard, length, body, closed>>

NotBlocked == 0
Undeclared == MaxBody + 2

Lines == {"status", "failure", "plain", "chunked", "encoded", "garbled", "end"}
Piece(k, n) == [kind |-> k, n |-> n]
Pieces == {Piece(k, 0) : k \in Lines \union {"more"}}
              \union {Piece("length", n) : n \in 0..(MaxBody + 1)}

CallAt(stage, result) ==
    /\ at = stage /\ now = 0 /\ wake = NotBlocked /\ addresses = 0
    /\ sent = 0 /\ used = 0 /\ heard = <<>> /\ length = Undeclared /\ body = 0
    /\ closed = FALSE /\ resolvedAt = 0 /\ outcome = result

CallBegins == CallAt("resolve", "none")

Fails == at' = "done" /\ outcome' = "failed" /\ wake' = NotBlocked

----
\* remaining: an error once the deadline has been reached.
InBudget == now < Timeout

IdleTimeout == now + Timeout

\* The time at which the next system call gives up: each sets the socket's
\* timeout to what remains before the deadline.
GivesUp == Timeout

\* A step of the call that blocks in the system: refused when no time is left.
Enter(next) ==
    /\ wake = NotBlocked
    /\ IF InBudget THEN at' = next /\ wake' = GivesUp /\ UNCHANGED outcome ELSE Fails
    /\ UNCHANGED <<now, addresses, resolvedAt, replyVars>>

Blocked(stage) == at = stage /\ wake # NotBlocked

\* A system call returns and the call goes on to `next`.
Goes(next) == at' = next /\ wake' = NotBlocked /\ UNCHANGED <<now, resolvedAt, outcome>>

Tick ==
    /\ wake # NotBlocked /\ now < wake
    /\ now' = now + 1
    /\ UNCHANGED <<at, wake, addresses, resolvedAt, outcome, replyVars>>

\* The socket has no timeout set.
NoSocketTimeout == FALSE

TimesOut ==
    /\ wake # NotBlocked /\ now = wake /\ at # "connect"
    /\ Fails
    /\ UNCHANGED <<now, addresses, resolvedAt, replyVars>>

\* The peer resets the connection, or the write fails.
Breaks ==
    /\ wake # NotBlocked /\ at # "connect"
    /\ Fails
    /\ UNCHANGED <<now, addresses, resolvedAt, replyVars>>

----
\* connect_with_timeout
Resolve ==
    /\ at = "resolve"
    /\ \E t \in now..Resolving, n \in 0..MaxAddresses :
          /\ now' = t /\ resolvedAt' = t /\ addresses' = n
          /\ IF n = 0 THEN Fails ELSE at' = "connect" /\ UNCHANGED <<wake, outcome>>
    /\ UNCHANGED replyVars

TryAddress == at = "connect" /\ Enter("connect")

Connected == Blocked("connect") /\ Goes("write") /\ UNCHANGED <<addresses, replyVars>>

\* Refused, unreachable, or timed out: the next address, if there is one.
NotConnected ==
    /\ Blocked("connect")
    /\ addresses' = addresses - 1
    /\ IF addresses = 1 THEN Fails /\ UNCHANGED <<now, resolvedAt>> ELSE Goes("connect")
    /\ UNCHANGED replyVars

----
\* write! and flush: the request goes out in one or more writes.
BeginWrite == at = "write" /\ Enter("write")

Wrote ==
    /\ Blocked("write")
    /\ \E n \in (sent + 1)..Request :
          /\ sent' = n
          /\ Goes(IF n = Request THEN "flush" ELSE "write")
    /\ UNCHANGED <<addresses, used, heard, length, body, closed>>

Flush ==
    /\ at = "flush"
    /\ IF InBudget THEN Goes("status") ELSE Fails /\ UNCHANGED <<now, resolvedAt>>
    /\ UNCHANGED <<addresses, replyVars>>

----
\* header_line and read_response
InHead == {"status", "headers"}

BudgetPerLine == IF heard = <<>> \/ heard[Len(heard)].kind # "more" THEN 1 ELSE used + 1

\* The budget after one more piece: it is shared by all the lines.
Charged == used + 1

AnyLength == TRUE
FirstLength == length = Undeclared

\* What the parser does with a complete line: the stage it goes to, or "bad".
Parsed(p) ==
    IF at = "status"
    THEN IF p.kind = "status" THEN "headers" ELSE "bad"
    ELSE CASE p.kind = "end" -> "body"
           [] p.kind = "plain" -> "headers"
           [] p.kind = "length" /\ FirstLength /\ p.n <= MaxBody -> "headers"
           [] OTHER -> "bad"

BeginRead == at \in InHead /\ Enter(at)

HearPiece ==
    /\ at \in InHead /\ wake # NotBlocked
    /\ \E p \in Pieces :
          /\ heard' = Append(heard, p)
          /\ used' = Charged
          /\ length' = IF p.kind = "length" THEN p.n ELSE length
          /\ IF Charged > MaxHeader THEN Fails /\ UNCHANGED <<now, resolvedAt>>
             ELSE IF p.kind = "more" THEN Goes(at)
             ELSE IF Parsed(p) = "bad" THEN Fails /\ UNCHANGED <<now, resolvedAt>>
             ELSE Goes(Parsed(p))
    /\ UNCHANGED <<addresses, sent, body, closed>>

HeadCutShort ==
    /\ at \in InHead /\ wake # NotBlocked
    /\ closed' = TRUE
    /\ Fails
    /\ UNCHANGED <<now, addresses, resolvedAt, sent, used, heard, length, body>>

----
\* read_exact for a declared length, read_to_end for a close-delimited body.
UnboundedBody == IF length = Undeclared THEN 2 * MaxBody + 2 ELSE length
BodyLimit == IF length = Undeclared THEN MaxBody + 1 ELSE length

BodyFull ==
    /\ at = "body" /\ wake = NotBlocked /\ body = BodyLimit
    /\ IF body > MaxBody THEN Fails /\ UNCHANGED <<now, resolvedAt>> ELSE Goes("decode")
    /\ UNCHANGED <<addresses, replyVars>>

BeginBodyRead == at = "body" /\ body < BodyLimit /\ Enter("body")

BodyPiece ==
    /\ Blocked("body")
    /\ body' = body + 1
    /\ Goes("body")
    /\ UNCHANGED <<addresses, sent, used, heard, length, closed>>

BodyEnds ==
    /\ Blocked("body")
    /\ closed' = TRUE
    /\ IF length = Undeclared THEN Goes("decode") ELSE Fails /\ UNCHANGED <<now, resolvedAt>>
    /\ UNCHANGED <<addresses, sent, used, heard, length, body>>

\* decode_reply: one of the replies is a result for this call; the others are
\* not JSON, carry another id or version, or an error, or no result.
Replies == {"result", "error", "mismatched", "garbled"}

Decode ==
    /\ at = "decode"
    /\ \E r \in Replies :
          outcome' = IF InBudget /\ r = "result" THEN "ok" ELSE "failed"
    /\ at' = "done"
    /\ UNCHANGED <<now, wake, addresses, resolvedAt, replyVars>>

----
CallReturns == TimesOut \/ Flush \/ BodyFull \/ Decode \/ Resolve
CallEnters == TryAddress \/ BeginWrite \/ BeginRead \/ BeginBodyRead
PeerActs == Breaks \/ Connected \/ NotConnected \/ Wrote \/ HearPiece \/ HeadCutShort \/ BodyPiece \/ BodyEnds

CallNext == CallReturns \/ CallEnters \/ Tick \/ PeerActs

\* The call's own steps happen, time passes and a system call returns when its
\* timeout does.  Nothing is assumed of the peer.
CallFairness ==
    /\ WF_callVars(CallReturns) /\ WF_callVars(CallEnters) /\ WF_callVars(Tick)
    /\ WF_callVars(at = "connect" /\ now = wake /\ NotConnected)

----
CallTypeOK ==
    /\ at \in {"resolve", "connect", "write", "flush", "status", "headers", "body", "decode", "done"}
    /\ now \in Nat /\ wake \in Nat /\ resolvedAt \in 0..Resolving
    /\ addresses \in 0..MaxAddresses /\ sent \in 0..Request
    /\ used \in 0..(MaxHeader + 1) /\ used <= Len(heard)
    /\ heard \in Seq(Pieces)
    /\ length \in 0..Undeclared
    /\ body \in 0..(MaxBody + 1)
    /\ closed \in BOOLEAN
    /\ outcome \in {"none", "ok", "failed"}
    /\ (outcome = "none") = (at # "done")

\* However slowly the node answers, the call is over at its deadline, and a
\* result is handed out only before it; a name that took longer to resolve is
\* the only thing that makes it late, and then nothing more is waited for.
InTime ==
    /\ now <= IF resolvedAt > Timeout THEN resolvedAt ELSE Timeout
    /\ outcome = "ok" => now < Timeout

Declared == {i \in 1..Len(heard) : heard[i].kind = "length"}

\* A result comes from a reply whose extent is certain: it begins with a
\* success status, declares its length at most once, is neither chunked nor
\* compressed, and its body was read whole, to that length or to the end of
\* the stream.
Framed ==
    outcome = "ok" =>
        LET said == {heard[i].kind : i \in 1..Len(heard)} IN
        /\ \E i \in 1..Len(heard) :
              heard[i].kind = "status" /\ \A j \in 1..(i - 1) : heard[j].kind = "more"
        /\ heard[Len(heard)].kind = "end"
        /\ said \intersect {"chunked", "encoded", "garbled", "failure"} = {}
        /\ IF Declared = {} THEN closed
           ELSE \A i \in Declared : heard[i].n = body /\ Cardinality(Declared) = 1

\* What a node can make the miner read is bounded, over all the lines of a
\* header together, and a result never comes from an oversized reply.
Bounded ==
    /\ Len(heard) <= MaxHeader + 1 /\ body <= MaxBody + 1
    /\ outcome = "ok" => Len(heard) <= MaxHeader /\ body <= MaxBody

\* Every call that has its addresses ends, whatever the node does or does not send.
CallEnds == at # "resolve" ~> at = "done"

\* A call is over at its deadline, reads no more than its budgets, and returns
\* what a whole reply said.
CallSound == CallTypeOK /\ InTime /\ Framed /\ Bounded

====
