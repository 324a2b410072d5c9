---- MODULE MempoolView ----
\* The mempool and block-time panels, from the node's reply to what is drawn:
\* the engine parses sov_getMempoolHistogram and packs its buckets into
\* pending blocks (blockflow.rs), writes them as one block_flow event
\* (main.rs), and the window parses that event again and derives the panel
\* states, the backlog trend and the block-time bars (gui.rs).  Either side
\* may find its input malformed, and then nothing at all may be claimed.
\*
\* A histogram is the transactions of the mempool counted by fee rate.  A
\* number of a reply is NotANumber when it is missing or no u64; u64 is below
\* `U64`.  Two kinds of node are looked at, so that neither multiplies the
\* other: one whose single reply may be anything, and one whose replies are
\* plain and that is watched over time.
\*
\* Variants used to check that the properties bite: ZeroCapacity, RoundedDown,
\* RestartedTail, Untrimmed, AcrossSessions, AnyNeighbours, Unsorted.
EXTENDS Integers, Sequences, FiniteSets

CONSTANTS
    U64,            \* values of a u64
    Rates,          \* fee rates
    Counts,         \* transactions of a bucket
    MaxBuckets,     \* MAX_HISTOGRAM_BUCKETS
    MaxTiles,       \* MAX_PROJECTED_BLOCKS = MAX_PROJECTED_FLOW_TILES
    MaxBacklog,     \* MAX_BACKLOG_BLOCKS = MAX_BACKLOG_VIEW_BLOCKS
    MaxSamples,     \* MAX_BACKLOG_TREND_SAMPLES
    TrendWindow,    \* BACKLOG_TREND_WINDOW
    TrendSpan,      \* BACKLOG_TREND_MIN_SPAN
    MaxTime,        \* bound of the clock
    MaxSessions,    \* bound of the sessions watched
    MaxBars         \* BLOCK_TIME_GRAPH_BARS

ASSUME MempoolViewAssumption ==
    /\ U64 \in Nat /\ U64 > 3
    /\ Rates \subseteq 0..(U64 - 1) /\ Counts \subseteq 0..(U64 - 1)
    /\ MaxBuckets \in Nat /\ MaxSamples \in Nat /\ MaxTime \in Nat /\ MaxSessions \in Nat \ {0}
    /\ MaxTiles \in Nat \ {0} /\ MaxBacklog \in Nat \ {0} /\ MaxBars \in Nat \ {0}
    /\ TrendSpan \in Nat \ {0} /\ TrendWindow \in Nat /\ TrendWindow >= TrendSpan

VARIABLES
    node,       \* "arbitrary" or "plain"
    reply,      \* the node's last histogram reply; a set, empty before one
    event,      \* the block_flow event not yet applied; a set
    flow,       \* MinerApp.block_flow; a set, empty for None
    history,    \* MinerApp.backlog_history: samples [at, pending], and their session
    clock, session

mempoolVars == <<node, reply, event, flow, history, clock, session>>

NotANumber == -1
IsNumber(n) == n \in 0..(U64 - 1)
Least(a, b) == IF a < b THEN a ELSE b
Greatest(a, b) == IF a > b THEN a ELSE b
FirstOf(s, n) == SubSeq(s, 1, Least(n, Len(s)))

\* The sum of the first n of a sequence of numbers, and of all.
SumTo(s, n) ==
    LET sum[i \in 0..n] == IF i = 0 THEN 0 ELSE sum[i - 1] + s[i] IN sum[n]
Total(s) == SumTo(s, Len(s))

----
\* mempool_histogram: the parsed histogram, or none.
SizesOf(buckets) == [i \in 1..Len(buckets) |-> buckets[i].txs]
Added(buckets) == Total(SizesOf(buckets))

\* A sum that does not fit a u64 is no sum.
SumsTo(buckets, n) == Added(buckets) < U64 /\ Added(buckets) = n

Ordered(buckets) == \A i \in 2..Len(buckets) : buckets[i - 1].rate >= buckets[i].rate

ZeroCapacity(n) == IsNumber(n)
Capacity(n) == IsNumber(n) /\ n # 0

Histogram(r) ==
    IF /\ IsNumber(r.txs) /\ Capacity(r.capacity)
       /\ Len(r.buckets) <= MaxBuckets
       /\ \A i \in 1..Len(r.buckets) : IsNumber(r.buckets[i].rate) /\ IsNumber(r.buckets[i].txs)
       /\ Ordered(r.buckets)
       /\ SumsTo(r.buckets, r.txs)
    THEN {r} ELSE {}

----
\* packed_pending_blocks: the blocks packed so far, the room left in the last
\* one, the bucket being packed and how many of its transactions are.
Block(n, low, high) == [txs |-> n, low |-> low, high |-> high]
With(b, n, rate) == Block(b.txs + n, Least(b.low, rate), Greatest(b.high, rate))

AtCap(blocks, cap) == Len(blocks) > cap

RestartedTail(b, n, rate) == Block(n, rate, rate)
Merged(b, n, rate) == With(b, n, rate)

Start == [blocks |-> <<>>, room |-> 0, next |-> 1, taken |-> 0]

\* A block with room for the next transaction.
Opened(p, rate, capacity) ==
    IF p.room > 0 THEN p
    ELSE [p EXCEPT !.blocks = Append(@, Block(0, rate, rate)), !.room = capacity]

\* One turn of the loops: the next bucket, the rest of a bucket merged into the
\* last block, or as much of it placed as there is room for.
Turn(p, h, cap) ==
    IF p.next > Len(h.buckets) THEN p
    ELSE LET bucket == h.buckets[p.next]
             left == bucket.txs - p.taken
             opened == Opened(p, bucket.rate, h.capacity)
             take == Least(left, opened.room)
         IN  CASE left = 0 -> [p EXCEPT !.next = @ + 1, !.taken = 0]
               [] left # 0 /\ p.room = 0 /\ AtCap(p.blocks, cap) ->
                    [p EXCEPT !.blocks[Len(p.blocks)] = Merged(@, left, bucket.rate),
                              !.taken = @ + left]
               [] OTHER ->
                    [opened EXCEPT !.blocks[Len(opened.blocks)] = With(@, take, bucket.rate),
                                   !.room = @ - take, !.taken = @ + take]

\* A turn leaves a bucket behind or places a transaction.
Packed(h, cap) ==
    LET turn[n \in Nat] == IF n = 0 THEN Start ELSE Turn(turn[n - 1], h, cap)
    IN  turn[Len(h.buckets) + h.txs].blocks

\* The forming block is not pending.
Pending(h, cap) ==
    LET blocks == Packed(h, cap)
    IN IF h.capacity = 0 \/ h.txs = 0 \/ Len(blocks) <= 1 THEN <<>> ELSE Tail(blocks)

RoundedDown(n, m) == n \div m
DivCeil(n, m) == (n + m - 1) \div m

\* backlog_depth
Depth(h) ==
    IF h.capacity = 0 THEN 0 ELSE DivCeil(Greatest(h.txs - h.capacity, 0), h.capacity)

\* The backlog and projected members of the block_flow event.
Backlog(h) == [txs |-> h.txs, capacity |-> h.capacity, depth |-> Depth(h),
               blocks |-> Pending(h, MaxBacklog)]

Projected(hs) == IF hs = {} THEN <<>> ELSE Pending(CHOOSE h \in hs : TRUE, MaxTiles)

FlowEvent(r, chain) ==
    LET hs == UNION {Histogram(x) : x \in r}
    IN  [backlog |-> {Backlog(h) : h \in hs}, projected |-> Projected(hs), recent |-> chain]

----
\* BacklogView::parse and BlockFlowView::from_telemetry
BacklogParsed(b) == IF Len(b.blocks) > MaxBacklog THEN {} ELSE {b}

View(e) ==
    [backlog |-> UNION {BacklogParsed(b) : b \in e.backlog},
     projected |-> FirstOf(e.projected, MaxTiles),
     recent |-> e.recent]

\* backlog_state
BacklogState ==
    IF flow = {} THEN "awaiting"
    ELSE LET f == CHOOSE f \in flow : TRUE IN
         IF f.backlog = {} THEN "unavailable"
         ELSE LET b == CHOOSE b \in f.backlog : TRUE IN
              IF b.txs = 0 THEN "empty" ELSE IF b.depth = 0 THEN "clear" ELSE "deep"

\* backlog_trend: the newest sample against the oldest that is in the window.
InWindow == {i \in 1..Len(history) : clock - history[i].at <= TrendWindow}

Trend ==
    IF InWindow = {} THEN {}
    ELSE LET oldest == history[CHOOSE i \in InWindow : \A j \in InWindow : i <= j]
             newest == history[Len(history)]
         IN  IF newest.at - oldest.at < TrendSpan THEN {}
             ELSE {[delta |-> newest.pending - oldest.pending, span |-> newest.at - oldest.at]}

----
\* block_interval_bars.  A time is NotANumber when the node does not disclose
\* it; an i64 is half as wide as a u64 on either side of zero.
MaxSigned == U64 \div 2 - 1
MinSigned == -(U64 \div 2)
Saturated(n) == IF n > MaxSigned THEN MaxSigned ELSE IF n < MinSigned THEN MinSigned ELSE n

Interval(this, previous) ==
    IF IsNumber(this) /\ IsNumber(previous) THEN {Saturated(this - previous)} ELSE {}

AnyNeighbours(block, parent) == TRUE
IsParent(block, parent) == parent.height + 1 = block.height

Pairs(recent) == {i \in 1..(Len(recent) - 1) : IsParent(recent[i], recent[i + 1])}

\* The n-th of a set of numbers, smallest first.
Nth(S, n) == CHOOSE i \in S : Cardinality({j \in S : j < i}) = n - 1

\* `recent` is newest first, the bars oldest first; the newest are kept.
Bars(recent) ==
    LET pairs == Pairs(recent)
        all == [n \in 1..Cardinality(pairs) |->
                  LET i == Nth(pairs, Cardinality(pairs) + 1 - n)
                  IN  [height |-> recent[i].height,
                       interval |-> Interval(recent[i].time, recent[i + 1].time)]]
    IN  SubSeq(all, Greatest(1, Len(all) - MaxBars + 1), Len(all))

\* interval_window_stats: integer division rounds towards zero.
Quotient(n, m) == IF n < 0 THEN -((-n) \div m) ELSE n \div m

Known(bars) == {i \in 1..Len(bars) : bars[i].interval # {}}
At(bars, i) == CHOOSE n \in bars[i].interval : TRUE

Unsorted(bars) ==
    [n \in 1..Cardinality(Known(bars)) |-> At(bars, Nth(Known(bars), n))]

\* The known intervals in order.
Sorted(bars) ==
    LET before(i, j) == \/ At(bars, i) < At(bars, j)
                        \/ At(bars, i) = At(bars, j) /\ i <= j
    IN  [n \in 1..Cardinality(Known(bars)) |->
           At(bars, CHOOSE i \in Known(bars) : Cardinality({j \in Known(bars) : before(j, i)}) = n)]

Median(known) ==
    LET middle == Len(known) \div 2 IN
    IF Len(known) % 2 = 1 THEN known[middle + 1]
    ELSE Quotient(known[middle] + known[middle + 1], 2)

Stats(bars) ==
    IF Known(bars) = {} THEN {}
    ELSE LET known == Sorted(bars) IN
         {[median |-> Median(known), mean |-> Quotient(Total(known), Len(known))]}

----
Buckets ==
    (UNION {[1..n -> [rate : Rates \union {NotANumber}, txs : Counts]] : n \in 0..MaxBuckets})
        \union {[i \in 1..(MaxBuckets + 1) |-> [rate |-> 1, txs |-> 1]]}
Sums(b) == {Added(b) % U64, (Added(b) + 1) % U64, NotANumber}
Capacities == {NotANumber, 0, 1, 2}
HistogramReplies == UNION {[txs : Sums(b), capacity : Capacities, buckets : {b}] : b \in Buckets}

\* HistogramReplies that do not parse, or hold one bucket.
PlainReplies ==
    {[txs |-> n, capacity |-> 1, buckets |-> <<[rate |-> 1, txs |-> n]>>] : n \in {0, 1, 3}}
        \union {[txs |-> 0, capacity |-> 0, buckets |-> <<>>]}

\* The last blocks of the chain, newest first: contiguous unless the event is
\* not the engine's.
Times == {NotANumber, 0, 2, U64 - 1}
Chains ==
    {<<>>} \union
        {<<[height |-> 5, time |-> t[1]], [height |-> 4, time |-> t[2]], [height |-> 3, time |-> t[3]],
           [height |-> h, time |-> t[4]], [height |-> h - 1, time |-> t[5]]>> :
                t \in [1..5 -> Times], h \in {2, 1}}

MempoolAt(kind) ==
    /\ node = kind /\ reply = {} /\ event = {} /\ flow = {} /\ history = <<>>
    /\ clock = 0 /\ session = 1

MempoolInit == \E kind \in {"arbitrary", "chain", "plain"} : MempoolAt(kind)

\* One cycle of the engine's poll: a reply, or none from an older node.
Poll(rs, chains) ==
    /\ event = {}
    /\ \E r \in {{}} \union {{x} : x \in rs}, c \in chains :
          reply' = r /\ event' = {FlowEvent(r, c)}
    /\ UNCHANGED <<node, flow, history, clock, session>>

PollAnything == node = "arbitrary" /\ flow = {} /\ Poll(HistogramReplies, {<<>>})
PollChain == node = "chain" /\ flow = {} /\ Poll({}, Chains)
PollPlainly == node = "plain" /\ Poll(PlainReplies, {<<>>})

Untrimmed(samples) == samples
Trimmed(samples) == IF Len(samples) > MaxSamples THEN Tail(samples) ELSE samples

\* The window applies the event: a sample of every backlog it could parse.
ApplyEvent ==
    /\ \E e \in event :
          LET v == View(e)
              samples == {[at |-> clock, pending |-> b.txs, session |-> session] : b \in v.backlog}
              grown == IF samples = {} THEN history ELSE Append(history, CHOOSE s \in samples : TRUE)
          IN  /\ flow' = {v}
              /\ history' = Trimmed(grown)
    /\ event' = {}
    /\ UNCHANGED <<node, reply, clock, session>>

AcrossSessions == history
\* What is left of the samples when a session ends.
Kept == <<>>

\* A session_error event, or the engine is started again.
SessionEnds ==
    /\ node = "plain" /\ event = {} /\ session < MaxSessions
    /\ session' = session + 1
    /\ flow' = {} /\ history' = Kept /\ reply' = {}
    /\ UNCHANGED <<node, event, clock>>

TimePasses ==
    /\ node = "plain" /\ clock < MaxTime
    /\ clock' = clock + 1
    /\ UNCHANGED <<node, reply, event, flow, history, session>>

MempoolNext ==
    PollAnything \/ PollChain \/ PollPlainly \/ ApplyEvent \/ SessionEnds \/ TimePasses

----
MempoolTypeOK ==
    /\ node \in {"arbitrary", "chain", "plain"}
    /\ Cardinality(reply) <= 1 /\ Cardinality(event) <= 1 /\ Cardinality(flow) <= 1
    /\ clock \in 0..MaxTime /\ session \in 1..MaxSessions
    /\ Len(history) <= MaxSamples
    /\ \A i \in 1..Len(history) : history[i].at \in 0..clock
    /\ \A f \in flow : /\ Len(f.projected) <= MaxTiles
                       /\ \A b \in f.backlog : IsNumber(b.depth) /\ Len(b.blocks) <= MaxBacklog

\* A reply that says how the mempool is: its counts are numbers that add up,
\* its rates descend, and its blocks have room.
Shown == flow # {} /\ event = {}
Sound(r) ==
    /\ r.txs >= 0 /\ r.capacity > 0 /\ Len(r.buckets) <= MaxBuckets
    /\ \A i \in 1..Len(r.buckets) : r.buckets[i].rate >= 0 /\ r.buckets[i].txs >= 0
    /\ \A i, j \in 1..Len(r.buckets) : i < j => r.buckets[i].rate >= r.buckets[j].rate
    /\ r.txs = Added(r.buckets)

\* What the panel says of the mempool is what the node said: nothing at all
\* when there was no reply or one that contradicts itself, never "empty" or
\* "clear" for want of an answer, and clear only when everything fits the
\* forming block.
BacklogHonest ==
    Shown =>
        BacklogState =
            IF reply = {} \/ \E r \in reply : ~ Sound(r) THEN "unavailable"
            ELSE LET r == CHOOSE r \in reply : TRUE IN
                 IF r.txs = 0 THEN "empty" ELSE IF r.txs <= r.capacity THEN "clear" ELSE "deep"

\* Transactions are taken by descending rate, so the n-th has a rate.
Before(r, i) == SumTo(SizesOf(r.buckets), i - 1)
RatesOf(r, from, to) ==
    {r.buckets[i].rate : i \in {k \in 1..Len(r.buckets) :
        \E n \in from..to : n > Before(r, k) /\ n <= Before(r, k + 1)}}

\* `blocks` are the pending blocks of reply r, of which at most cap are shown:
\* block b holds the transactions from b * capacity + 1, the last one shown
\* also all that follow.
PackedExactly(r, blocks, cap) ==
    LET over == IF r.txs > r.capacity THEN (r.txs - 1) \div r.capacity ELSE 0
    IN  /\ Len(blocks) = Least(over, cap)
        /\ \A b \in 1..Len(blocks) :
              LET from == b * r.capacity + 1
                  to == IF b = Len(blocks) THEN r.txs ELSE (b + 1) * r.capacity
                  rates == RatesOf(r, from, to)
              IN  /\ blocks[b].txs = to - from + 1
                  /\ blocks[b].low \in rates /\ blocks[b].high \in rates
                  /\ \A x \in rates : x >= blocks[b].low /\ x <= blocks[b].high

\* The pending blocks drawn, in the strip and in the backlog panel, are the
\* node's transactions dealt out in auction order: none lost, none twice, the
\* tail in the last block, each with the rates it spans.
PackingExact ==
    Shown => \A f \in flow, r \in reply :
        Sound(r) => /\ PackedExactly(r, f.projected, MaxTiles)
                    /\ \A b \in f.backlog : PackedExactly(r, b.blocks, MaxBacklog)

\* The depth is the least number of further blocks that takes everything that
\* is pending, however few of them are drawn.
DepthExact ==
    Shown => \A f \in flow, r \in reply : \A b \in f.backlog :
        /\ (b.depth + 1) * r.capacity >= r.txs
        /\ b.depth > 0 => b.depth * r.capacity < r.txs
        /\ Len(b.blocks) = Least(b.depth, MaxBacklog)

\* A trend is the difference of two counts the node served in the session that
\* is shown, far enough apart and neither of them old.
TrendObserved ==
    \A t \in Trend : \E i, j \in 1..Len(history) :
        /\ history[i].session = session /\ history[j].session = session
        /\ history[j].at - history[i].at = t.span /\ t.span >= TrendSpan
        /\ clock - history[i].at <= TrendWindow
        /\ history[j].pending - history[i].pending = t.delta
        /\ \A k \in 1..Len(history) : history[k].at <= history[j].at

\* A bar of the block-time graph is the time between a block and its parent,
\* as their headers declare them: there is none without a parent, no interval
\* when either is not disclosed, and the newest blocks are the ones shown.
IntervalsReal ==
    Shown => \A f \in flow :
        LET bars == Bars(f.recent)
            times(h) == {f.recent[i].time : i \in {k \in 1..Len(f.recent) : f.recent[k].height = h}}
            barred == {bars[i].height : i \in 1..Len(bars)}
        IN  /\ \A i \in 1..Len(bars) :
                  /\ times(bars[i].height - 1) # {}
                  /\ \A a \in times(bars[i].height), b \in times(bars[i].height - 1) :
                        IF a = NotANumber \/ b = NotANumber THEN bars[i].interval = {}
                        ELSE bars[i].interval = {Saturated(a - b)}
            /\ \A i \in 2..Len(bars) : bars[i - 1].height < bars[i].height
            /\ \A i \in 1..(Len(f.recent) - 1) :
                  times(f.recent[i].height - 1) # {} =>
                      \/ f.recent[i].height \in barred
                      \/ Len(bars) = MaxBars /\ f.recent[i].height < bars[1].height

\* The median has half of the known intervals on either side of it, the mean
\* lies among them, and neither is claimed when none is known.
MedianIsMiddle ==
    Shown => \A f \in flow :
        LET bars == Bars(f.recent)
            known == {i \in 1..Len(bars) : bars[i].interval # {}}
            below(n) == {i \in known : \E x \in bars[i].interval : x <= n}
            above(n) == {i \in known : \E x \in bars[i].interval : x >= n}
        IN  /\ (known = {}) = (Stats(bars) = {})
            /\ \A s \in Stats(bars) :
                  /\ 2 * Cardinality(below(s.median)) >= Cardinality(known)
                  /\ 2 * Cardinality(above(s.median)) >= Cardinality(known)
                  /\ below(s.mean) # {} /\ above(s.mean) # {}

\* The panels show what the node and the headers said, or that they do not know.
PanelsTrue ==
    /\ MempoolTypeOK
    /\ BacklogHonest /\ PackingExact /\ DepthExact
    /\ TrendObserved
    /\ IntervalsReal /\ MedianIsMiddle

====
