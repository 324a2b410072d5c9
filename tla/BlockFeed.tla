------------------------------ MODULE BlockFeed ------------------------------
(***************************************************************************)
(* The network block feed and the block-flow strip of a direct session     *)
(* (blockflow.rs and the refresh branch of run_rpc_session).               *)
(*                                                                         *)
(* The session polls the node's height and fetches blocks by height, one   *)
(* call at a time, while the chain grows and reorganises underneath.  What *)
(* it keeps is TipWatch, which outlives sessions and decides what to       *)
(* announce; RecentBlocks, the session's cache of fetched blocks; and      *)
(* SealedBlocks, the blocks of this miner the node accepted.               *)
(*                                                                         *)
(* A block is a number, and its hash is that number; heights count from 1. *)
(* A step of the session is one node call with what it decides.            *)
(*                                                                         *)
(* RefreshTargetsNewest, ReportRest, MineMarkByHeight, ForgetReported and  *)
(* KeepFirst are variants of the definitions that follow them, each with a *)
(* plausible mistake.  No action uses one: PROJECT.json says which         *)
(* property refutes it.                                                    *)
(***************************************************************************)
EXTENDS Integers, Sequences, FiniteSetsExt, Functions

CONSTANTS
  RecentDepth,    \* RECENT_DEPTH
  MaxFetch,       \* MAX_FETCH_PER_REFRESH
  MaxGap,         \* MAX_GAP_BLOCKS
  MaxReported,    \* MAX_REPORTED_TRACKED
  MaxSealed,      \* MAX_SEALED_TRACKED
  StartHeight,    \* height of the chain the miner first connects to
  BlockBound,     \* bound: blocks ever mined, by anyone
  OwnBound,       \* bound: blocks of this miner
  FailBound       \* bound: fetches and sessions that fail

ASSUME BlockFeedAssumption ==
  /\ {RecentDepth, MaxFetch, MaxGap, MaxReported, MaxSealed, StartHeight}
       \subseteq Nat \ {0}
  /\ {BlockBound, OwnBound, FailBound} \subseteq Nat
  /\ MaxGap <= RecentDepth
  /\ RecentDepth <= MaxReported

NoHash == 0     \* the node discloses no block hash
NoHeight == 0   \* last_tip is None

VARIABLES
  chain,      \* node: the block at each height
  made,       \* node: blocks mined so far
  discloses,  \* node: its replies carry block hashes
  ours,       \* node: blocks of this miner it accepted, [height, hash]
  answers,    \* node: those of ours whose accepting reply is on its way
  sealed,     \* SealedBlocks.entries
  spc,        \* session: where it is
  tip,        \* session: current_height
  todo,       \* session: heights the running loop has left to fetch
  cache,      \* session: RecentBlocks.blocks, height to hash
  lastTip, needsBaseline, reported,   \* TipWatch
  based,      \* history: the highest baseline
  highest,    \* history: the highest tip seen
  news,       \* history: heights a BLOCK FOUND line was printed for
  again,      \* history: heights it was printed for more than once
  omitted,    \* history: heights a "... and N more" line covers
  claimed,    \* history: what a line or a tile called YOURS, [height, hash]
  fails       \* spent so far, for FailBound

nodeVars == <<chain, made, discloses, ours, answers>>
watchVars == <<lastTip, needsBaseline, reported>>
historyVars == <<based, highest, news, again, omitted, claimed>>
vars == <<nodeVars, sealed, spc, tip, todo, cache, watchVars, historyVars,
          fails>>

\* Helpers on partial functions of heights and on sets of heights.
Put(f, h, v) == [k \in DOMAIN f \cup {h} |-> IF k = h THEN v ELSE f[k]]
Newest(n, S) == {h \in S : Cardinality({k \in S : k > h}) < n}

Init ==
  /\ chain = [h \in 1..StartHeight |-> h]
  /\ made = StartHeight
  /\ discloses \in BOOLEAN
  /\ ours = {} /\ answers = {}
  /\ sealed = <<>>
  /\ spc = "poll"
  /\ tip = NoHeight
  /\ todo = {}
  /\ cache = <<>>
  /\ lastTip = NoHeight /\ needsBaseline = TRUE /\ reported = <<>>
  /\ based = 0 /\ highest = 0
  /\ news = {} /\ again = {} /\ omitted = {} /\ claimed = {}
  /\ fails = 0

-----------------------------------------------------------------------------
(* The node's chain, and the worker that seals blocks for it.              *)

Fresh == made + 1

Extend ==
  /\ made < BlockBound
  /\ chain' = Append(chain, Fresh)
  /\ made' = Fresh
  /\ UNCHANGED <<discloses, ours, answers, sealed, spc, tip, todo, cache, watchVars,
                 historyVars, fails>>

\* A better chain forks off above height k.
Reorganise ==
  /\ made < BlockBound
  /\ \E k \in 1..(Len(chain) - 1) :
       chain' = Append(SubSeq(chain, 1, k), Fresh)
  /\ made' = Fresh
  /\ UNCHANGED <<discloses, ours, answers, sealed, spc, tip, todo, cache, watchVars,
                 historyVars, fails>>

\* The node accepts a block of this miner.
ExtendOurs ==
  /\ made < BlockBound
  /\ Cardinality(ours) < OwnBound
  /\ chain' = Append(chain, Fresh)
  /\ made' = Fresh
  /\ LET b == [height |-> Len(chain) + 1, hash |-> Fresh]
     IN  ours' = ours \cup {b} /\ answers' = answers \cup {b}
  /\ UNCHANGED <<discloses, sealed, spc, tip, todo, cache, watchVars,
                 historyVars, fails>>

\* record_sealed_block, when and if the accepting reply reaches the worker.
RecordSealed ==
  \E b \in answers :
    /\ answers' = answers \ {b}
    /\ sealed' = LET s == Append(sealed, b)
                 IN  IF Len(s) > MaxSealed THEN Tail(s) ELSE s
    /\ UNCHANGED <<chain, made, discloses, ours, spc, tip, todo, cache,
                   watchVars, historyVars, fails>>

\* SealedBlocks::sealed: a disclosed hash decides alone.
IsSealed(h, hash) ==
  \E b \in Range(sealed) :
    IF hash = NoHash THEN b.height = h ELSE b.hash = hash

\* SealedBlocks::mine_mark, MineMark::proven.
MineMarkByHeight(h, fetched, hash) ==
  IF IsSealed(h, hash)
  THEN IF hash # NoHash THEN "hash" ELSE "height"
  ELSE "no"
MineMark(h, fetched, hash) ==
  IF ~IsSealed(h, IF fetched THEN hash ELSE NoHash) THEN "no"
  ELSE IF ~fetched THEN "unverified"
  ELSE IF hash # NoHash THEN "hash" ELSE "height"

Proven(mark) == mark \in {"hash", "height"}

-----------------------------------------------------------------------------
(* A refresh: poll the tip, announce what is new, backfill the strip.      *)

WindowStart(t) == IF t > RecentDepth THEN t - RecentDepth + 1 ELSE 1
Window(t) == WindowStart(t)..t

\* RecentBlocks::refresh_targets.
RefreshTargetsNewest(t, c) == Newest(MaxFetch, Window(t))
RefreshTargets(t, c) == Newest(MaxFetch, Window(t) \ DOMAIN c)

\* TipAdvance::Blocks: the newest heights up to MaxGap, and the rest.
ReportRest(t) == Newest(MaxGap, (lastTip + 2)..t)
Report(t) == Newest(MaxGap, (lastTip + 1)..t)

\* TipWatch::prune.
Prune(f) == Restrict(f, Newest(MaxReported, DOMAIN f))

\* TipWatch::record.  A changed hash is what prints a REORG line.
KeepFirst(h, hash) ==
  IF h \in DOMAIN reported THEN reported ELSE Prune(Put(reported, h, hash))
Recorded(h, hash) ==
  Prune(Put(reported, h,
            IF h \in DOMAIN reported /\ hash = NoHash THEN reported[h] ELSE hash))

\* What a new session keeps of TipWatch.reported.
ForgetReported == reported' = <<>>
KeepReported == UNCHANGED reported

\* The session fails and the next one starts: begin_session, and a cache of
\* its own.
NextSession ==
  /\ spc = "poll"
  /\ fails < FailBound
  /\ fails' = fails + 1
  /\ needsBaseline' = TRUE
  /\ KeepReported
  /\ cache' = <<>>
  /\ UNCHANGED <<nodeVars, sealed, spc, tip, todo, lastTip, historyVars>>

Baseline == needsBaseline \/ lastTip = NoHeight

\* sov_health and observe_tip: the first poll of a session only announces a
\* baseline, and remembers its height.
PollBaseline ==
  /\ spc = "poll"
  /\ Baseline
  /\ LET t == Len(chain) IN
       /\ tip' = t
       /\ lastTip' = t
       /\ needsBaseline' = FALSE
       /\ reported' = Recorded(t, NoHash)
       /\ based' = IF t > based THEN t ELSE based
       /\ highest' = IF t > highest THEN t ELSE highest
       /\ todo' = RefreshTargets(t, cache)
  /\ spc' = "backfill"
  /\ UNCHANGED <<nodeVars, sealed, cache, news, again, omitted, claimed, fails>>

\* The tip advanced.
PollAdvance ==
  /\ spc = "poll"
  /\ ~Baseline
  /\ Len(chain) > lastTip
  /\ LET t == Len(chain) IN
       /\ tip' = t
       /\ lastTip' = t
       /\ highest' = IF t > highest THEN t ELSE highest
       /\ todo' = Report(t)
       /\ omitted' = omitted \cup ((lastTip + 1)..(t - MaxGap))
  /\ spc' = "feed"
  /\ UNCHANGED <<nodeVars, sealed, cache, needsBaseline, reported, based, news,
                 again, claimed, fails>>

\* The same height, or a shorter chain: nothing to announce.
PollUnchanged ==
  /\ spc = "poll"
  /\ ~Baseline
  /\ Len(chain) <= lastTip
  /\ tip' = Len(chain)
  /\ lastTip' = Len(chain)
  /\ todo' = RefreshTargets(Len(chain), cache)
  /\ spc' = "backfill"
  /\ UNCHANGED <<nodeVars, sealed, cache, needsBaseline, reported, historyVars,
                 fails>>

\* The reply of sov_getBlockByHeight, as far as its hash goes.
Hash(h) == IF discloses THEN chain[h] ELSE NoHash

\* RecentBlocks::insert: a changed hash evicts every cached descendant, and
\* nothing outside the window stays.
KeepAncestors(h, hash) ==
  IF /\ h \in DOMAIN cache
     /\ cache[h] # NoHash /\ hash # NoHash /\ cache[h] # hash
  THEN Restrict(cache, {k \in DOMAIN cache : k <= h})
  ELSE cache

Cached(h, hash) ==
  LET c == Put(KeepAncestors(h, hash), h, hash)
  IN  Restrict(c, DOMAIN c \cap Window(tip))

\* A line says BLOCK FOUND for h, and YOURS when the mark is proven.
Announce(h, fetched, hash) ==
  IF h \in DOMAIN reported
  THEN UNCHANGED <<news, again, claimed>>
  ELSE /\ news' = news \cup {h}
       /\ again' = again \cup ({h} \cap news)
       /\ claimed' =
            IF Proven(MineMark(h, fetched, hash)) /\ h \in DOMAIN chain
            THEN claimed \cup {[height |-> h, hash |-> chain[h]]}
            ELSE claimed

\* The loop over the reported heights, oldest first; then the backfill.
FeedNext(h, c) ==
  /\ todo' = IF todo = {h} THEN RefreshTargets(tip, c) ELSE todo \ {h}
  /\ spc' = IF todo = {h} THEN "backfill" ELSE "feed"

FeedFetched ==
  /\ spc = "feed"
  /\ LET h == Min(todo) IN
       /\ h \in DOMAIN chain
       /\ cache' = Cached(h, Hash(h))
       /\ reported' = Recorded(h, Hash(h))
       /\ Announce(h, TRUE, Hash(h))
       /\ FeedNext(h, cache')
  /\ UNCHANGED <<nodeVars, sealed, tip, lastTip, needsBaseline, based, highest,
                 omitted, fails>>

\* The call failed, or the budget of the loop is spent, or the chain no longer
\* reaches h (a node answers that with an error): the block is announced all
\* the same, its hash unknown.
FeedFailed ==
  /\ spc = "feed"
  /\ LET h == Min(todo) IN
       /\ IF h \in DOMAIN chain THEN fails < FailBound /\ fails' = fails + 1
                                ELSE UNCHANGED fails
       /\ reported' = Recorded(h, NoHash)
       /\ Announce(h, FALSE, NoHash)
       /\ FeedNext(h, cache)
  /\ UNCHANGED <<nodeVars, sealed, tip, cache, lastTip, needsBaseline, based,
                 highest, omitted>>

\* Strip backfill, newest first; it never announces a block.
BackfillFetched ==
  /\ spc = "backfill"
  /\ todo # {}
  /\ LET h == Max(todo) IN
       /\ h \in DOMAIN chain
       /\ cache' = Cached(h, Hash(h))
       /\ reported' = Recorded(h, Hash(h))
       /\ todo' = todo \ {h}
  /\ UNCHANGED <<nodeVars, sealed, spc, tip, lastTip, needsBaseline, historyVars,
                 fails>>

\* The first call that fails ends the backfill of this refresh.
BackfillFailed ==
  /\ spc = "backfill"
  /\ todo # {}
  /\ IF Max(todo) \in DOMAIN chain
     THEN fails < FailBound /\ fails' = fails + 1
     ELSE UNCHANGED fails
  /\ todo' = {}
  /\ UNCHANGED <<nodeVars, sealed, spc, tip, cache, watchVars, historyVars>>

\* The block_flow event: a tile for every height of the window.
TileBlock(h) ==
  IF h \in DOMAIN cache /\ cache[h] # NoHash THEN {cache[h]}
  ELSE IF h \in DOMAIN chain THEN {chain[h]} ELSE {}

TileMark(h) ==
  MineMark(h, h \in DOMAIN cache, IF h \in DOMAIN cache THEN cache[h] ELSE NoHash)

EmitFlow ==
  /\ spc = "backfill"
  /\ todo = {}
  /\ claimed' = claimed \cup
       UNION {[height : {h}, hash : TileBlock(h)] :
                h \in {k \in Window(tip) : Proven(TileMark(k))}}
  /\ spc' = "poll"
  /\ UNCHANGED <<nodeVars, sealed, tip, todo, cache, watchVars, based, highest,
                 news, again, omitted, fails>>

-----------------------------------------------------------------------------

NodeStep == Extend \/ Reorganise \/ ExtendOurs \/ RecordSealed

SessionStep ==
  \/ PollBaseline \/ PollAdvance \/ PollUnchanged
  \/ FeedFetched \/ FeedFailed
  \/ BackfillFetched \/ BackfillFailed \/ EmitFlow

Next == NodeStep \/ SessionStep \/ NextSession

Spec == Init /\ [][Next]_vars

\* The session thread keeps polling: every call it makes has a deadline.
FairSpec == Spec /\ WF_vars(SessionStep)

-----------------------------------------------------------------------------

TypeOK ==
  /\ chain \in Seq(1..made) /\ Len(chain) >= 1
  /\ made \in Nat
  /\ discloses \in BOOLEAN
  /\ ours \subseteq [height : Nat, hash : Nat] /\ answers \subseteq ours
  /\ sealed \in Seq(ours) /\ Len(sealed) <= MaxSealed
  /\ spc \in {"poll", "feed", "backfill"}
  /\ tip \in Nat /\ lastTip \in Nat /\ needsBaseline \in BOOLEAN
  /\ todo \subseteq Window(tip)
  /\ spc = "feed" => todo # {}
  /\ spc = "poll" => todo = {}
  /\ cache \in [DOMAIN cache -> 0..made]
  /\ Cardinality(DOMAIN cache) <= RecentDepth
  /\ reported \in [DOMAIN reported -> 0..made]
  /\ Cardinality(DOMAIN reported) <= MaxReported

\* No height passes unnoticed: each one up to the last tip is still to be
\* announced by the running loop, was announced, was covered by a gap line, or
\* lies below a baseline; whatever was backfilled, forgotten or reorganised
\* and whichever session saw it (TipWatch::observe_tip, "EVERY block that
\* appears on the chain produces one timestamped line").
NoSilentBlock ==
  \A h \in 1..lastTip :
    \/ h \in news \cup omitted
    \/ h <= based
    \/ spc = "feed" /\ h \in todo

\* A height is announced as found once, across reorganisations and sessions.
\* Only a chain that has grown MaxReported blocks past it can make the feed
\* forget it (the accepted limit beside MAX_REPORTED_TRACKED).
AnnouncedOnce == \A h \in again : highest >= h + MaxReported

\* A line or tile says YOURS only of a block of this miner the node accepted;
\* where the node discloses no hash, only at a height where it accepted one
\* (SealedBlocks::mine_mark).
YoursIsOurs ==
  \A c \in claimed :
    \E b \in ours : IF discloses THEN b = c ELSE b.height = c.height

\* The hash TipWatch knows of a height is the cached one: the strip never
\* shows one block while REORG lines are judged against another.
WatchKnowsCache ==
  \A h \in DOMAIN cache \cap DOMAIN reported :
    cache[h] # NoHash => reported[h] = cache[h]

\* Once the chain stands still and calls succeed, every tile of the strip is
\* filled, though each refresh fetches only MaxFetch blocks and a failed call
\* ends it (RecentBlocks::refresh_targets).
StripFills == <>[](tip = Len(chain) /\ Window(tip) \subseteq DOMAIN cache)

\* CHANGELOG.md: "a reorg refetch corrects the affected bars".  Once the chain
\* stands still, the cached blocks are the chain's.
ReorgCorrected ==
  discloses =>
    <>[](\A h \in DOMAIN cache \cap Window(Len(chain)) : cache[h] = chain[h])
=============================================================================
