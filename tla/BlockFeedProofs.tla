-------------------------- MODULE BlockFeedProofs --------------------------
(***************************************************************************)
(* The block feed, for any limits and any chain: every height is accounted *)
(* for, none is announced twice while it can be remembered, YOURS is said  *)
(* of accepted blocks only, and the feed and the strip agree.              *)
(*                                                                         *)
(* The feed forgets the lowest heights first.  So a height it once knew    *)
(* and no longer knows is outnumbered: MaxReported remembered heights are  *)
(* above it (RecordedFacts).  That makes a second announcement rare, and   *)
(* keeps a hash that the cache still has from being relearnt empty.        *)
(***************************************************************************)
EXTENDS BlockFeed, FiniteSetTheorems, WellFoundedInduction, TLAPS

-----------------------------------------------------------------------------
(* Finite sets of heights.                                                 *)

\* A finite non-empty set of heights has a greatest element.
LEMMA GreatestExists ==
  ASSUME NEW S \in SUBSET Nat, IsFiniteSet(S), S # {}
  PROVE  \E m \in S : \A k \in S : k <= m
<1> DEFINE Above(x) == {k \in S : k > x}
<1> DEFINE U == {Above(x) : x \in S}
<1> DEFINE R == StrictSubsetOrdering(S)
<1>1. IsWellFoundedOn(R, FiniteSubsetsOf(S))
  BY FS_StrictSubsetOrderingWellFounded
<1>2. FiniteSubsetsOf(S) = SUBSET S
  BY FS_FiniteSubsetsOfFinite
<1>3. U \subseteq FiniteSubsetsOf(S) /\ U # {}
  <2>1. \A x \in S : Above(x) \in SUBSET S
    OBVIOUS
  <2>2. PICK x \in S : TRUE
    OBVIOUS
  <2>3. Above(x) \in U
    OBVIOUS
  <2>4. U \subseteq SUBSET S
    BY <2>1
  <2>5. U # {}
    BY <2>3
  <2> QED
    <3> HIDE DEF U
    <3> QED BY <1>2, <2>4, <2>5
<1>4. \E A \in U : \A B \in U : ~ (<<B, A>> \in R)
  <2> HIDE DEF R, U
  <2> QED BY <1>1, <1>3, WFMin
<1>5. PICK m \in S : \A B \in U : <<B, Above(m)>> \notin R
  BY <1>4
<1>6. ASSUME NEW k \in S, k > m PROVE FALSE
  <2> DEFINE Ak == Above(k)
             Am == Above(m)
  <2>1. \A x \in S : x \in Nat
    OBVIOUS
  <2>2. k \in Am /\ k \notin Ak
    BY <1>6, <2>1
  <2>3. \A j \in S : j \in Ak => j \in Am
    BY <1>6, <2>1
  <2>4. Ak \subseteq Am /\ Ak # Am /\ Ak \in SUBSET S /\ Am \in SUBSET S
    BY <2>2, <2>3
  <2>5. <<Ak, Am>> \in R
    <3> HIDE DEF Ak, Am
    <3> QED BY <2>4 DEF StrictSubsetOrdering
  <2> QED BY <2>5, <1>5
<1> QED BY <1>6

\* ... and a least one.
LEMMA LeastExists ==
  ASSUME NEW S \in SUBSET Nat, IsFiniteSet(S), S # {}
  PROVE  \E m \in S : \A k \in S : m <= k
<1> DEFINE Below(x) == {k \in S : k < x}
<1> DEFINE U == {Below(x) : x \in S}
<1> DEFINE R == StrictSubsetOrdering(S)
<1>1. IsWellFoundedOn(R, FiniteSubsetsOf(S))
  BY FS_StrictSubsetOrderingWellFounded
<1>2. FiniteSubsetsOf(S) = SUBSET S
  BY FS_FiniteSubsetsOfFinite
<1>3. U \subseteq FiniteSubsetsOf(S) /\ U # {}
  <2>1. \A x \in S : Below(x) \in SUBSET S
    OBVIOUS
  <2>2. PICK x \in S : TRUE
    OBVIOUS
  <2>3. Below(x) \in U
    OBVIOUS
  <2>4. U \subseteq SUBSET S
    BY <2>1
  <2>5. U # {}
    BY <2>3
  <2> QED
    <3> HIDE DEF U
    <3> QED BY <1>2, <2>4, <2>5
<1>4. \E A \in U : \A B \in U : ~ (<<B, A>> \in R)
  <2> HIDE DEF R, U
  <2> QED BY <1>1, <1>3, WFMin
<1>5. PICK m \in S : \A B \in U : <<B, Below(m)>> \notin R
  BY <1>4
<1>6. ASSUME NEW k \in S, k < m PROVE FALSE
  <2> DEFINE Ak == Below(k)
             Am == Below(m)
  <2>1. \A x \in S : x \in Nat
    OBVIOUS
  <2>2. k \in Am /\ k \notin Ak
    BY <1>6, <2>1
  <2>3. \A j \in S : j \in Ak => j \in Am
    BY <1>6, <2>1
  <2>4. Ak \subseteq Am /\ Ak # Am /\ Ak \in SUBSET S /\ Am \in SUBSET S
    BY <2>2, <2>3
  <2>5. <<Ak, Am>> \in R
    <3> HIDE DEF Ak, Am
    <3> QED BY <2>4 DEF StrictSubsetOrdering
  <2> QED BY <2>5, <1>5
<1> QED BY <1>6

\* Min and Max, chosen by CHOOSE, are elements.
LEMMA MinMaxIn ==
  ASSUME NEW S \in SUBSET Nat, IsFiniteSet(S), S # {}
  PROVE  Min(S) \in S /\ Max(S) \in S
BY GreatestExists, LeastExists DEF Min, Max

\* Newest(n, S) has at most n elements.
LEMMA NewestBounded ==
  ASSUME NEW n \in Nat, NEW S \in SUBSET Nat, IsFiniteSet(S)
  PROVE  /\ Newest(n, S) \subseteq S
         /\ IsFiniteSet(Newest(n, S))
         /\ Cardinality(Newest(n, S)) <= n
<1> DEFINE N == Newest(n, S)
<1>1. N \subseteq S /\ IsFiniteSet(N)
  BY FS_Subset DEF Newest
<1>2. CASE N = {}
  BY <1>1, <1>2, FS_EmptySet
<1>3. CASE N # {}
  <2>1. PICK m \in N : \A k \in N : m <= k
    BY <1>1, <1>3, LeastExists
  <2> DEFINE A == {k \in S : k > m}
  <2>2. IsFiniteSet(A) /\ Cardinality(A) \in Nat /\ Cardinality(A) < n
    BY FS_Subset, FS_CardinalityType DEF Newest
  <2>3. N \subseteq A \cup {m}
    <3> SUFFICES ASSUME NEW k \in N, k # m PROVE k > m
      BY <1>1
    <3>1. k \in Nat /\ m \in Nat /\ m <= k
      <4> HIDE DEF N
      <4> QED BY <1>1, <2>1
    <3> QED BY <3>1
  <2>4. IsFiniteSet(A \cup {m}) /\ Cardinality(A \cup {m}) <= n
    BY <2>2, FS_AddElement
  <2>5. Cardinality(N) <= Cardinality(A \cup {m})
    BY <2>3, <2>4, FS_Subset
  <2> QED BY <1>1, <2>2, <2>4, <2>5, FS_CardinalityType
<1> QED BY <1>2, <1>3

\* Outnumbered(n, h, S): n heights of S are above h.
Above(h, S) == {k \in S : k > h}
Outnumbered(n, h, S) == Cardinality(Above(h, S)) >= n

\* Keeping the newest n of S leaves the outnumbered outnumbered.
LEMMA NewestOutnumbers ==
  ASSUME NEW n \in Nat, NEW S \in SUBSET Nat, IsFiniteSet(S), NEW h \in Nat,
         Outnumbered(n, h, S)
  PROVE  Outnumbered(n, h, Newest(n, S))
<1> DEFINE N == Newest(n, S)
           T == Above(h, S) \ N
<1>1. IsFiniteSet(Above(h, S)) /\ IsFiniteSet(T) /\ T \in SUBSET Nat
  BY FS_Subset, FS_Difference DEF Above
<1>2. CASE T = {}
  <2>1. Above(h, N) = Above(h, S)
    BY <1>2 DEF Above, Newest
  <2> QED BY <2>1 DEF Outnumbered
<1>3. CASE T # {}
  <2>1. PICK m \in T : \A k \in T : k <= m
    BY <1>1, <1>3, GreatestExists
  <2>2. m \in S /\ m > h /\ m \in Nat
    BY DEF Above
  <2>3. IsFiniteSet(Above(m, S)) /\ Cardinality(Above(m, S)) \in Nat
    BY FS_Subset, FS_CardinalityType DEF Above
  <2>4. Cardinality(Above(m, S)) >= n
    BY <2>2, <2>3 DEF Newest, Above
  <2>5. Above(m, S) \subseteq Above(h, N)
    <3> SUFFICES ASSUME NEW k \in Above(m, S) PROVE k \in Above(h, N)
      OBVIOUS
    <3>1. k \in S /\ k \in Nat /\ k > m
      BY DEF Above
    <3>2. k \in Above(h, S)
      BY <3>1, <2>2 DEF Above
    <3>3. k \notin T
      BY <3>1, <2>1, <2>2
    <3> QED BY <3>2, <3>3 DEF Above
  <2>6. IsFiniteSet(Above(h, N))
    BY FS_Subset DEF Above, Newest
  <2>7. Cardinality(Above(m, S)) <= Cardinality(Above(h, N))
    BY <2>5, <2>6, FS_Subset
  <2>8. Cardinality(Above(h, N)) \in Nat
    BY <2>6, FS_CardinalityType
  <2> QED BY <2>3, <2>4, <2>7, <2>8 DEF Outnumbered
<1> QED BY <1>2, <1>3

\* Being outnumbered survives the addition of heights.
LEMMA MoreOutnumber ==
  ASSUME NEW n \in Nat, NEW S, NEW T, S \subseteq T, IsFiniteSet(T), NEW h,
         Outnumbered(n, h, S)
  PROVE  Outnumbered(n, h, T)
<1>1. Above(h, S) \subseteq Above(h, T) /\ IsFiniteSet(Above(h, T))
  BY FS_Subset DEF Above
<1>2. Cardinality(Above(h, S)) <= Cardinality(Above(h, T))
  BY <1>1, FS_Subset
<1>3. Cardinality(Above(h, S)) \in Nat /\ Cardinality(Above(h, T)) \in Nat
  BY <1>1, FS_Subset, FS_CardinalityType
<1> QED BY <1>2, <1>3 DEF Outnumbered

\* What n heights up to b outnumber is at least n below b.
LEMMA OutnumberedBelow ==
  ASSUME NEW n \in Nat, NEW b \in Nat, NEW S \in SUBSET (1..b), NEW h \in Nat,
         n > 0, Outnumbered(n, h, S)
  PROVE  b >= h + n
<1>1. Above(h, S) \subseteq (h + 1)..b
  <2> SUFFICES ASSUME NEW k \in S, k > h PROVE k \in (h + 1)..b
    BY DEF Above
  <2>1. k \in 1..b
    OBVIOUS
  <2> QED BY <2>1
<1>2. /\ IsFiniteSet((h + 1)..b)
      /\ Cardinality((h + 1)..b) = IF h + 1 > b THEN 0 ELSE b - (h + 1) + 1
  BY FS_Interval
<1>3. /\ Cardinality(Above(h, S)) <= Cardinality((h + 1)..b)
      /\ IsFiniteSet(Above(h, S))
  BY <1>1, <1>2, FS_Subset
<1>4. Cardinality(Above(h, S)) \in Nat
  BY <1>3, FS_CardinalityType
<1> QED BY <1>2, <1>3, <1>4 DEF Outnumbered

-----------------------------------------------------------------------------
(* The operators of the feed.                                              *)

USE BlockFeedAssumption

\* The strip's window has at most RecentDepth heights.
LEMMA WindowFacts ==
  ASSUME NEW t \in Nat
  PROVE  /\ IsFiniteSet(Window(t))
         /\ Cardinality(Window(t)) <= RecentDepth
         /\ Window(t) \subseteq 1..t
         /\ \A S : S \subseteq Window(t) =>
              IsFiniteSet(S) /\ Cardinality(S) <= RecentDepth
<1>1. WindowStart(t) \in 1..(t + 1) /\ t - WindowStart(t) + 1 <= RecentDepth
  BY DEF WindowStart
<1>2. IsFiniteSet(Window(t)) /\ Cardinality(Window(t)) <= RecentDepth
  <2> DEFINE s == WindowStart(t)
  <2>1. s \in Int /\ t \in Int
    BY <1>1
  <2>2. /\ IsFiniteSet(s..t)
        /\ Cardinality(s..t) = IF s > t THEN 0 ELSE t - s + 1
    <3> HIDE DEF s
    <3> QED BY <2>1, FS_Interval
  <2> QED BY <1>1, <2>2 DEF Window
<1>3. Window(t) \subseteq 1..t
  BY <1>1 DEF Window
<1>4. ASSUME NEW S, S \subseteq Window(t)
      PROVE  IsFiniteSet(S) /\ Cardinality(S) <= RecentDepth
  <2>1. IsFiniteSet(S) /\ Cardinality(S) <= Cardinality(Window(t))
    BY <1>2, <1>4, FS_Subset
  <2>2. Cardinality(S) \in Nat /\ Cardinality(Window(t)) \in Nat
    BY <2>1, <1>2, FS_CardinalityType
  <2> QED BY <1>2, <2>1, <2>2
<1> QED BY <1>2, <1>3, <1>4

\* Backfill stays inside the window.
LEMMA TargetsInWindow ==
  ASSUME NEW t, NEW c PROVE RefreshTargets(t, c) \subseteq Window(t)
BY DEF RefreshTargets, Newest

\* The heights reported one by one and those of the gap line are, together,
\* all the heights the tip advanced over.
LEMMA ReportFacts ==
  ASSUME NEW t \in Nat, lastTip \in Nat, t > lastTip
  PROVE  /\ Report(t) # {}
         /\ Report(t) \subseteq Window(t)
         /\ Report(t) \subseteq (lastTip + 1)..t
         /\ (lastTip + 1)..t \subseteq Report(t) \cup ((lastTip + 1)..(t - MaxGap))
<1> DEFINE G == (lastTip + 1)..t
<1>1. ASSUME NEW h \in G PROVE Cardinality({k \in G : k > h}) = t - h
  <2>1. {k \in G : k > h} = (h + 1)..t
    OBVIOUS
  <2>2. Cardinality((h + 1)..t) = t - h
    <3>1. h + 1 \in Int /\ t \in Int /\ h \in Int /\ h <= t
      OBVIOUS
    <3>2. Cardinality((h + 1)..t) =
            IF h + 1 > t THEN 0 ELSE t - (h + 1) + 1
      BY <3>1, FS_Interval
    <3> QED BY <3>1, <3>2
  <2> QED BY <2>1, <2>2
<1>2. Report(t) = {h \in G : t - h < MaxGap}
  BY <1>1 DEF Report, Newest
<1>3. t \in Report(t)
  BY <1>2
<1>4. Report(t) \subseteq Window(t)
  BY <1>2 DEF Window, WindowStart
<1>5. ASSUME NEW h \in G PROVE h \in Report(t) \/ h \in (lastTip + 1)..(t - MaxGap)
  BY <1>2
<1> QED BY <1>2, <1>3, <1>4, <1>5

\* TipWatch::record learns h, drops nothing but outnumbered heights, and
\* changes the hash of no other height.
LEMMA RecordedFacts ==
  ASSUME NEW b \in Nat, DOMAIN reported \subseteq 1..b,
         made \in Nat, reported \in [DOMAIN reported -> 0..made],
         NEW h \in 1..b, NEW x \in 0..made
  PROVE  LET r == Recorded(h, x) IN
         /\ r \in [DOMAIN r -> 0..made]
         /\ DOMAIN r \subseteq DOMAIN reported \cup {h}
         /\ Cardinality(DOMAIN r) <= MaxReported
         /\ \A k \in DOMAIN r : k # h => r[k] = reported[k]
         /\ h \in DOMAIN r => r[h] = IF h \in DOMAIN reported /\ x = NoHash
                                     THEN reported[h] ELSE x
         /\ \A k \in DOMAIN reported \cup {h} :
              k \notin DOMAIN r => Outnumbered(MaxReported, k, DOMAIN r)
         /\ \A k \in Nat : Outnumbered(MaxReported, k, DOMAIN reported)
                             => /\ Outnumbered(MaxReported, k, DOMAIN r)
                                /\ k \notin DOMAIN r
<1> DEFINE r == Recorded(h, x)
<1> DEFINE v == IF h \in DOMAIN reported /\ x = NoHash THEN reported[h] ELSE x
           D == DOMAIN reported \cup {h}
           p == Put(reported, h, v)
<1>1. v \in 0..made
  OBVIOUS
<1>2. /\ p = [k \in D |-> IF k = h THEN v ELSE reported[k]]
      /\ p \in [D -> 0..made]
  BY <1>1 DEF Put
<1>3. D \subseteq 1..b /\ IsFiniteSet(D) /\ D \in SUBSET Nat
  <2>1. D \subseteq 1..b /\ 1 \in Int /\ b \in Int
    OBVIOUS
  <2>2. IsFiniteSet(1..b)
    BY <2>1, FS_Interval
  <2> QED BY <2>1, <2>2, FS_Subset
<1>4. r = [k \in Newest(MaxReported, D) |-> p[k]]
  BY <1>2 DEF Recorded, Prune, Restrict
<1> HIDE DEF r
<1>5. /\ DOMAIN r = Newest(MaxReported, D)
      /\ \A k \in DOMAIN r : r[k] = p[k]
  BY <1>4
<1>6. DOMAIN r \subseteq D /\ IsFiniteSet(DOMAIN r)
      /\ Cardinality(DOMAIN r) <= MaxReported
  BY <1>3, <1>5, NewestBounded
<1>7. r \in [DOMAIN r -> 0..made]
  <2> HIDE DEF p, D
  <2> QED BY <1>2, <1>4, <1>5, <1>6
<1>8. \A k \in DOMAIN r : k # h => r[k] = reported[k]
  BY <1>2, <1>5, <1>6
<1>9. h \in DOMAIN r => r[h] = v
  BY <1>2, <1>5, <1>6
<1>10. ASSUME NEW k \in Nat, Outnumbered(MaxReported, k, D)
       PROVE  Outnumbered(MaxReported, k, DOMAIN r)
  BY <1>3, <1>5, <1>10, NewestOutnumbers
<1>11. ASSUME NEW k \in D, k \notin DOMAIN r
       PROVE  Outnumbered(MaxReported, k, DOMAIN r)
  <2>1. k \in Nat /\ Cardinality(Above(k, D)) \in Nat
    BY <1>3, FS_Subset, FS_CardinalityType DEF Above
  <2>2. Outnumbered(MaxReported, k, D)
    BY <1>5, <1>11, <2>1 DEF Newest, Outnumbered, Above
  <2> QED BY <1>10, <2>1, <2>2
<1>12. ASSUME NEW k \in Nat, Outnumbered(MaxReported, k, DOMAIN reported)
       PROVE  Outnumbered(MaxReported, k, DOMAIN r) /\ k \notin DOMAIN r
  <2>1. Outnumbered(MaxReported, k, D)
    BY <1>3, <1>12, MoreOutnumber
  <2>2. Cardinality(Above(k, D)) \in Nat
    BY <1>3, FS_Subset, FS_CardinalityType DEF Above
  <2>3. k \notin DOMAIN r
    BY <1>5, <2>1, <2>2 DEF Newest, Outnumbered, Above
  <2> QED BY <1>10, <2>1, <2>3
<1> QED
  <2>1. r = Recorded(h, x)
    BY DEF r
  <2> QED BY <1>6, <1>7, <1>8, <1>9, <1>11, <1>12, <2>1

\* RecentBlocks::insert leaves what it does not evict, and evicts all that is
\* outside the window.
LEMMA CachedFacts ==
  ASSUME made \in Nat, cache \in [DOMAIN cache -> 0..made], tip \in Nat,
         NEW h \in Window(tip), NEW x \in 0..made
  PROVE  LET c == Cached(h, x) IN
         /\ c \in [DOMAIN c -> 0..made]
         /\ DOMAIN c \subseteq Window(tip)
         /\ h \in DOMAIN c /\ c[h] = x
         /\ \A k \in DOMAIN c : k # h => k \in DOMAIN cache /\ c[k] = cache[k]
<1> DEFINE c == Cached(h, x)
<1> DEFINE a == KeepAncestors(h, x)
           p == Put(a, h, x)
<1>1. /\ DOMAIN a \subseteq DOMAIN cache
      /\ \A k \in DOMAIN a : a[k] = cache[k]
  BY DEF KeepAncestors, Restrict
<1>2. /\ DOMAIN p = DOMAIN a \cup {h}
      /\ \A k \in DOMAIN p : p[k] = IF k = h THEN x ELSE a[k]
  BY DEF Put
<1>3. c = [k \in DOMAIN p \cap Window(tip) |-> p[k]]
  BY DEF Cached, Restrict
<1>4. /\ DOMAIN c = DOMAIN p \cap Window(tip)
      /\ \A k \in DOMAIN c : c[k] = p[k]
  BY <1>3
<1>5. \A k \in DOMAIN c : c[k] \in 0..made
  <2> HIDE DEF a, p
  <2> QED BY <1>1, <1>2, <1>4
<1> HIDE DEF a, p
<1> QED BY <1>1, <1>2, <1>3, <1>4, <1>5

-----------------------------------------------------------------------------
(* The invariant.                                                          *)

\* Where the heights lie, and when the cache may hold something.
Bounds ==
  /\ based \in Nat /\ highest \in Nat
  /\ based <= highest /\ lastTip <= highest
  /\ DOMAIN reported \subseteq 1..highest
  /\ news \subseteq 1..highest /\ again \subseteq news
  /\ DOMAIN cache \subseteq Nat \ {0} /\ IsFiniteSet(DOMAIN cache)
  /\ spc # "poll" => ~Baseline /\ lastTip = tip
  /\ Baseline => DOMAIN cache = {}

\* What TipWatch knows it has accounted for.
Accounted ==
  \A h \in DOMAIN reported : h \in news \cup omitted \/ h <= based

\* It forgets an announced height only when MaxReported newer ones exist.
Remembered ==
  \A h \in news : h \in DOMAIN reported \/ highest >= h + MaxReported

\* A cached height it forgot will not be remembered again.
CacheRecorded ==
  \A h \in DOMAIN cache :
    h \in DOMAIN reported \/ Outnumbered(MaxReported, h, DOMAIN reported)

\* A block of this miner has one height, in the chain and in the cache.
Placed ==
  \A b \in ours :
    /\ b.hash \in 1..made
    /\ \A i \in 1..Len(chain) : chain[i] = b.hash => i = b.height
    /\ \A h \in DOMAIN cache : cache[h] = b.hash => h = b.height

\* The cache has hashes exactly when the node discloses them.
Disclosed == \A h \in DOMAIN cache : cache[h] # NoHash <=> discloses

Memory == Accounted /\ Remembered /\ AnnouncedOnce /\ NoSilentBlock
Agreement == CacheRecorded /\ WatchKnowsCache
Attribution == Placed /\ Disclosed /\ YoursIsOurs

Inv == TypeOK /\ Bounds /\ Memory /\ Agreement /\ Attribution

\* The invariant holds at the start.
LEMMA InitInv == Init => Inv
<1> SUFFICES ASSUME Init PROVE Inv
  OBVIOUS
<1> USE DEF Init
<1>1. chain \in Seq(1..made) /\ Len(chain) = StartHeight
  OBVIOUS
<1>2. IsFiniteSet({}) /\ Cardinality({}) = 0
  BY FS_EmptySet
<1>3. DOMAIN cache = {} /\ DOMAIN reported = {}
  OBVIOUS
<1>4. TypeOK
  BY <1>1, <1>2, <1>3 DEF TypeOK, NoHeight
<1>5. Bounds
  BY <1>2, <1>3 DEF Bounds, Baseline, NoHeight
<1>6. Memory
  BY <1>3 DEF Memory, Accounted, Remembered, AnnouncedOnce, NoSilentBlock, NoHeight
<1>7. Agreement /\ Attribution
  BY <1>3 DEF Agreement, Attribution, CacheRecorded, WatchKnowsCache, Placed,
     Disclosed, YoursIsOurs
<1> QED BY <1>4, <1>5, <1>6, <1>7 DEF Inv

-----------------------------------------------------------------------------
(* The node and the worker.                                                *)

\* The node's steps leave the session alone; a block they make is new, so it
\* is neither a block of this miner nor cached.
LEMMA ChainGrows ==
  ASSUME Inv, UNCHANGED <<discloses, sealed, spc, tip, todo, cache, watchVars,
                          historyVars, fails>>,
         made' = Fresh,
         NEW k \in 1..Len(chain), chain' = Append(SubSeq(chain, 1, k), Fresh),
         \/ ours' = ours /\ answers' = answers
         \/ \E b \in [height : {k + 1}, hash : {Fresh}] :
              /\ k = Len(chain)
              /\ ours' = ours \cup {b}
              /\ answers' = answers \cup {b}
  PROVE  Inv'
<1>1. /\ UNCHANGED <<discloses, sealed, spc, tip, todo, cache>>
      /\ UNCHANGED <<lastTip, needsBaseline, reported>>
      /\ UNCHANGED <<based, highest, news, again, omitted, claimed>>
  BY DEF watchVars, historyVars
<1>2. /\ made \in Nat /\ made' = made + 1
      /\ chain \in Seq(1..made) /\ Len(chain) >= 1
      /\ ours \subseteq [height : Nat, hash : Nat] /\ answers \subseteq ours
  BY DEF Inv, TypeOK, Fresh
<1>3. /\ chain' \in Seq(1..made') /\ Len(chain') = k + 1
      /\ \A i \in 1..k : chain'[i] = chain[i] /\ chain[i] \in 1..made
      /\ chain'[k + 1] = made + 1
  <2> DEFINE B == 1..made
             C == 1..(made + 1)
             q == SubSeq(chain, 1, k)
  <2>1. B \subseteq C /\ made + 1 \in C
    BY SMTT(30), <1>2
  <2>2. chain \in Seq(B) /\ k \in Nat /\ Len(chain) \in Nat
    BY <1>2
  <2> HIDE DEF B, C
  <2>3. /\ q \in Seq(B) /\ Len(q) = k
        /\ \A i \in 1..k : q[i] = chain[i] /\ chain[i] \in B
    BY SMTT(30), <2>2
  <2>4. q \in Seq(C) /\ chain' = Append(q, made + 1)
    BY <2>1, <2>3 DEF Fresh
  <2> HIDE DEF q
  <2>5. /\ chain' \in Seq(C) /\ Len(chain') = k + 1
        /\ \A i \in 1..k : chain'[i] = q[i]
        /\ chain'[k + 1] = made + 1
    BY <2>1, <2>2, <2>3, <2>4
  <2> QED BY <1>2, <2>3, <2>5 DEF B, C
<1>4. /\ ours \subseteq ours' /\ ours' \subseteq [height : Nat, hash : Nat]
      /\ answers' \subseteq ours'
  BY SMTT(30), <1>2 DEF Fresh
<1>5. \A b \in ours' \ ours : b.height = k + 1 /\ b.hash = made + 1
                              /\ k = Len(chain)
  BY DEF Fresh
<1>6. TypeOK'
  <2>1. sealed' \in Seq(ours') /\ Len(sealed') <= MaxSealed
    BY <1>1, <1>4 DEF Inv, TypeOK
  <2>2. /\ cache' \in [DOMAIN cache' -> 0..made']
        /\ reported' \in [DOMAIN reported' -> 0..made']
    <3>1. /\ cache \in [DOMAIN cache -> 0..made]
          /\ reported \in [DOMAIN reported -> 0..made]
      BY DEF Inv, TypeOK
    <3>2. 0..made \subseteq 0..made'
      BY <1>2
    <3> QED BY <1>1, <3>1, <3>2
  <2>3. /\ discloses' \in BOOLEAN /\ spc' \in {"poll", "feed", "backfill"}
        /\ tip' \in Nat /\ lastTip' \in Nat /\ needsBaseline' \in BOOLEAN
        /\ todo' \subseteq Window(tip)'
        /\ spc' = "feed" => todo' # {}
        /\ spc' = "poll" => todo' = {}
        /\ Cardinality(DOMAIN cache') <= RecentDepth
        /\ Cardinality(DOMAIN reported') <= MaxReported
    BY <1>1 DEF Inv, TypeOK, Window, WindowStart
  <2>4. made' \in Nat /\ Len(chain') >= 1
    BY <1>2, <1>3
  <2> QED BY <1>3, <1>4, <2>1, <2>2, <2>3, <2>4 DEF TypeOK
<1>7. Bounds' /\ Memory'
  BY <1>1 DEF Inv, Bounds, Baseline, Memory, Accounted, Remembered,
     AnnouncedOnce, NoSilentBlock
<1>8. Agreement'
  BY <1>1 DEF Inv, Agreement, CacheRecorded, WatchKnowsCache, Outnumbered, Above
<1>9. Placed'
  <2> SUFFICES ASSUME NEW b \in ours'
               PROVE  /\ b.hash \in 1..made'
                      /\ \A i \in 1..Len(chain') : chain'[i] = b.hash => i = b.height
                      /\ \A h \in DOMAIN cache : cache[h] = b.hash => h = b.height
    BY <1>1 DEF Placed
  <2>1. CASE b \in ours
    <3>1. /\ b.hash \in 1..made
          /\ \A i \in 1..Len(chain) : chain[i] = b.hash => i = b.height
          /\ \A h \in DOMAIN cache : cache[h] = b.hash => h = b.height
      BY <2>1 DEF Inv, Attribution, Placed
    <3>2. made + 1 # b.hash /\ b.hash \in 1..made'
      <4> DEFINE x == b.hash
      <4>1. x \in 1..made /\ made \in Nat /\ made' = made + 1
        BY <3>1, <1>2
      <4> HIDE DEF x
      <4>2. made + 1 # x /\ x \in 1..made'
        BY <4>1
      <4> QED BY <4>2 DEF x
    <3>3. ASSUME NEW i \in 1..(k + 1), chain'[i] = b.hash PROVE i = b.height
      <4>1. i # k + 1
        BY <1>3, <3>2, <3>3
      <4>2. i \in 1..k /\ i \in 1..Len(chain)
        BY <1>2, <4>1
      <4> QED BY <1>3, <3>1, <3>3, <4>2
    <3> QED BY <1>3, <3>1, <3>2, <3>3
  <2>2. CASE b \notin ours
    <3>1. b.height = k + 1 /\ b.hash = made + 1 /\ k = Len(chain)
      BY <2>2, <1>5
    <3>2. \A h \in DOMAIN cache : cache[h] \in 0..made
      BY DEF Inv, TypeOK
    <3>3. ASSUME NEW i \in 1..(k + 1), chain'[i] = b.hash PROVE i = b.height
      <4>1. ASSUME i \in 1..k PROVE FALSE
        BY <1>2, <1>3, <3>1, <3>3, <4>1
      <4> QED BY <3>1, <4>1
    <3> QED BY <1>2, <1>3, <3>1, <3>2, <3>3
  <2> QED BY <2>1, <2>2
<1>10. Disclosed' /\ YoursIsOurs'
  BY <1>1, <1>4 DEF Inv, Attribution, Disclosed, YoursIsOurs
<1> QED BY <1>6, <1>7, <1>8, <1>9, <1>10 DEF Inv, Attribution

\* The chain may grow, reorganise, or take a block of this miner.
LEMMA NodeKeeps == Inv /\ (Extend \/ Reorganise \/ ExtendOurs) => Inv'
<1> SUFFICES ASSUME Inv, Extend \/ Reorganise \/ ExtendOurs PROVE Inv'
  OBVIOUS
<1>1. chain \in Seq(1..made) /\ Len(chain) \in 1..Len(chain) /\ SubSeq(chain, 1, Len(chain)) = chain
  BY DEF Inv, TypeOK
<1>2. CASE Extend
  BY <1>1, <1>2, ChainGrows DEF Extend
<1>3. CASE Reorganise
  <2>1. PICK k \in 1..(Len(chain) - 1) : chain' = Append(SubSeq(chain, 1, k), Fresh)
    BY <1>3 DEF Reorganise
  <2>2. k \in 1..Len(chain)
    BY <1>1
  <2> QED BY <1>3, <2>1, <2>2, ChainGrows DEF Reorganise
<1>4. CASE ExtendOurs
  <2> DEFINE b == [height |-> Len(chain) + 1, hash |-> Fresh]
  <2>1. /\ chain' = Append(SubSeq(chain, 1, Len(chain)), Fresh)
        /\ made' = Fresh
        /\ ours' = ours \cup {b} /\ answers' = answers \cup {b}
        /\ UNCHANGED <<discloses, sealed, spc, tip, todo, cache, watchVars,
                       historyVars, fails>>
    BY <1>1, <1>4 DEF ExtendOurs
  <2>2. b \in [height : {Len(chain) + 1}, hash : {Fresh}]
    OBVIOUS
  <2> HIDE DEF b
  <2>3. \E c \in [height : {Len(chain) + 1}, hash : {Fresh}] :
          Len(chain) = Len(chain) /\ ours' = ours \cup {c} /\ answers' = answers \cup {c}
    BY <2>1, <2>2
  <2> QED BY <1>1, <2>1, <2>3, ChainGrows
<1> QED BY <1>2, <1>3, <1>4

\* Sealed blocks are blocks of this miner, and few.
LEMMA RecordSealedKeeps == Inv /\ RecordSealed => Inv'
<1> SUFFICES ASSUME Inv, RecordSealed PROVE Inv'
  OBVIOUS
<1>1. PICK b \in answers :
        /\ answers' = answers \ {b}
        /\ sealed' = LET s == Append(sealed, b)
                     IN  IF Len(s) > MaxSealed THEN Tail(s) ELSE s
  BY DEF RecordSealed
<1>2. /\ UNCHANGED <<chain, made, discloses, ours, spc, tip, todo, cache, fails>>
      /\ UNCHANGED <<lastTip, needsBaseline, reported>>
      /\ UNCHANGED <<based, highest, news, again, omitted, claimed>>
  BY DEF RecordSealed, watchVars, historyVars
<1>3. sealed' \in Seq(ours) /\ Len(sealed') <= MaxSealed
  <2> DEFINE s == Append(sealed, b)
  <2>1. sealed \in Seq(ours) /\ b \in ours /\ Len(sealed) <= MaxSealed
    BY <1>1 DEF Inv, TypeOK
  <2>2. s \in Seq(ours) /\ Len(s) = Len(sealed) + 1 /\ Len(sealed) \in Nat
    BY <2>1
  <2> HIDE DEF s
  <2>3. Len(s) > 0 => Tail(s) \in Seq(ours) /\ Len(Tail(s)) = Len(s) - 1
    BY <2>2
  <2>4. sealed' = IF Len(s) > MaxSealed THEN Tail(s) ELSE s
    BY <1>1 DEF s
  <2> QED BY <2>1, <2>2, <2>3, <2>4
<1>4. TypeOK'
  BY <1>1, <1>2, <1>3 DEF Inv, TypeOK, Window, WindowStart
<1>5. Bounds' /\ Memory'
  BY <1>2 DEF Inv, Bounds, Baseline, Memory, Accounted, Remembered,
     AnnouncedOnce, NoSilentBlock
<1>6. Agreement' /\ Attribution'
  BY <1>2 DEF Inv, Agreement, CacheRecorded, WatchKnowsCache, Outnumbered, Above,
     Attribution, Placed, Disclosed, YoursIsOurs
<1> QED BY <1>4, <1>5, <1>6 DEF Inv

\* A new session starts with an empty cache and wants a baseline.
LEMMA NextSessionKeeps == Inv /\ NextSession => Inv'
<1> SUFFICES ASSUME Inv, NextSession PROVE Inv'
  OBVIOUS
<1>1. /\ spc = "poll" /\ needsBaseline' = TRUE /\ cache' = <<>>
      /\ UNCHANGED <<chain, made, discloses, ours, answers, sealed, spc, tip, todo,
                     lastTip, reported>>
      /\ UNCHANGED <<based, highest, news, again, omitted, claimed>>
  BY DEF NextSession, KeepReported, nodeVars, historyVars
<1>2. DOMAIN cache' = {} /\ cache' \in [DOMAIN cache' -> 0..made']
      /\ IsFiniteSet({}) /\ Cardinality({}) = 0
  BY <1>1, FS_EmptySet
<1>3. TypeOK'
  BY SMTT(30), <1>1, <1>2 DEF Inv, TypeOK, Window, WindowStart
<1>4. Bounds' /\ Memory'
  BY <1>1, <1>2 DEF Inv, Bounds, Baseline, Memory, Accounted, Remembered,
     AnnouncedOnce, NoSilentBlock
<1>5. Agreement' /\ Attribution'
  BY <1>1, <1>2 DEF Inv, Agreement, CacheRecorded, WatchKnowsCache,
     Attribution, Placed, Disclosed, YoursIsOurs
<1> QED BY <1>3, <1>4, <1>5 DEF Inv

\* The bookkeeping is in natural numbers.
LEMMA Heights ==
  ASSUME Inv
  PROVE  /\ highest \in Nat /\ based \in Nat /\ lastTip \in Nat /\ made \in Nat
         /\ \A h \in news \cup again : h \in Nat
         /\ MaxReported \in Nat /\ MaxReported > 0
         /\ NoHash \in 0..made
<1>1. /\ highest \in Nat /\ based \in Nat /\ lastTip \in Nat /\ made \in Nat
      /\ news \subseteq 1..highest /\ again \subseteq news
  BY DEF Inv, TypeOK, Bounds
<1> QED BY <1>1 DEF NoHash

-----------------------------------------------------------------------------
(* The session's polls.                                                    *)

\* A baseline covers every height up to it.
LEMMA PollBaselineKeeps == Inv /\ PollBaseline => Inv'
<1> SUFFICES ASSUME Inv, PollBaseline PROVE Inv'
  OBVIOUS
<1> DEFINE t == Len(chain)
<1>1. /\ spc = "poll" /\ Baseline /\ spc' = "backfill"
      /\ tip' = t /\ lastTip' = t /\ needsBaseline' = FALSE
      /\ reported' = Recorded(t, NoHash)
      /\ based' = IF t > based THEN t ELSE based
      /\ highest' = IF t > highest THEN t ELSE highest
      /\ todo' = RefreshTargets(t, cache)
      /\ UNCHANGED <<chain, made, discloses, ours, answers, sealed, cache>>
      /\ UNCHANGED <<news, again, omitted, claimed>>
  BY DEF PollBaseline, nodeVars
<1>2. t \in Nat /\ t >= 1 /\ made \in Nat
  BY DEF Inv, TypeOK
<1>3. /\ highest' \in Nat /\ based' \in Nat /\ t <= based' /\ based' <= highest'
      /\ highest <= highest' /\ based <= based'
      /\ DOMAIN reported \subseteq 1..highest'
      /\ t \in 1..highest'
  <2>1. /\ highest \in Nat /\ based \in Nat /\ based <= highest
        /\ DOMAIN reported \subseteq 1..highest
    BY DEF Inv, Bounds
  <2>2. /\ highest' \in Nat /\ based' \in Nat /\ t <= based' /\ based' <= highest'
        /\ highest <= highest' /\ based <= based'
    BY <1>1, <1>2, <2>1
  <2> QED BY <1>2, <2>1, <2>2
<1>4. /\ reported' \in [DOMAIN reported' -> 0..made]
      /\ DOMAIN reported' \subseteq DOMAIN reported \cup {t}
      /\ Cardinality(DOMAIN reported') <= MaxReported
      /\ \A k \in DOMAIN reported \cup {t} :
           k \notin DOMAIN reported' => Outnumbered(MaxReported, k, DOMAIN reported')
  <2>1. reported \in [DOMAIN reported -> 0..made]
    BY DEF Inv, TypeOK
  <2>2. NoHash \in 0..made /\ made \in Nat
    BY Heights
  <2> QED BY <1>1, <1>3, <2>1, <2>2, RecordedFacts
<1>5. DOMAIN cache = {}
  BY <1>1 DEF Inv, Bounds
<1>6. TypeOK'
  <2>1. todo' \subseteq Window(tip')
    BY <1>1, TargetsInWindow
  <2> QED BY <1>1, <1>2, <1>4, <2>1 DEF Inv, TypeOK
<1>7. Bounds'
  BY SMTT(30), <1>1, <1>2, <1>3, <1>4, <1>5 DEF Inv, Bounds, Baseline, NoHeight
<1>8. Accounted'
  BY SMTT(30), <1>1, <1>2, <1>3, <1>4 DEF Inv, Bounds, Memory, Accounted
<1>9. Remembered'
  <2> SUFFICES ASSUME NEW h \in news, h \notin DOMAIN reported'
               PROVE  highest' >= h + MaxReported
    BY <1>1 DEF Remembered
  <2>1. h \in Nat
    BY Heights
  <2>2. CASE h \in DOMAIN reported
    <3>1. Outnumbered(MaxReported, h, DOMAIN reported')
      BY <1>4, <2>2
    <3>2. DOMAIN reported' \in SUBSET (1..highest') /\ MaxReported \in Nat /\ MaxReported > 0
      BY <1>3, <1>4
    <3> QED BY <1>3, <2>1, <3>1, <3>2, OutnumberedBelow
  <2>3. CASE h \notin DOMAIN reported
    BY <1>3, <2>1, <2>3 DEF Inv, Bounds, Memory, Remembered
  <2> QED BY <2>2, <2>3
<1>10. AnnouncedOnce' /\ NoSilentBlock'
  <2>1. AnnouncedOnce'
    <3>1. \A h \in again : h \in Nat /\ highest >= h + MaxReported
      BY DEF Inv, Bounds, Memory, AnnouncedOnce
    <3>2. highest \in Nat /\ MaxReported \in Nat
      BY DEF Inv, Bounds
    <3> QED BY <1>1, <1>3, <3>1, <3>2 DEF AnnouncedOnce
  <2>2. NoSilentBlock'
    BY <1>1, <1>2, <1>3 DEF NoSilentBlock
  <2> QED BY <2>1, <2>2
<1>11. Agreement' /\ Attribution'
  BY <1>1, <1>5 DEF Inv, Agreement, CacheRecorded, WatchKnowsCache,
     Attribution, Placed, Disclosed, YoursIsOurs
<1> QED BY <1>6, <1>7, <1>8, <1>9, <1>10, <1>11 DEF Inv, Memory

\* An advance leaves each new height to the loop or to the gap line.
LEMMA PollAdvanceKeeps == Inv /\ PollAdvance => Inv'
<1> SUFFICES ASSUME Inv, PollAdvance PROVE Inv'
  OBVIOUS
<1> DEFINE t == Len(chain)
<1>1. /\ spc = "poll" /\ ~Baseline /\ t > lastTip /\ spc' = "feed"
      /\ tip' = t /\ lastTip' = t
      /\ highest' = IF t > highest THEN t ELSE highest
      /\ todo' = Report(t)
      /\ omitted' = omitted \cup ((lastTip + 1)..(t - MaxGap))
      /\ UNCHANGED <<chain, made, discloses, ours, answers, sealed, cache>>
      /\ UNCHANGED <<needsBaseline, reported, based, news, again, claimed>>
  BY DEF PollAdvance, nodeVars
<1>2. t \in Nat /\ t >= 1 /\ lastTip \in Nat
  BY DEF Inv, TypeOK
<1>3. /\ todo' # {} /\ todo' \subseteq Window(tip')
      /\ (lastTip + 1)..t \subseteq todo' \cup ((lastTip + 1)..(t - MaxGap))
  BY <1>1, <1>2, ReportFacts
<1>4. TypeOK'
  BY <1>1, <1>2, <1>3 DEF Inv, TypeOK
<1>5. Bounds'
  BY SMTT(30), <1>1, <1>2 DEF Inv, Bounds, Baseline, NoHeight
<1>6. Memory'
  <2>1. Accounted' /\ Remembered' /\ AnnouncedOnce'
    <3>1. /\ highest \in Nat /\ highest' \in Nat /\ highest' >= highest
          /\ MaxReported \in Nat /\ \A h \in news \cup again : h \in Nat
      BY <1>1, <1>2 DEF Inv, Bounds
    <3>2. Accounted'
      BY <1>1 DEF Inv, Memory, Accounted
    <3>3. Remembered' /\ AnnouncedOnce'
      BY <1>1, <3>1 DEF Inv, Memory, Remembered, AnnouncedOnce
    <3> QED BY <3>2, <3>3
  <2>2. ASSUME NEW h \in 1..t
        PROVE  h \in news' \cup omitted' \/ h <= based' \/ h \in todo'
    <3>1. CASE h <= lastTip
      BY <1>1, <3>1 DEF Inv, Memory, NoSilentBlock
    <3>2. CASE h > lastTip
      BY SMTT(30), <1>1, <1>2, <1>3, <3>2
    <3> QED BY <1>2, <3>1, <3>2
  <2>3. NoSilentBlock'
    BY <1>1, <2>2 DEF NoSilentBlock
  <2> QED BY <2>1, <2>3 DEF Memory
<1>7. Agreement' /\ Attribution'
  BY <1>1 DEF Inv, Agreement, CacheRecorded, WatchKnowsCache, Outnumbered, Above,
     Attribution, Placed, Disclosed, YoursIsOurs
<1> QED BY <1>4, <1>5, <1>6, <1>7 DEF Inv

\* A lower tip leaves fewer heights to account for.
LEMMA PollUnchangedKeeps == Inv /\ PollUnchanged => Inv'
<1> SUFFICES ASSUME Inv, PollUnchanged PROVE Inv'
  OBVIOUS
<1> DEFINE t == Len(chain)
<1>1. /\ spc = "poll" /\ ~Baseline /\ t <= lastTip /\ spc' = "backfill"
      /\ tip' = t /\ lastTip' = t
      /\ todo' = RefreshTargets(t, cache)
      /\ UNCHANGED <<chain, made, discloses, ours, answers, sealed, cache>>
      /\ UNCHANGED <<needsBaseline, reported>>
      /\ UNCHANGED <<based, highest, news, again, omitted, claimed>>
  BY DEF PollUnchanged, nodeVars, historyVars
<1>2. t \in Nat /\ t >= 1 /\ lastTip \in Nat
  BY DEF Inv, TypeOK
<1>3. TypeOK'
  <2>1. todo' \subseteq Window(tip')
    BY <1>1, TargetsInWindow
  <2> QED BY <1>1, <1>2, <2>1 DEF Inv, TypeOK
<1>4. Bounds'
  BY <1>1, <1>2 DEF Inv, Bounds, Baseline, NoHeight
<1>5. Memory'
  BY <1>1, <1>2 DEF Inv, Memory, Accounted, Remembered, AnnouncedOnce, NoSilentBlock
<1>6. Agreement' /\ Attribution'
  BY <1>1 DEF Inv, Agreement, CacheRecorded, WatchKnowsCache, Outnumbered, Above,
     Attribution, Placed, Disclosed, YoursIsOurs
<1> QED BY <1>3, <1>4, <1>5, <1>6 DEF Inv

-----------------------------------------------------------------------------
(* Fetching, announcing and drawing.                                       *)

\* What recording a height of the running loop does.
LEMMA RecordStep ==
  ASSUME Inv, spc # "poll", NEW h \in todo, NEW x \in 0..made,
         reported' = Recorded(h, x)
  PROVE  /\ h \in Nat /\ h \in 1..lastTip /\ h \in 1..highest /\ h \in Window(tip)
         /\ reported' \in [DOMAIN reported' -> 0..made]
         /\ Cardinality(DOMAIN reported') <= MaxReported
         /\ DOMAIN reported' \subseteq 1..highest
         /\ DOMAIN reported' \subseteq DOMAIN reported \cup {h}
         /\ \A k \in DOMAIN reported' : k # h => reported'[k] = reported[k]
         /\ h \in DOMAIN reported' =>
              reported'[h] = IF h \in DOMAIN reported /\ x = NoHash
                             THEN reported[h] ELSE x
         /\ \A k \in DOMAIN reported \cup {h} :
              \/ k \in DOMAIN reported'
              \/ /\ Outnumbered(MaxReported, k, DOMAIN reported')
                 /\ highest >= k + MaxReported
         /\ \A k \in Nat : Outnumbered(MaxReported, k, DOMAIN reported)
                             => /\ Outnumbered(MaxReported, k, DOMAIN reported')
                                /\ k \notin DOMAIN reported'
<1>1. /\ tip \in Nat /\ lastTip = tip /\ highest \in Nat /\ lastTip <= highest
      /\ h \in Window(tip) /\ DOMAIN reported \subseteq 1..highest
      /\ reported \in [DOMAIN reported -> 0..made] /\ made \in Nat
  BY DEF Inv, TypeOK, Bounds
<1>2. h \in Nat /\ h \in 1..lastTip /\ h \in 1..highest
  <2>1. h \in 1..tip
    BY <1>1, WindowFacts
  <2> QED BY <1>1, <2>1
<1>3. /\ reported' \in [DOMAIN reported' -> 0..made]
      /\ Cardinality(DOMAIN reported') <= MaxReported
      /\ DOMAIN reported' \subseteq DOMAIN reported \cup {h}
      /\ \A k \in DOMAIN reported' : k # h => reported'[k] = reported[k]
      /\ h \in DOMAIN reported' =>
           reported'[h] = IF h \in DOMAIN reported /\ x = NoHash
                          THEN reported[h] ELSE x
      /\ \A k \in DOMAIN reported \cup {h} :
           k \notin DOMAIN reported' => Outnumbered(MaxReported, k, DOMAIN reported')
      /\ \A k \in Nat : Outnumbered(MaxReported, k, DOMAIN reported)
                          => /\ Outnumbered(MaxReported, k, DOMAIN reported')
                             /\ k \notin DOMAIN reported'
  BY <1>1, <1>2, RecordedFacts
<1>4. DOMAIN reported' \subseteq 1..highest
  BY <1>1, <1>2, <1>3
<1>5. ASSUME NEW k \in DOMAIN reported \cup {h}, k \notin DOMAIN reported'
      PROVE  highest >= k + MaxReported
  <2>1. k \in Nat /\ Outnumbered(MaxReported, k, DOMAIN reported')
    BY <1>1, <1>2, <1>3, <1>5
  <2>2. DOMAIN reported' \in SUBSET (1..highest)
    BY <1>4
  <2>3. MaxReported \in Nat /\ MaxReported > 0
    OBVIOUS
  <2> QED BY <1>1, <2>1, <2>2, <2>3, OutnumberedBelow
<1> QED BY <1>1, <1>2, <1>3, <1>4, <1>5

\* A proven mark has a block of this miner behind it.
LEMMA ProvenMark ==
  ASSUME Inv, NEW h, NEW f \in BOOLEAN, NEW x, Proven(MineMark(h, f, x))
  PROVE  f /\ \E b \in ours : IF x = NoHash THEN b.height = h ELSE b.hash = x
<1>1. f /\ IsSealed(h, x)
  BY DEF Proven, MineMark
<1>2. Range(sealed) \subseteq ours
  BY DEF Inv, TypeOK, Range
<1> QED BY <1>1, <1>2 DEF IsSealed

\* One announcement of the feed's loop keeps the feed's books.
LEMMA AnnounceKeeps ==
  ASSUME Inv, spc = "feed", NEW h \in todo, NEW x \in 0..made, NEW f, NEW c,
         reported' = Recorded(h, x), Announce(h, f, x), FeedNext(h, c),
         UNCHANGED <<tip, lastTip, based, highest, omitted>>
  PROVE  /\ Memory'
         /\ news' \subseteq 1..highest /\ again' \subseteq news'
         /\ todo' \subseteq Window(tip) /\ spc' \in {"feed", "backfill"}
         /\ spc' = "feed" => todo' # {}
<1>1. /\ h \in Nat /\ h \in 1..lastTip /\ h \in 1..highest
      /\ DOMAIN reported' \subseteq DOMAIN reported \cup {h}
      /\ \A k \in DOMAIN reported \cup {h} :
           k \in DOMAIN reported' \/ highest >= k + MaxReported
  BY RecordStep
<1>2. /\ news' = IF h \in DOMAIN reported THEN news ELSE news \cup {h}
      /\ again' = IF h \in DOMAIN reported THEN again ELSE again \cup ({h} \cap news)
  BY DEF Announce
<1>3. h \in news' \cup omitted \/ h <= based
  BY <1>2 DEF Inv, Memory, Accounted
<1>4. Accounted'
  BY <1>1, <1>2, <1>3 DEF Inv, Memory, Accounted
<1>5. Remembered'
  <2> SUFFICES ASSUME NEW k \in news', k \notin DOMAIN reported'
               PROVE  highest >= k + MaxReported
    BY DEF Remembered
  <2>1. CASE k \in DOMAIN reported \/ k = h
    BY <1>1, <2>1
  <2>2. CASE k \notin DOMAIN reported /\ k # h
    BY <1>2, <2>2 DEF Inv, Memory, Remembered
  <2> QED BY <2>1, <2>2
<1>6. AnnouncedOnce'
  BY <1>2 DEF Inv, Memory, AnnouncedOnce, Remembered
<1>7. NoSilentBlock'
  <2> SUFFICES ASSUME NEW k \in 1..lastTip
               PROVE  \/ k \in news' \cup omitted \/ k <= based
                      \/ spc' = "feed" /\ k \in todo'
    BY DEF NoSilentBlock
  <2>1. CASE k \in news \cup omitted \/ k <= based
    BY <1>2, <2>1
  <2>2. CASE k \in todo /\ k # h
    BY <2>2 DEF FeedNext
  <2>3. CASE k = h
    BY <1>3, <2>3
  <2> QED BY <2>1, <2>2, <2>3 DEF Inv, Memory, NoSilentBlock
<1>8. news' \subseteq 1..highest /\ again' \subseteq news'
  BY <1>1, <1>2 DEF Inv, Bounds
<1>9. /\ todo' \subseteq Window(tip) /\ spc' \in {"feed", "backfill"}
      /\ spc' = "feed" => todo' # {}
  BY TargetsInWindow DEF FeedNext, Inv, TypeOK
<1> QED BY <1>4, <1>5, <1>6, <1>7, <1>8, <1>9 DEF Memory

\* Caching and recording the same reply keeps the strip and the feed agreed.
LEMMA FetchKeeps ==
  ASSUME Inv, spc # "poll", NEW h \in todo, h \in DOMAIN chain,
         reported' = Recorded(h, Hash(h)), cache' = Cached(h, Hash(h)),
         UNCHANGED <<chain, made, discloses, ours, tip>>
  PROVE  /\ Agreement' /\ Placed' /\ Disclosed'
         /\ cache' \in [DOMAIN cache' -> 0..made]
         /\ DOMAIN cache' \subseteq Window(tip)
<1> DEFINE x == Hash(h)
<1>1. /\ chain[h] \in 1..made /\ made \in Nat /\ tip \in Nat
      /\ cache \in [DOMAIN cache -> 0..made] /\ h \in 1..Len(chain)
  <2> DEFINE B == 1..made
  <2>1. /\ chain \in Seq(B) /\ made \in Nat /\ tip \in Nat
        /\ cache \in [DOMAIN cache -> 0..made]
    BY DEF Inv, TypeOK
  <2> HIDE DEF B
  <2>2. h \in 1..Len(chain) /\ chain[h] \in B
    BY <2>1
  <2> QED BY <2>1, <2>2 DEF B
<1>2. x \in 0..made /\ (x # NoHash <=> discloses) /\ (x # NoHash => x = chain[h])
  BY <1>1 DEF Hash, NoHash
<1>3. h \in Window(tip)
  BY DEF Inv, TypeOK
<1> HIDE DEF x
<1>4. /\ cache' \in [DOMAIN cache' -> 0..made]
      /\ DOMAIN cache' \subseteq Window(tip)
      /\ h \in DOMAIN cache' /\ cache'[h] = x
      /\ \A k \in DOMAIN cache' : k # h => k \in DOMAIN cache /\ cache'[k] = cache[k]
  BY <1>1, <1>2, <1>3, CachedFacts DEF x
<1>5. /\ DOMAIN reported' \subseteq DOMAIN reported \cup {h}
      /\ \A k \in DOMAIN reported' : k # h => reported'[k] = reported[k]
      /\ h \in DOMAIN reported' =>
           reported'[h] = IF h \in DOMAIN reported /\ x = NoHash
                          THEN reported[h] ELSE x
      /\ \A k \in DOMAIN reported \cup {h} :
           \/ k \in DOMAIN reported'
           \/ Outnumbered(MaxReported, k, DOMAIN reported')
      /\ \A k \in Nat : Outnumbered(MaxReported, k, DOMAIN reported)
                          => Outnumbered(MaxReported, k, DOMAIN reported')
  BY <1>2, RecordStep DEF x
<1>6. CacheRecorded'
  <2> SUFFICES ASSUME NEW k \in DOMAIN cache'
               PROVE  \/ k \in DOMAIN reported'
                      \/ Outnumbered(MaxReported, k, DOMAIN reported')
    BY DEF CacheRecorded, Outnumbered, Above
  <2>1. CASE k = h
    BY <1>5, <2>1
  <2>2. CASE k # h
    <3>1. k \in DOMAIN cache /\ k \in Nat
      BY <1>4, <2>2 DEF Inv, Bounds
    <3>2. k \in DOMAIN reported \/ Outnumbered(MaxReported, k, DOMAIN reported)
      BY <3>1 DEF Inv, Agreement, CacheRecorded
    <3> QED BY <1>5, <3>1, <3>2
  <2> QED BY <2>1, <2>2
<1>7. WatchKnowsCache'
  BY <1>4, <1>5 DEF Inv, Agreement, WatchKnowsCache
<1>8. Placed'
  <2> SUFFICES ASSUME NEW b \in ours, NEW k \in DOMAIN cache', cache'[k] = b.hash
               PROVE  k = b.height
    BY DEF Inv, Attribution, Placed
  <2>1. /\ b.hash \in 1..made
        /\ \A i \in 1..Len(chain) : chain[i] = b.hash => i = b.height
        /\ \A i \in DOMAIN cache : cache[i] = b.hash => i = b.height
    BY DEF Inv, Attribution, Placed
  <2>2. CASE k = h
    <3>1. x = b.hash /\ x # NoHash
      BY <1>1, <1>4, <2>1, <2>2 DEF NoHash
    <3> QED BY <1>1, <1>2, <2>1, <2>2, <3>1
  <2>3. CASE k # h
    BY <1>4, <2>1, <2>3
  <2> QED BY <2>2, <2>3
<1>9. Disclosed'
  BY <1>2, <1>4 DEF Inv, Attribution, Disclosed
<1> QED BY <1>4, <1>6, <1>7, <1>8, <1>9 DEF Agreement

\* Announcing a height whose block was fetched.
LEMMA FeedFetchedKeeps == Inv /\ FeedFetched => Inv'
<1> SUFFICES ASSUME Inv, FeedFetched PROVE Inv'
  OBVIOUS
<1> DEFINE h == Min(todo)
<1>1. /\ spc = "feed" /\ h \in DOMAIN chain
      /\ cache' = Cached(h, Hash(h)) /\ reported' = Recorded(h, Hash(h))
      /\ Announce(h, TRUE, Hash(h)) /\ FeedNext(h, cache')
      /\ UNCHANGED <<chain, made, discloses, ours, answers, sealed>>
      /\ UNCHANGED <<tip, lastTip, needsBaseline, based, highest, omitted>>
  BY DEF FeedFetched, nodeVars
<1>2. h \in todo
  <2>1. tip \in Nat /\ todo \subseteq Window(tip) /\ todo # {}
    BY <1>1 DEF Inv, TypeOK
  <2>2. IsFiniteSet(todo) /\ todo \in SUBSET Nat
    BY <2>1, WindowFacts
  <2> QED BY <2>1, <2>2, MinMaxIn
<1> HIDE DEF h
<1>3. /\ chain[h] \in 1..made /\ made \in Nat /\ tip \in Nat /\ h \in 1..Len(chain)
  <2> DEFINE B == 1..made
  <2>1. chain \in Seq(B) /\ made \in Nat /\ tip \in Nat
    BY DEF Inv, TypeOK
  <2> HIDE DEF B
  <2>2. h \in 1..Len(chain) /\ chain[h] \in B
    BY <1>1, <2>1
  <2> QED BY <2>1, <2>2 DEF B
<1>4. Hash(h) \in 0..made /\ (Hash(h) # NoHash <=> discloses)
      /\ (Hash(h) # NoHash => Hash(h) = chain[h])
  BY <1>3 DEF Hash, NoHash
<1>5. /\ Agreement' /\ Placed' /\ Disclosed'
      /\ cache' \in [DOMAIN cache' -> 0..made]
      /\ DOMAIN cache' \subseteq Window(tip)
  BY <1>1, <1>2, FetchKeeps
<1>6. /\ Memory'
      /\ news' \subseteq 1..highest /\ again' \subseteq news'
      /\ todo' \subseteq Window(tip) /\ spc' \in {"feed", "backfill"}
      /\ spc' = "feed" => todo' # {}
  BY <1>1, <1>2, <1>4, AnnounceKeeps
<1>7. /\ reported' \in [DOMAIN reported' -> 0..made]
      /\ Cardinality(DOMAIN reported') <= MaxReported
      /\ DOMAIN reported' \subseteq 1..highest
      /\ h \in Nat
  BY <1>1, <1>2, <1>4, RecordStep
<1>8. /\ IsFiniteSet(DOMAIN cache') /\ Cardinality(DOMAIN cache') <= RecentDepth
      /\ DOMAIN cache' \subseteq Nat \ {0}
  <2>1. Window(tip) \subseteq Nat \ {0}
    BY <1>3, WindowFacts
  <2> QED BY <1>3, <1>5, <2>1, WindowFacts
<1>9. TypeOK'
  BY <1>1, <1>5, <1>6, <1>7, <1>8 DEF Inv, TypeOK, Window, WindowStart
<1>10. Bounds'
  BY <1>1, <1>6, <1>7, <1>8 DEF Inv, Bounds, Baseline
<1>11. YoursIsOurs'
  <2>1. claimed' = claimed \/
          /\ Proven(MineMark(h, TRUE, Hash(h)))
          /\ claimed' = claimed \cup {[height |-> h, hash |-> chain[h]]}
    BY <1>1 DEF Announce
  <2>2. CASE claimed' = claimed
    BY <1>1, <2>2 DEF Inv, Attribution, YoursIsOurs
  <2>3. CASE /\ Proven(MineMark(h, TRUE, Hash(h)))
             /\ claimed' = claimed \cup {[height |-> h, hash |-> chain[h]]}
    <3>1. PICK b \in ours : IF Hash(h) = NoHash THEN b.height = h ELSE b.hash = Hash(h)
      BY <2>3, ProvenMark
    <3>2. b \in [height : Nat, hash : Nat]
      BY DEF Inv, TypeOK
    <3>3. discloses => b = [height |-> h, hash |-> chain[h]]
      <4>1. discloses => chain[h] = b.hash
        BY <1>4, <3>1
      <4>2. discloses => h = b.height
        BY <1>3, <4>1 DEF Inv, Attribution, Placed
      <4> QED BY <3>2, <4>1, <4>2
    <3>4. ~discloses => b.height = h
      BY <1>4, <3>1
    <3>5. ASSUME NEW c \in claimed'
          PROVE  \E d \in ours : IF discloses THEN d = c ELSE d.height = c.height
      <4>1. CASE c \in claimed
        BY <4>1 DEF Inv, Attribution, YoursIsOurs
      <4>2. CASE c = [height |-> h, hash |-> chain[h]]
        BY <3>3, <3>4, <4>2
      <4> QED BY <2>3, <4>1, <4>2
    <3> QED BY <1>1, <3>5 DEF YoursIsOurs
  <2> QED BY <2>1, <2>2, <2>3
<1> QED BY <1>5, <1>6, <1>9, <1>10, <1>11 DEF Inv, Attribution

\* Announcing a height whose block was not fetched claims nothing, and
\* relearns no height the cache has and the feed forgot.
LEMMA FeedFailedKeeps == Inv /\ FeedFailed => Inv'
<1> SUFFICES ASSUME Inv, FeedFailed PROVE Inv'
  OBVIOUS
<1> DEFINE h == Min(todo)
<1>1. /\ spc = "feed" /\ reported' = Recorded(h, NoHash)
      /\ Announce(h, FALSE, NoHash) /\ FeedNext(h, cache)
      /\ UNCHANGED <<chain, made, discloses, ours, answers, sealed, cache>>
      /\ UNCHANGED <<tip, lastTip, needsBaseline, based, highest, omitted>>
  BY DEF FeedFailed, nodeVars
<1>2. h \in todo
  <2>1. tip \in Nat /\ todo \subseteq Window(tip) /\ todo # {}
    BY <1>1 DEF Inv, TypeOK
  <2>2. IsFiniteSet(todo) /\ todo \in SUBSET Nat
    BY <2>1, WindowFacts
  <2> QED BY <2>1, <2>2, MinMaxIn
<1> HIDE DEF h
<1>3. NoHash \in 0..made
  BY Heights
<1>4. /\ Memory'
      /\ news' \subseteq 1..highest /\ again' \subseteq news'
      /\ todo' \subseteq Window(tip) /\ spc' \in {"feed", "backfill"}
      /\ spc' = "feed" => todo' # {}
  BY <1>1, <1>2, <1>3, AnnounceKeeps
<1>5. /\ reported' \in [DOMAIN reported' -> 0..made]
      /\ Cardinality(DOMAIN reported') <= MaxReported
      /\ DOMAIN reported' \subseteq 1..highest
      /\ DOMAIN reported' \subseteq DOMAIN reported \cup {h}
      /\ \A k \in DOMAIN reported' : k # h => reported'[k] = reported[k]
      /\ h \in DOMAIN reported' =>
           reported'[h] = IF h \in DOMAIN reported THEN reported[h] ELSE NoHash
      /\ \A k \in DOMAIN reported \cup {h} :
           \/ k \in DOMAIN reported'
           \/ Outnumbered(MaxReported, k, DOMAIN reported')
      /\ \A k \in Nat : Outnumbered(MaxReported, k, DOMAIN reported)
                          => /\ Outnumbered(MaxReported, k, DOMAIN reported')
                             /\ k \notin DOMAIN reported'
  BY <1>1, <1>2, <1>3, RecordStep
<1>6. TypeOK'
  BY <1>1, <1>4, <1>5 DEF Inv, TypeOK, Window, WindowStart
<1>7. Bounds'
  BY <1>1, <1>4, <1>5 DEF Inv, Bounds, Baseline
<1>8. CacheRecorded'
  <2> SUFFICES ASSUME NEW k \in DOMAIN cache
               PROVE  \/ k \in DOMAIN reported'
                      \/ Outnumbered(MaxReported, k, DOMAIN reported')
    BY <1>1 DEF CacheRecorded, Outnumbered, Above
  <2>1. k \in Nat
    BY DEF Inv, Bounds
  <2>2. k \in DOMAIN reported \/ Outnumbered(MaxReported, k, DOMAIN reported)
    BY DEF Inv, Agreement, CacheRecorded
  <2> QED BY <1>5, <2>1, <2>2
<1>9. WatchKnowsCache'
  <2> SUFFICES ASSUME NEW k \in DOMAIN cache \cap DOMAIN reported', cache[k] # NoHash
               PROVE  reported'[k] = cache[k]
    BY <1>1 DEF WatchKnowsCache
  <2>1. k \in Nat
    BY DEF Inv, Bounds
  <2>2. k \in DOMAIN reported
    BY <1>5, <2>1 DEF Inv, Agreement, CacheRecorded
  <2>3. reported'[k] = reported[k]
    BY <1>5, <2>2
  <2> QED BY <2>2, <2>3 DEF Inv, Agreement, WatchKnowsCache
<1>10. ~ Proven(MineMark(h, FALSE, NoHash))
  BY ProvenMark
<1>11. claimed' = claimed
  BY <1>1, <1>10 DEF Announce
<1>12. Attribution'
  BY <1>1, <1>11 DEF Inv, Attribution, Placed, Disclosed, YoursIsOurs
<1> QED BY <1>4, <1>6, <1>7, <1>8, <1>9, <1>12 DEF Inv, Agreement

\* Backfill records heights that are accounted for already.
LEMMA BackfillFetchedKeeps == Inv /\ BackfillFetched => Inv'
<1> SUFFICES ASSUME Inv, BackfillFetched PROVE Inv'
  OBVIOUS
<1> DEFINE h == Max(todo)
<1>1. /\ spc = "backfill" /\ todo # {} /\ h \in DOMAIN chain
      /\ cache' = Cached(h, Hash(h)) /\ reported' = Recorded(h, Hash(h))
      /\ todo' = todo \ {h}
      /\ UNCHANGED <<chain, made, discloses, ours, answers, sealed, spc>>
      /\ UNCHANGED <<tip, lastTip, needsBaseline>>
      /\ UNCHANGED <<based, highest, news, again, omitted, claimed>>
  BY DEF BackfillFetched, nodeVars, historyVars
<1>2. h \in todo
  <2>1. tip \in Nat /\ todo \subseteq Window(tip)
    BY DEF Inv, TypeOK
  <2>2. IsFiniteSet(todo) /\ todo \in SUBSET Nat
    BY <2>1, WindowFacts
  <2> QED BY <1>1, <2>2, MinMaxIn
<1> HIDE DEF h
<1>3. tip \in Nat /\ made \in Nat /\ Hash(h) \in 0..made
  <2> DEFINE B == 1..made
  <2>1. chain \in Seq(B) /\ made \in Nat /\ tip \in Nat
    BY DEF Inv, TypeOK
  <2> HIDE DEF B
  <2>2. chain[h] \in B
    BY <1>1, <2>1
  <2> QED BY <2>1, <2>2 DEF B, Hash, NoHash
<1>4. /\ Agreement' /\ Placed' /\ Disclosed'
      /\ cache' \in [DOMAIN cache' -> 0..made]
      /\ DOMAIN cache' \subseteq Window(tip)
  BY <1>1, <1>2, FetchKeeps
<1>5. /\ h \in 1..lastTip
      /\ reported' \in [DOMAIN reported' -> 0..made]
      /\ Cardinality(DOMAIN reported') <= MaxReported
      /\ DOMAIN reported' \subseteq 1..highest
      /\ DOMAIN reported' \subseteq DOMAIN reported \cup {h}
      /\ \A k \in DOMAIN reported \cup {h} :
           k \in DOMAIN reported' \/ highest >= k + MaxReported
  BY <1>1, <1>2, <1>3, RecordStep
<1>6. /\ IsFiniteSet(DOMAIN cache') /\ Cardinality(DOMAIN cache') <= RecentDepth
      /\ DOMAIN cache' \subseteq Nat \ {0}
  <2>1. Window(tip) \subseteq Nat \ {0}
    BY <1>3, WindowFacts
  <2> QED BY <1>3, <1>4, <2>1, WindowFacts
<1>7. TypeOK'
  BY <1>1, <1>4, <1>5, <1>6 DEF Inv, TypeOK, Window, WindowStart
<1>8. Bounds'
  BY <1>1, <1>5, <1>6 DEF Inv, Bounds, Baseline
<1>9. Memory'
  <2>1. Accounted'
    <3>1. h \in news \cup omitted \/ h <= based
      BY <1>1, <1>5 DEF Inv, Memory, NoSilentBlock
    <3> QED BY <1>1, <1>5, <3>1 DEF Inv, Memory, Accounted
  <2>2. Remembered'
    BY <1>1, <1>5 DEF Inv, Memory, Remembered
  <2>3. AnnouncedOnce' /\ NoSilentBlock'
    BY <1>1 DEF Inv, Memory, AnnouncedOnce, NoSilentBlock
  <2> QED BY <2>1, <2>2, <2>3 DEF Memory
<1>10. YoursIsOurs'
  BY <1>1 DEF Inv, Attribution, YoursIsOurs
<1> QED BY <1>4, <1>7, <1>8, <1>9, <1>10 DEF Inv, Attribution

\* A failed backfill leaves everything for the next refresh.
LEMMA BackfillFailedKeeps == Inv /\ BackfillFailed => Inv'
<1> SUFFICES ASSUME Inv, BackfillFailed PROVE Inv'
  OBVIOUS
<1>1. /\ spc = "backfill" /\ todo' = {}
      /\ UNCHANGED <<chain, made, discloses, ours, answers, sealed, spc, tip, cache>>
      /\ UNCHANGED <<lastTip, needsBaseline, reported>>
      /\ UNCHANGED <<based, highest, news, again, omitted, claimed>>
  BY DEF BackfillFailed, nodeVars, watchVars, historyVars
<1>2. TypeOK'
  BY <1>1 DEF Inv, TypeOK, Window, WindowStart
<1>3. Bounds' /\ Memory'
  BY <1>1 DEF Inv, Bounds, Baseline, Memory, Accounted, Remembered,
     AnnouncedOnce, NoSilentBlock
<1>4. Agreement' /\ Attribution'
  BY <1>1 DEF Inv, Agreement, CacheRecorded, WatchKnowsCache, Outnumbered, Above,
     Attribution, Placed, Disclosed, YoursIsOurs
<1> QED BY <1>2, <1>3, <1>4 DEF Inv

\* A tile called YOURS is cached, and so judged by its hash.
LEMMA EmitFlowKeeps == Inv /\ EmitFlow => Inv'
<1> SUFFICES ASSUME Inv, EmitFlow PROVE Inv'
  OBVIOUS
<1>1. /\ spc = "backfill" /\ todo = {} /\ spc' = "poll"
      /\ UNCHANGED <<chain, made, discloses, ours, answers, sealed>>
      /\ UNCHANGED <<tip, todo, cache, lastTip, needsBaseline, reported>>
      /\ UNCHANGED <<based, highest, news, again, omitted>>
      /\ claimed' = claimed \cup
           UNION {[height : {h}, hash : TileBlock(h)] :
                    h \in {k \in Window(tip) : Proven(TileMark(k))}}
  BY DEF EmitFlow, nodeVars, watchVars
<1>2. TypeOK'
  BY <1>1 DEF Inv, TypeOK, Window, WindowStart
<1>3. Bounds' /\ Memory'
  BY <1>1 DEF Inv, Bounds, Baseline, Memory, Accounted, Remembered,
     AnnouncedOnce, NoSilentBlock
<1>4. Agreement' /\ Placed' /\ Disclosed'
  BY <1>1 DEF Inv, Agreement, CacheRecorded, WatchKnowsCache, Outnumbered, Above,
     Attribution, Placed, Disclosed
<1>5. YoursIsOurs'
  <2> SUFFICES ASSUME NEW c \in claimed'
               PROVE  \E b \in ours : IF discloses THEN b = c ELSE b.height = c.height
    BY <1>1 DEF YoursIsOurs
  <2>1. CASE c \in claimed
    BY <2>1 DEF Inv, Attribution, YoursIsOurs
  <2>2. CASE c \notin claimed
    <3>1. PICK h \in Window(tip) :
            Proven(TileMark(h)) /\ c \in [height : {h}, hash : TileBlock(h)]
      BY <1>1, <2>2
    <3> DEFINE x == IF h \in DOMAIN cache THEN cache[h] ELSE NoHash
    <3>2. Proven(MineMark(h, h \in DOMAIN cache, x))
      BY <3>1 DEF TileMark
    <3>3. /\ h \in DOMAIN cache
          /\ \E b \in ours : IF x = NoHash THEN b.height = h ELSE b.hash = x
      <4> HIDE DEF x
      <4>1. (h \in DOMAIN cache) \in BOOLEAN
        OBVIOUS
      <4> QED BY <3>2, <4>1, ProvenMark
    <3>4. PICK b \in ours : IF cache[h] = NoHash THEN b.height = h ELSE b.hash = cache[h]
      BY <3>3
    <3>5. b \in [height : Nat, hash : Nat]
      BY DEF Inv, TypeOK
    <3>6. CASE discloses
      <4>1. cache[h] # NoHash
        BY <3>3, <3>6 DEF Inv, Attribution, Disclosed
      <4>2. c = [height |-> h, hash |-> cache[h]]
        BY <3>1, <3>3, <4>1 DEF TileBlock
      <4>3. b.hash = cache[h] /\ b.height = h
        BY <3>3, <3>4, <4>1 DEF Inv, Attribution, Placed
      <4>4. b = c
        BY <3>5, <4>2, <4>3
      <4> QED BY <3>6, <4>4
    <3>7. CASE ~discloses
      <4>1. cache[h] = NoHash
        BY <3>3, <3>7 DEF Inv, Attribution, Disclosed
      <4>2. b.height = h /\ c.height = h
        BY <3>1, <3>4, <4>1
      <4> QED BY <3>7, <4>2
    <3> QED BY <3>6, <3>7
  <2> QED BY <2>1, <2>2
<1> QED BY <1>2, <1>3, <1>4, <1>5 DEF Inv, Attribution

-----------------------------------------------------------------------------

\* Every step keeps the invariant.
LEMMA NextInv == Inv /\ [Next]_vars => Inv'
<1> SUFFICES ASSUME Inv, [Next]_vars PROVE Inv'
  OBVIOUS
<1>1. CASE Extend \/ Reorganise \/ ExtendOurs
  BY <1>1, NodeKeeps
<1>2. CASE RecordSealed
  BY <1>2, RecordSealedKeeps
<1>3. CASE NextSession
  BY <1>3, NextSessionKeeps
<1>4. CASE PollBaseline
  BY <1>4, PollBaselineKeeps
<1>5. CASE PollAdvance
  BY <1>5, PollAdvanceKeeps
<1>6. CASE PollUnchanged
  BY <1>6, PollUnchangedKeeps
<1>7. CASE FeedFetched
  BY <1>7, FeedFetchedKeeps
<1>8. CASE FeedFailed
  BY <1>8, FeedFailedKeeps
<1>9. CASE BackfillFetched
  BY <1>9, BackfillFetchedKeeps
<1>10. CASE BackfillFailed
  BY <1>10, BackfillFailedKeeps
<1>11. CASE EmitFlow
  BY <1>11, EmitFlowKeeps
<1>12. CASE UNCHANGED vars
  <2>1. /\ UNCHANGED <<chain, made, discloses, ours, answers, sealed, spc, tip>>
        /\ UNCHANGED <<todo, cache, lastTip, needsBaseline, reported>>
        /\ UNCHANGED <<based, highest, news, again, omitted, claimed>>
    BY <1>12 DEF vars, nodeVars, watchVars, historyVars
  <2>2. TypeOK'
    BY <2>1 DEF Inv, TypeOK, Window, WindowStart
  <2>3. Bounds' /\ Memory'
    BY <2>1 DEF Inv, Bounds, Baseline, Memory, Accounted, Remembered,
       AnnouncedOnce, NoSilentBlock
  <2>4. Agreement' /\ Attribution'
    BY <2>1 DEF Inv, Agreement, CacheRecorded, WatchKnowsCache, Outnumbered, Above,
       Attribution, Placed, Disclosed, YoursIsOurs
  <2> QED BY <2>2, <2>3, <2>4 DEF Inv
<1> QED BY <1>1, <1>2, <1>3, <1>4, <1>5, <1>6, <1>7, <1>8, <1>9, <1>10, <1>11,
           <1>12 DEF Next, NodeStep, SessionStep

\* So it always holds.
LEMMA Invariant == Spec => []Inv
<1> QED BY InitInv, NextInv, PTL DEF Spec

\* Every variable keeps its type, and the cache and the feed's memory their
\* limits.
THEOREM TypeCorrect == Spec => []TypeOK
<1>1. Inv => TypeOK
  BY DEF Inv
<1> QED BY <1>1, Invariant, PTL

\* Whatever is fetched, fails, is forgotten or reorganised, no height up to the
\* last tip passes without a line (TipWatch).
THEOREM EveryHeightAccounted == Spec => []NoSilentBlock
<1>1. Inv => NoSilentBlock
  BY DEF Inv, Memory
<1> QED BY <1>1, Invariant, PTL

\* A height announced twice is MaxReported below the highest tip seen: only a
\* reorganisation deeper than the accepted limit repeats a line.
THEOREM NoRepeatedLine == Spec => []AnnouncedOnce
<1>1. Inv => AnnouncedOnce
  BY DEF Inv, Memory
<1> QED BY <1>1, Invariant, PTL

\* YOURS is said of blocks of this miner that the node accepted, and of the
\* right one wherever the node discloses hashes (SealedBlocks::mine_mark).
THEOREM HonestAttribution == Spec => []YoursIsOurs
<1>1. Inv => YoursIsOurs
  BY DEF Inv, Attribution
<1> QED BY <1>1, Invariant, PTL

\* The feed's memory and the strip's cache know the same block of a height.
THEOREM FeedAgreesWithStrip == Spec => []WatchKnowsCache
<1>1. Inv => WatchKnowsCache
  BY DEF Inv, Agreement
<1> QED BY <1>1, Invariant, PTL
=============================================================================
