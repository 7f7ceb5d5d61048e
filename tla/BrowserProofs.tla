---------------------------- MODULE BrowserProofs ---------------------------
(***************************************************************************)
(* What a user sees and hears.  Each part of the browser that MCBrowser    *)
(* composes does what it promises for any clocks, delays, plans, sockets,  *)
(* lines, requests, posts and strokes, and so does their composition.      *)
(***************************************************************************)
EXTENDS MCBrowser, Counting

-----------------------------------------------------------------------------
(* The clock.                                                              *)

ClockSpec == ClockInit /\ [][ClockNext]_clockVars

\* A sample under one skew is off by no more than this.
ClockNearBy(o, k) == AbsOf(o - k) <= SampleError + 1

LEMMA Shifted ==
  ASSUME NEW x \in Int, NEW k \in Int
  PROVE  (x + k + k) \div 2 = k + (x \div 2)
OBVIOUS

LEMMA Halves ==
  ASSUME NEW x \in Int, NEW m \in Nat, AbsOf(x) <= m
  PROVE  x \div 2 \in Int /\ AbsOf(x \div 2) <= (m \div 2) + 1
BY DEF AbsOf

\* The least that every sample keeps to.
LEMMA ErrorBound ==
  /\ SampleError \in Nat
  /\ \A d \in Delays : \A w \in {0, PingTimeout} :
       (w + d[1] - d[2]) \div 2 \in Int /\ AbsOf((w + d[1] - d[2]) \div 2) <= SampleError + 1
<1> DEFINE All == {AbsOf(d[1] - d[2] + w) : d \in Delays, w \in {0, PingTimeout}}
           Pairs == Delays \X {0, PingTimeout}
           off == [x \in Pairs |-> AbsOf(x[1][1] - x[1][2] + x[2])]
<1>0. /\ PingTimeout \in Nat /\ Delays \subseteq Nat \X Nat /\ IsFiniteSet(Delays) /\ Delays # {}
      /\ \A d \in Delays : d[1] \in Nat /\ d[2] \in Nat
  BY ClockAssumption
<1>1. IsFiniteSet(Pairs)
  <2>1. IsFiniteSet({0, PingTimeout})
    <3>1. {0, PingTimeout} = {0} \cup {PingTimeout} /\ IsFiniteSet({0})
      BY FS_Singleton
    <3> QED BY <3>1, FS_AddElement
  <2> QED BY <1>0, <2>1, FS_Product
<1>2. \A y : y \in All <=> \E d \in Delays : \E w \in {0, PingTimeout} : y = AbsOf(d[1] - d[2] + w)
  BY SMT
<1>3. \A x \in Pairs : x[1] \in Delays /\ x[2] \in {0, PingTimeout} /\ off[x] = AbsOf(x[1][1] - x[1][2] + x[2])
  OBVIOUS
<1>4. \A d \in Delays : \A w \in {0, PingTimeout} : <<d, w>> \in Pairs /\ off[<<d, w>>] = AbsOf(d[1] - d[2] + w)
  OBVIOUS
<1>5. All \subseteq Nat /\ All # {} /\ IsFiniteSet(All)
  <2> HIDE DEF All, Pairs
  <2>1. \A y \in All : y \in Nat
    BY <1>0, <1>2 DEF AbsOf
  <2>2. All # {}
    BY <1>0, <1>2
  <2>3. off \in Surjection(Pairs, All)
    <3>1. \A x \in Pairs : off[x] \in All
      BY <1>2, <1>3
    <3>2. \A y \in All : \E x \in Pairs : off[x] = y
      BY <1>2, <1>4
    <3>3. off \in [Pairs -> All]
      BY <3>1
    <3> HIDE DEF off
    <3> QED BY <3>2, <3>3 DEF Surjection
  <2> QED BY <1>1, <2>1, <2>2, <2>3, FS_Surjection
<1> HIDE DEF All
<1>50. /\ Max(All) \in Nat
      /\ \A d \in Delays : \A w \in {0, PingTimeout} : AbsOf(d[1] - d[2] + w) <= Max(All)
  <2>1. Max(All) \in All /\ \A x \in All : x <= Max(All)
    BY <1>5, MaxOf
  <2> QED BY <1>2, <1>5, <2>1
<1>6. PICK m \in Nat : m = Max(All)
  BY <1>50
<1>7. SampleError = m \div 2
  BY <1>6 DEF SampleError, All
<1>8. ASSUME NEW d \in Delays, NEW w \in {0, PingTimeout}
      PROVE  (w + d[1] - d[2]) \div 2 \in Int /\ AbsOf((w + d[1] - d[2]) \div 2) <= SampleError + 1
  <2>1. PICK x \in Int : x = w + d[1] - d[2] /\ AbsOf(x) <= m
    <3>1. d[1] - d[2] + w \in Int /\ w + d[1] - d[2] = d[1] - d[2] + w
      BY <1>0
    <3> QED BY <1>50, <1>6, <3>1
  <2> QED BY <1>7, <2>1, Halves
<1> QED BY <1>7, <1>8


-----------------------------------------------------------------------------
Samples == [rtt : Int, off : Int]
SyncStates == [on : BOOLEAN, by : Nat, from : Int, taken : Nat, best : Samples, rtts : SUBSET Int, since : Nat]

ClockTyped ==
  /\ skew \in Int /\ jumps \in Nat /\ user \in BOOLEAN /\ offset \in Int /\ hasSynced \in BOOLEAN
  /\ asOf \in Int /\ token \in Nat /\ started \in BOOLEAN /\ loops \subseteq Nat
  /\ sync \in [Syncs -> SyncStates]

\* Whoever waits has a token of before or the last one, and the last only while somebody
\* is logged in.
ClockTokens ==
  /\ started => user
  /\ \A s \in Syncs : sync[s].by <= token /\ (sync[s].by # 0 /\ sync[s].by = token => user)
  /\ \A k \in loops : k # 0 /\ k <= token /\ (k = token => user)

\* What has been measured since the last jump of the device clock is near.
ClockMeasures ==
  /\ asOf <= jumps
  /\ \A s \in Syncs :
       /\ sync[s].since <= jumps
       /\ sync[s].on /\ sync[s].since = jumps =>
            sync[s].from = skew /\ (sync[s].rtts # {} => ClockNearBy(sync[s].best.off, skew))
  /\ ClockNear

ClockInv == ClockTyped /\ ClockTokens /\ ClockMeasures

LEMMA NotSyncingTyped ==
  /\ NotSyncing \in SyncStates /\ ~NotSyncing.on /\ NotSyncing.by = 0 /\ NotSyncing.since = 0 /\ NotSyncing.rtts = {}
BY DEF NotSyncing, SyncStates, NoSample, Samples

LEMMA ClockStart == ClockInit => ClockInv
<1> SUFFICES ASSUME ClockInit PROVE ClockInv
  OBVIOUS
<1>1. sync \in [Syncs -> SyncStates] /\ \A s \in Syncs : sync[s] = NotSyncing
  BY NotSyncingTyped DEF ClockInit
<1>2. ClockTyped
  <2>1. -1 \in Int /\ 0 \in Int /\ 0 \in Nat
    OBVIOUS
  <2> QED BY <1>1, <2>1, Zenon DEF ClockTyped, ClockInit
<1>3. ClockTokens
  BY <1>1, NotSyncingTyped DEF ClockTokens, ClockInit
<1>4. ClockMeasures
  <2>1. asOf = -1 /\ jumps = 0
    BY DEF ClockInit
  <2> QED BY <1>1, <2>1, NotSyncingTyped DEF ClockMeasures, ClockNear
<1> QED BY <1>2, <1>3, <1>4 DEF ClockInv

\* A call of syncTime() begins.
LEMMA CallBegins ==
  ASSUME ClockTyped, NEW s \in Syncs, NEW by \in Nat, Begun(s, by)
  PROVE  /\ ~sync[s].on
         /\ \E n \in SyncStates : /\ sync' = [sync EXCEPT ![s] = n]
                                  /\ n.on /\ n.by = by /\ n.from = skew /\ n.since = jumps /\ n.rtts = {}
<1>1. PICK n : n = [NotSyncing EXCEPT !.on = TRUE, !.by = by, !.from = skew, !.since = jumps]
  OBVIOUS
<1>2. n \in SyncStates /\ n.on /\ n.by = by /\ n.from = skew /\ n.since = jumps /\ n.rtts = {}
  BY <1>1, NotSyncingTyped DEF ClockTyped, SyncStates, NotSyncing
<1> QED BY <1>1, <1>2 DEF Begun

\* The state of one call changes: the others stay as they were.
LEMMA OneCallChanges ==
  ASSUME ClockTyped, NEW s \in Syncs, NEW n \in SyncStates, sync' = [sync EXCEPT ![s] = n]
  PROVE  sync' \in [Syncs -> SyncStates] /\ sync'[s] = n /\ \A q \in Syncs : q # s => sync'[q] = sync[q]
BY DEF ClockTyped

\* A call that begins is of now.
LEMMA BeginsKeeps ==
  ASSUME ClockInv, NEW s \in Syncs, NEW by \in Nat, Begun(s, by),
         UNCHANGED <<skew, jumps, offset, asOf>>
  PROVE  /\ sync' \in [Syncs -> SyncStates] /\ ClockMeasures'
         /\ \A q \in Syncs : sync'[q].by \in {sync[q].by, by}
<1>1. PICK n \in SyncStates : /\ sync' = [sync EXCEPT ![s] = n]
                              /\ n.on /\ n.by = by /\ n.from = skew /\ n.since = jumps /\ n.rtts = {}
  BY CallBegins DEF ClockInv
<1>2. sync' \in [Syncs -> SyncStates] /\ sync'[s] = n /\ \A q \in Syncs : q # s => sync'[q] = sync[q]
  BY <1>1, OneCallChanges DEF ClockInv
<1>3. ClockNear' /\ (asOf <= jumps)'
  BY DEF ClockInv, ClockMeasures, ClockNear
<1>4. \A q \in Syncs : /\ sync'[q].since <= jumps'
                       /\ sync'[q].on /\ sync'[q].since = jumps' =>
                            sync'[q].from = skew' /\ (sync'[q].rtts # {} => ClockNearBy(sync'[q].best.off, skew'))
  BY <1>1, <1>2 DEF ClockInv, ClockMeasures, ClockTyped
<1>5. ClockMeasures'
  BY <1>3, <1>4 DEF ClockMeasures
<1> QED BY <1>1, <1>2, <1>5

\* What a sample measures under one skew.
LEMMA SampleIs ==
  ASSUME ClockTyped, NEW from \in Int, NEW d \in Delays, NEW w \in {0, PingTimeout}
  PROVE  Sample(from, d, w) \in Samples /\ (from = skew => ClockNearBy(Sample(from, d, w).off, skew))
<1>1. d[1] \in Nat /\ d[2] \in Nat /\ w \in Nat /\ skew \in Int
  BY ClockAssumption DEF ClockTyped
<1>2. PICK r, o : r = w + d[1] + d[2] + from - skew /\ o = (w + d[1] - d[2] + from + skew) \div 2
  OBVIOUS
<1>3. r \in Int /\ o \in Int
  BY <1>1, <1>2
<1>4. Sample(from, d, w) = [rtt |-> r, off |-> o]
  BY <1>2 DEF Sample
<1>5. ASSUME from = skew PROVE ClockNearBy(o, skew)
  <2>1. PICK x \in Int : x = w + d[1] - d[2]
    BY <1>1
  <2>2. AbsOf(x \div 2) <= SampleError + 1 /\ x \div 2 \in Int
    BY <2>1, ErrorBound
  <2>3. o = (x + skew + skew) \div 2
    BY <1>2, <1>5, <2>1
  <2>4. o = skew + (x \div 2)
    BY <1>1, <2>3, Shifted
  <2>5. o - skew = x \div 2
    BY <1>1, <2>2, <2>4
  <2> QED BY <2>2, <2>5 DEF ClockNearBy
<1> QED BY <1>3, <1>4, <1>5 DEF Samples

\* An estimate that is made of a near sample is near.
LEMMA EstimateIs ==
  ASSUME ClockTyped, NEW best \in Samples
  PROVE  Estimate(best) \in Int /\ (ClockNearBy(best.off, skew) => AbsOf(Estimate(best) - skew) <= EstimateError)
<1>1. PICK a \in Int : a = best.off
  BY DEF Samples
<1>2. skew \in Int /\ offset \in Int /\ JumpLimit \in Nat /\ SampleError \in Nat
  BY ClockAssumption, ErrorBound DEF ClockTyped
<1>3. PICK e \in Nat : e = SampleError
  BY <1>2
<1>4. PICK j \in Nat : j = JumpLimit \div 2
  BY <1>2
<1>5. EstimateError = e + j + 1
  BY <1>3, <1>4 DEF EstimateError
<1>6. CASE Estimate(best) = a
  <2>1. ClockNearBy(a, skew) => AbsOf(a - skew) <= e + 1
    BY <1>3 DEF ClockNearBy
  <2> QED BY <1>1, <1>2, <1>5, <1>6, <2>1 DEF AbsOf
<1>7. CASE AbsOf(a - offset) < JumpLimit /\ Estimate(best) = (offset + a) \div 2
  <2>1. PICK m \in Int : m = (offset + a) \div 2
    BY <1>2
  <2>2. AbsOf(m - a) <= j
    BY <1>2, <1>4, <1>7, <2>1 DEF AbsOf
  <2>3. ClockNearBy(a, skew) => AbsOf(a - skew) <= e + 1
    BY <1>3 DEF ClockNearBy
  <2>4. ClockNearBy(a, skew) => AbsOf(m - skew) <= e + j + 1
    BY <1>2, <2>2, <2>3 DEF AbsOf
  <2> QED BY <1>1, <1>5, <1>7, <2>1, <2>4
<1>8. CASE hasSynced /\ ~(AbsOf(a - offset) >= JumpLimit)
  <2>1. AbsOf(a - offset) \in Int
    BY <1>2 DEF AbsOf
  <2>2. AbsOf(a - offset) < JumpLimit /\ Estimate(best) = (offset + a) \div 2
    BY <1>1, <1>2, <1>8, <2>1 DEF Estimate
  <2> QED BY <1>7, <2>2
<1>9. CASE ~(hasSynced /\ ~(AbsOf(a - offset) >= JumpLimit))
  <2>1. Estimate(best) = a
    BY <1>1, <1>9 DEF Estimate
  <2> QED BY <1>6, <2>1
<1> QED BY <1>8, <1>9

\* The samples of a call end, or there are more of them; the best of those that were
\* taken since the last jump is near.
LEMMA CollectedIs ==
  ASSUME ClockInv, NEW s \in Syncs, sync[s].on, NEW got \in SUBSET Samples, Collected(s, got),
         got = {} \/ \E x : got = {x},
         sync[s].from = skew => \A x \in got : ClockNearBy(x.off, skew)
  PROVE  \/ Throws(s)
         \/ \E best \in Samples : /\ Succeeds(s, best)
                                  /\ sync[s].since = jumps => ClockNearBy(best.off, skew)
         \/ /\ UNCHANGED <<offset, hasSynced, shownState, asOf, started, pending, loops, lastSkew>>
            /\ \E n \in SyncStates : /\ sync' = [sync EXCEPT ![s] = n]
                                     /\ n.on /\ n.by = sync[s].by /\ n.from = skew /\ n.since = sync[s].since
                                     /\ n.since = jumps => n.rtts = {} \/ ClockNearBy(n.best.off, skew)
<1> DEFINE c == sync[s]
           none == c.rtts = {}
           best == IF got = {} THEN c.best
                   ELSE LET new == CHOOSE x \in got : TRUE IN IF none THEN new ELSE Better(c.best, new)
           rtts == c.rtts \cup {x.rtt : x \in got}
           taken == c.taken + 1
           judged == taken >= SampleCount
           rest == IF judged THEN {best.rtt} ELSE rtts
           n == [sync[s] EXCEPT !.taken = taken, !.best = best, !.from = skew, !.rtts = rest]
<1>1. c \in SyncStates /\ c.best \in Samples /\ c.rtts \in SUBSET Int
  BY DEF ClockInv, ClockTyped, SyncStates
<1>2. best \in Samples
  <2>1. got # {} => (CHOOSE x \in got : TRUE) \in Samples
    OBVIOUS
  <2> QED BY <1>1, <2>1 DEF Better
<1>3. rtts \in SUBSET Int /\ rest \in SUBSET Int
  BY <1>1, <1>2 DEF Samples
<1>4. rtts # {} /\ c.since = jumps => ClockNearBy(best.off, skew)
  <2> SUFFICES ASSUME rtts # {}, c.since = jumps PROVE ClockNearBy(best.off, skew)
    OBVIOUS
  <2>1. c.from = skew /\ (c.rtts # {} => ClockNearBy(c.best.off, skew))
    BY DEF ClockInv, ClockMeasures
  <2>2. CASE got = {}
    BY <2>1, <2>2
  <2>3. ASSUME NEW x, got = {x} PROVE ClockNearBy(best.off, skew)
    <3>1. (CHOOSE y \in got : TRUE) = x /\ ClockNearBy(x.off, skew) /\ got # {}
      BY <2>1, <2>3
    <3> QED BY <2>1, <3>1 DEF Better
  <2> QED BY <2>2, <2>3
<1>5. ASSUME ~Throws(s), ~(Succeeds(s, best) /\ rtts # {})
      PROVE  /\ ~(judged /\ rtts = {})
             /\ sync' = [sync EXCEPT ![s] = n]
             /\ UNCHANGED <<offset, hasSynced, shownState, asOf, started, pending, loops, lastSkew>>
  BY <1>5, Zenon DEF Collected
<1>6. n \in SyncStates /\ n.on /\ n.by = c.by /\ n.from = skew /\ n.since = c.since /\ n.best = best /\ n.rtts = rest
  <2> HIDE DEF best, rest, taken
  <2>1. taken \in Nat /\ skew \in Int
    BY <1>1 DEF SyncStates, ClockInv, ClockTyped, taken
  <2> QED BY <1>1, <1>2, <1>3, <2>1 DEF SyncStates
<1>7. CASE Throws(s)
  BY <1>7
<1>8. CASE Succeeds(s, best) /\ rtts # {}
  <2> HIDE DEF best, rtts
  <2> QED BY <1>2, <1>4, <1>8
<1>9. CASE ~Throws(s) /\ ~(Succeeds(s, best) /\ rtts # {})
  <2>1. sync' = [sync EXCEPT ![s] = n] /\ UNCHANGED <<offset, hasSynced, shownState, asOf, started, pending, loops, lastSkew>>
    BY <1>5, <1>9
  <2>2. c.since = jumps => rest = {} \/ ClockNearBy(best.off, skew)
    <3>1. rest = {} \/ rtts # {}
      BY <1>5, <1>9
    <3> HIDE DEF rest, best, rtts
    <3> QED BY <1>4, <3>1
  <2> HIDE DEF n, rest, best
  <2> QED BY <1>6, <2>1, <2>2
<1> QED BY <1>7, <1>8, <1>9

LEMMA SampleKeeps ==
  ASSUME ClockInv, NEW s \in Syncs, sync[s].on, NEW got \in SUBSET Samples, Collected(s, got),
         got = {} \/ \E x : got = {x},
         sync[s].from = skew => \A x \in got : ClockNearBy(x.off, skew),
         UNCHANGED <<skew, jumps, user, token>>
  PROVE  ClockInv'
<1>0. /\ sync \in [Syncs -> SyncStates] /\ sync[s].by \in Nat /\ sync[s].by <= token /\ token \in Nat
      /\ (sync[s].by # 0 /\ sync[s].by = token => user) /\ sync[s].since <= jumps
  BY DEF ClockInv, ClockTyped, ClockTokens, ClockMeasures, SyncStates
<1>1. CASE Throws(s)
  <2>1. /\ sync' = [sync EXCEPT ![s] = NotSyncing] /\ UNCHANGED <<offset, hasSynced, asOf, started>>
        /\ loops' = IF sync[s].by # 0 /\ sync[s].by = token THEN loops \cup {sync[s].by} ELSE loops
    BY <1>1 DEF Throws
  <2>2. sync' \in [Syncs -> SyncStates] /\ sync'[s] = NotSyncing /\ \A q \in Syncs : q # s => sync'[q] = sync[q]
    BY <2>1, NotSyncingTyped, OneCallChanges DEF ClockInv
  <2>3. ClockTyped'
    BY <1>0, <2>1, <2>2 DEF ClockInv, ClockTyped
  <2>4. ClockTokens'
    BY <1>0, <2>1, <2>2, NotSyncingTyped DEF ClockInv, ClockTokens
  <2>5. ClockMeasures'
    BY <2>1, <2>2, NotSyncingTyped DEF ClockInv, ClockTyped, ClockMeasures, ClockNear
  <2> QED BY <2>3, <2>4, <2>5 DEF ClockInv
<1>2. ASSUME NEW best \in Samples, Succeeds(s, best), sync[s].since = jumps => ClockNearBy(best.off, skew)
      PROVE  ClockInv'
  <2>1. /\ sync' = [sync EXCEPT ![s] = NotSyncing] /\ offset' = Estimate(best) /\ hasSynced' = TRUE
        /\ asOf' = sync[s].since /\ loops' = loops
        /\ started' = (started \/ (sync[s].by # 0 /\ sync[s].by = token))
    BY <1>2 DEF Succeeds, Starts
  <2>2. sync' \in [Syncs -> SyncStates] /\ sync'[s] = NotSyncing /\ \A q \in Syncs : q # s => sync'[q] = sync[q]
    BY <2>1, NotSyncingTyped, OneCallChanges DEF ClockInv
  <2>3. /\ Estimate(best) \in Int
        /\ sync[s].since = jumps => AbsOf(Estimate(best) - skew) <= EstimateError
    BY <1>2, EstimateIs DEF ClockInv
  <2>4. PICK st \in BOOLEAN : /\ st <=> (started \/ (sync[s].by # 0 /\ sync[s].by = token))
                              /\ started' = st
    <3>1. started \in BOOLEAN
      BY DEF ClockInv, ClockTyped
    <3> QED BY <2>1, <3>1
  <2>5. ClockTyped'
    BY <1>0, <2>1, <2>2, <2>3, <2>4 DEF ClockInv, ClockTyped, SyncStates
  <2>6. ClockTokens'
    BY <1>0, <2>1, <2>2, <2>4, NotSyncingTyped DEF ClockInv, ClockTokens
  <2>7. ClockMeasures'
    BY <1>0, <2>1, <2>2, <2>3, NotSyncingTyped DEF ClockInv, ClockTyped, ClockMeasures, ClockNear
  <2> QED BY <2>5, <2>6, <2>7 DEF ClockInv
<1>3. ASSUME NEW n \in SyncStates, sync' = [sync EXCEPT ![s] = n],
             n.on, n.by = sync[s].by, n.from = skew, n.since = sync[s].since,
             n.since = jumps => n.rtts = {} \/ ClockNearBy(n.best.off, skew),
             UNCHANGED <<offset, hasSynced, shownState, asOf, started, pending, loops, lastSkew>>
      PROVE  ClockInv'
  <2>1. sync' \in [Syncs -> SyncStates] /\ sync'[s] = n /\ \A q \in Syncs : q # s => sync'[q] = sync[q]
    BY <1>3, OneCallChanges DEF ClockInv
  <2>2. ClockTyped'
    BY <1>3, <2>1 DEF ClockInv, ClockTyped
  <2>3. ClockTokens'
    BY <1>3, <2>1 DEF ClockInv, ClockTokens
  <2>4. ClockMeasures'
    BY <1>3, <2>1 DEF ClockInv, ClockMeasures, ClockNear
  <2> QED BY <2>2, <2>3, <2>4 DEF ClockInv
<1> QED BY <1>1, <1>2, <1>3, CollectedIs

LEMMA CallsKeep ==
  ASSUME ClockInv, NEW s \in Syncs, Startup(s) \/ Resync(s) \/ DriftCheck(s) \/ \E k \in loops : Again(s, k)
  PROVE  ClockInv'
<1>0. /\ token \in Nat /\ loops \subseteq Nat /\ sync \in [Syncs -> SyncStates] /\ skew \in Int
      /\ \A q \in Syncs : sync[q].by \in Nat
  BY DEF ClockInv, ClockTyped, SyncStates
<1>1. CASE Startup(s)
  <2>1. user' = TRUE /\ ~user /\ UNCHANGED <<skew, jumps, offset, hasSynced, asOf, started, loops>>
    BY <1>1 DEF Startup
  <2>2. CASE UNCHANGED <<sync, token>>
    <3>1. ClockTyped'
      BY <2>1, <2>2 DEF ClockInv, ClockTyped
    <3>2. ClockTokens'
      BY <2>1, <2>2 DEF ClockInv, ClockTokens
    <3>3. ClockMeasures'
      BY <2>1, <2>2 DEF ClockInv, ClockMeasures, ClockNear
    <3> QED BY <3>1, <3>2, <3>3 DEF ClockInv
  <2>3. CASE token' = token + 1 /\ Begun(s, token + 1)
    <3>1. token + 1 \in Nat
      BY <1>0
    <3>2. /\ sync' \in [Syncs -> SyncStates] /\ ClockMeasures'
          /\ \A q \in Syncs : sync'[q].by \in {sync[q].by, token + 1}
      BY <2>1, <2>3, <3>1, BeginsKeeps
    <3>3. ClockTyped'
      BY <2>1, <2>3, <3>1, <3>2 DEF ClockInv, ClockTyped
    <3>4. ClockTokens'
      BY <1>0, <2>1, <2>3, <3>1, <3>2 DEF ClockInv, ClockTokens
    <3> QED BY <3>2, <3>3, <3>4 DEF ClockInv
  <2> QED BY <1>1, <2>2, <2>3 DEF Startup
<1>2. ASSUME NEW by \in Nat, Begun(s, by), by = 0 \/ (by = token /\ user),
             UNCHANGED <<skew, jumps, user, offset, hasSynced, asOf, token, started>>, loops' \subseteq loops
      PROVE  ClockInv'
  <2>1. /\ sync' \in [Syncs -> SyncStates] /\ ClockMeasures'
        /\ \A q \in Syncs : sync'[q].by \in {sync[q].by, by}
    BY <1>2, BeginsKeeps
  <2>2. ClockTyped'
    BY <1>2, <2>1 DEF ClockInv, ClockTyped
  <2>3. ClockTokens'
    BY <1>0, <1>2, <2>1 DEF ClockInv, ClockTokens
  <2> QED BY <2>1, <2>2, <2>3 DEF ClockInv
<1>3. CASE Resync(s)
  BY <1>2, <1>3 DEF Resync
<1>4. ASSUME UNCHANGED <<sync, skew, jumps, user, offset, hasSynced, asOf, token, started>>, loops' \subseteq loops
      PROVE  ClockInv'
  <2>1. ClockTyped'
    BY <1>4 DEF ClockInv, ClockTyped
  <2>2. ClockTokens'
    BY <1>4 DEF ClockInv, ClockTokens
  <2>3. ClockMeasures'
    BY <1>4 DEF ClockInv, ClockMeasures, ClockNear
  <2> QED BY <2>1, <2>2, <2>3 DEF ClockInv
<1>5. CASE DriftCheck(s)
  <2>1. UNCHANGED <<skew, jumps, user, offset, hasSynced, asOf, token, started, loops>> /\ (Begun(s, 0) \/ UNCHANGED sync)
    BY <1>5 DEF DriftCheck
  <2> QED BY <1>2, <1>4, <2>1
<1>6. ASSUME NEW k \in loops, Again(s, k) PROVE ClockInv'
  <2>1. /\ UNCHANGED <<skew, jumps, user, offset, hasSynced, asOf, token, started>> /\ loops' \subseteq loops
        /\ (k = token /\ Begun(s, k)) \/ UNCHANGED sync
    BY <1>6 DEF Again
  <2>2. k \in Nat /\ (k = token => user)
    BY <1>0 DEF ClockInv, ClockTokens
  <2> QED BY <1>2, <1>4, <2>1, <2>2
<1> QED BY <1>1, <1>3, <1>5, <1>6

LEMMA OutsideKeeps ==
  ASSUME ClockInv,
         \/ Shutdown
         \/ \E k \in Skews : \/ \E between \in SUBSET Syncs : ClockSet(k, between)
                             \/ \E err \in {-SampleError, SampleError} : OtherTab(k, err)
  PROVE  ClockInv'
<1>0. /\ token \in Nat /\ loops \subseteq Nat /\ sync \in [Syncs -> SyncStates] /\ skew \in Int /\ jumps \in Nat
      /\ \A q \in Syncs : sync[q].by \in Nat /\ sync[q].by <= token /\ sync[q].since \in Nat /\ sync[q].since <= jumps
      /\ asOf \in Int /\ asOf <= jumps
  BY DEF ClockInv, ClockTyped, ClockTokens, ClockMeasures, SyncStates
<1>1. CASE Shutdown
  <2>1. /\ user' = FALSE /\ token' = token + 1 /\ started' = FALSE /\ hasSynced' = FALSE
        /\ UNCHANGED <<skew, jumps, offset, asOf, loops, sync>>
    BY <1>1 DEF Shutdown
  <2>2. ClockTyped'
    <3>1. ClockTyped /\ token' \in Nat
      BY <1>0, <2>1 DEF ClockInv
    <3>2. user' \in BOOLEAN /\ started' \in BOOLEAN /\ hasSynced' \in BOOLEAN
      BY <2>1, Zenon
    <3> QED BY <2>1, <3>1, <3>2 DEF ClockTyped
  <2>3. ClockTokens'
    BY <1>0, <2>1 DEF ClockInv, ClockTokens
  <2>4. ClockMeasures'
    BY <2>1 DEF ClockInv, ClockMeasures, ClockNear
  <2> QED BY <2>2, <2>3, <2>4 DEF ClockInv
<1>2. ASSUME NEW k \in Skews, NEW between \in SUBSET Syncs, ClockSet(k, between) PROVE ClockInv'
  <2>1. /\ skew' = k /\ k \in Int /\ jumps' = jumps + 1
        /\ sync' = [s \in Syncs |-> IF s \in between THEN [sync[s] EXCEPT !.from = k] ELSE sync[s]]
        /\ UNCHANGED <<user, offset, hasSynced, asOf, token, started, loops>>
    BY <1>2, ClockAssumption DEF ClockSet
  <2>2. \A s \in Syncs : /\ sync'[s] \in SyncStates /\ sync'[s].by = sync[s].by /\ sync'[s].since = sync[s].since
    BY <1>0, <2>1 DEF SyncStates
  <2>3. sync' \in [Syncs -> SyncStates]
    BY <2>1, <2>2
  <2>4. ClockTyped'
    BY <1>0, <2>1, <2>3 DEF ClockInv, ClockTyped
  <2>5. ClockTokens'
    BY <2>1, <2>2 DEF ClockInv, ClockTokens
  <2>6. ClockMeasures'
    BY <1>0, <2>1, <2>2 DEF ClockInv, ClockMeasures, ClockNear
  <2> QED BY <2>4, <2>5, <2>6 DEF ClockInv
<1>3. ASSUME NEW k \in Skews, NEW err \in {-SampleError, SampleError}, OtherTab(k, err) PROVE ClockInv'
  <2>1. /\ offset' = k + err /\ hasSynced' = TRUE /\ k \in Int
        /\ asOf' = IF k = skew THEN jumps ELSE -1
        /\ UNCHANGED <<skew, jumps, user, token, started, loops, sync>>
    BY <1>3, ClockAssumption DEF OtherTab
  <2>2. SampleError \in Nat /\ err \in Int /\ EstimateError \in Int /\ SampleError <= EstimateError
    BY ErrorBound, ClockAssumption DEF EstimateError
  <2>3. AbsOf((k + err) - k) <= EstimateError
    BY <2>1, <2>2 DEF AbsOf
  <2>4. ClockTyped'
    BY <1>0, <2>1, <2>2 DEF ClockInv, ClockTyped
  <2>5. ClockTokens'
    BY <2>1 DEF ClockInv, ClockTokens
  <2>6. ClockMeasures'
    BY <1>0, <2>1, <2>3 DEF ClockInv, ClockMeasures, ClockNear
  <2> QED BY <2>4, <2>5, <2>6 DEF ClockInv
<1> QED BY <1>1, <1>2, <1>3

LEMMA ClockStep == ClockInv /\ [ClockNext]_clockVars => ClockInv'
<1> SUFFICES ASSUME ClockInv, [ClockNext]_clockVars PROVE ClockInv'
  OBVIOUS
<1>1. CASE UNCHANGED clockVars
  <2>1. ClockTyped'
    BY <1>1 DEF ClockInv, ClockTyped, clockVars
  <2>2. ClockTokens'
    BY <1>1 DEF ClockInv, ClockTokens, clockVars
  <2>3. ClockMeasures'
    BY <1>1 DEF ClockInv, ClockMeasures, ClockNear, clockVars
  <2> QED BY <2>1, <2>2, <2>3 DEF ClockInv
<1>2. ASSUME NEW s \in Syncs, SampleArrives(s) PROVE ClockInv'
  <2>1. PICK d \in Delays, w \in {0, PingTimeout} : Collected(s, {Sample(sync[s].from, d, w)})
    BY <1>2 DEF SampleArrives
  <2>2. sync[s].from \in Int /\ ClockTyped
    BY DEF ClockInv, ClockTyped, SyncStates
  <2>3. PICK x : x = Sample(sync[s].from, d, w)
    OBVIOUS
  <2>4. x \in Samples /\ (sync[s].from = skew => ClockNearBy(x.off, skew))
    BY <2>2, <2>3, SampleIs
  <2>5. Collected(s, {x}) /\ sync[s].on /\ UNCHANGED <<skew, jumps, user, token>>
    BY <1>2, <2>1, <2>3 DEF SampleArrives
  <2> QED BY <2>4, <2>5, SampleKeeps
<1>3. ASSUME NEW s \in Syncs, SampleFails(s) PROVE ClockInv'
  <2>1. Collected(s, {}) /\ sync[s].on /\ UNCHANGED <<skew, jumps, user, token>>
    BY <1>3 DEF SampleFails
  <2> QED BY <2>1, SampleKeeps
<1> QED BY <1>1, <1>2, <1>3, CallsKeep, OutsideKeeps DEF ClockNext, SyncSteps

LEMMA InvClock == ClockInv => TimersOfSession /\ ClockNear
BY DEF ClockInv, ClockTokens, ClockMeasures, TimersOfSession

\* The timers of the clock run only while somebody is logged in, and an estimate that has
\* been made since the device clock was last set is near, for any calls under way at one
\* time, any delays and limits (clockSync.js).
THEOREM ClockIsSound == ClockSpec => [](TimersOfSession /\ ClockNear)
BY ClockStart, ClockStep, InvClock, PTL DEF ClockSpec

-----------------------------------------------------------------------------
(* The players.                                                            *)

PlayerSpec == (\E k \in {"countdown", "rally"}, cold \in SUBSET Words : PlayerInit(k, cold)) /\ [][PlayerNext]_playerVars

Plans == [start : Int, offset : Int, march : Nat]
Budgets == [shows : Nat, moves : Nat, pauses : Nat, failed : Nat]
CallRecords == [live : BOOLEAN, stage : {"warming", "resuming"}, aged : BOOLEAN, plan : Plans]
Slots(k, p) == IF k = "rally" THEN RallySlots ELSE CountdownSlots(p)

\* By the second w of the server and a of the audio clock, the audio second of the start.
StartOf(p, w, a) == a + p.start - (w + p.offset)

\* x is a word of the plan, in its second.
InTime(x, k, p, d) == \E t \in Slots(k, p) : t.word = x.word /\ x.at = d + t.at

\* What is reserved, and what waits for its buffer, is in its second.
AllInTime(S, W, k, p, d) == (\A s \in S : InTime(s, k, p, d)) /\ (\A x \in W : x.live => InTime(x, k, p, d))

\* What is decoded and still to come is reserved, and what is under way is waited for.
AllThere(S, W, c, a, k, p, d) ==
  \A t \in Slots(k, p) :
    /\ (c[t.word] = "ready" /\ d + t.at >= a) => \E s \in S : s.word = t.word /\ s.at = d + t.at
    /\ c[t.word] = "loading" => \E x \in W : x.live /\ x.word = t.word /\ x.at = d + t.at

PlayerTyped ==
  /\ kind \in {"countdown", "rally"} /\ wall \in Nat /\ audio \in Int /\ ctx \in {"running", "suspended"}
  /\ clip \in [Words -> {"none", "loading", "ready"}]
  /\ pendingSchedule \in Plans \cup {NoPlan}
  /\ calls \in SUBSET CallRecords
  /\ waits \in SUBSET [word : Words, at : Int, live : BOOLEAN]
  /\ sources \in SUBSET [word : Words, at : Int]

\* The latest call is about what is pending; without it nothing is reserved.
LatestCalls ==
  /\ \A c \in calls : c.live => c.plan = pendingSchedule
  /\ pendingSchedule = NoPlan => sources = {} /\ \A x \in waits : ~x.live

\* While the audio clock runs, what is reserved is in its second, and all of it is there
\* when no call is under way.
Planned ==
  (ctx = "running" /\ pendingSchedule # NoPlan) =>
    /\ AllInTime(sources, waits, kind, pendingSchedule, StartOf(pendingSchedule, wall, audio))
    /\ (\A c \in calls : ~c.live) =>
         AllThere(sources, waits, clip, audio, kind, pendingSchedule, StartOf(pendingSchedule, wall, audio))

NearBy(a, b) == a - b <= Threshold /\ b - a <= Threshold

\* What is pending is about the countdown that is shown, by an estimate near that of now.
Followed ==
  /\ shown \in Nat /\ clock \in Int /\ personal \in Int /\ lastOffset \in Int /\ march \in Nat
  /\ budget \in Budgets
  /\ budget.shows = 0 => shown = 0
  /\ shown = 0 <=> pendingSchedule = NoPlan
  /\ pendingSchedule # NoPlan =>
       /\ NearBy(lastOffset, clock + personal) /\ NearBy(pendingSchedule.offset, lastOffset)
       /\ kind = "rally" => pendingSchedule.offset = lastOffset

PlayerInv == PlayerTyped /\ LatestCalls /\ Planned /\ Followed

LEMMA NoPlanApart == NoPlan \notin Plans
BY PlayerAssumption DEF Plans

LEMMA MaxOfTwo == ASSUME NEW a \in Int, NEW b \in Int PROVE Max({a, b}) = IF a >= b THEN a ELSE b
<1>1. CASE a >= b
  BY <1>1 DEF Max
<1>2. CASE ~(a >= b)
  BY <1>2 DEF Max
<1> QED BY <1>1, <1>2

LEMMA MinOfTwo == ASSUME NEW a \in Int, NEW b \in Int PROVE Min({a, b}) = IF a <= b THEN a ELSE b
<1>1. CASE a <= b
  BY <1>1 DEF Min
<1>2. CASE ~(a <= b)
  BY <1>2 DEF Min
<1> QED BY <1>1, <1>2

\* The slots of a plan are words, each in some second.
LEMMA SlotsTyped ==
  ASSUME NEW k \in {"countdown", "rally"}, NEW p \in Plans, NEW t \in Slots(k, p)
  PROVE  t.word \in Words /\ t.at \in Int
<1> DEFINE top == Max({TotalSeconds, MaxOffset})
<1>1. TotalSeconds \in Nat /\ MaxOffset \in Nat /\ PreCount \in Nat /\ LeadIn \in Nat /\ PreCount <= MaxOffset
  BY PlayerAssumption
<1>2. top \in Nat /\ TotalSeconds <= top /\ MaxOffset <= top
  BY <1>1, MaxOfTwo
<1>3. \A n \in 1..top : <<"number", n>> \in Words
  BY DEF Words
<1>4. CASE k = "rally"
  <2>1. CaptainSeconds \in SUBSET Nat /\ \A f \in Fires : f[1] \in Nat /\ f[2] \in Nat
    BY PlayerAssumption DEF CaptainSeconds
  <2>2. IsFiniteSet(CaptainSeconds)
    <3> DEFINE g == [f \in Fires |-> f[2]]
    <3>1. g \in Surjection(Fires, CaptainSeconds)
      BY DEF Surjection, CaptainSeconds
    <3> HIDE DEF g
    <3> QED BY <3>1, FS_Surjection, PlayerAssumption
  <2>3. PICK m \in Nat : m = Max(CaptainSeconds \cup {0})
    <3>1. IsFiniteSet(CaptainSeconds \cup {0}) /\ CaptainSeconds \cup {0} \in SUBSET Nat /\ CaptainSeconds \cup {0} # {}
      BY <2>1, <2>2, FS_AddElement
    <3> QED BY <3>1, MaxOf
  <2>4. Min({m, MaxOffset}) <= MaxOffset /\ Min({m, MaxOffset}) \in Nat
    BY <1>1, MinOfTwo
  <2>5. \/ t = [word |-> <<"start", 1>>, at |-> -LeadIn]
        \/ \E n \in 1..PreCount : t = [word |-> <<"number", n>>, at |-> -n]
        \/ \E f \in Fires : t = [word |-> <<"captain", f[1]>>, at |-> f[2]]
        \/ \E n \in (PreCount + 1)..Min({m, MaxOffset}) : t = [word |-> <<"number", n>>, at |-> n]
    <3>1. t \in RallySlots
      BY <1>4 DEF Slots
    <3> QED BY <2>3, <3>1 DEF RallySlots
  <2>6. CASE t = [word |-> <<"start", 1>>, at |-> -LeadIn]
    BY <1>1, <2>6 DEF Words
  <2>7. CASE \E n \in 1..PreCount : t = [word |-> <<"number", n>>, at |-> -n]
    <3>1. PICK n \in 1..PreCount : t = [word |-> <<"number", n>>, at |-> -n]
      BY <2>7
    <3>2. n \in 1..top
      BY <1>1, <1>2
    <3> QED BY <1>3, <3>1, <3>2
  <2>8. CASE \E f \in Fires : t = [word |-> <<"captain", f[1]>>, at |-> f[2]]
    <3>1. PICK f \in Fires : t = [word |-> <<"captain", f[1]>>, at |-> f[2]]
      BY <2>8
    <3>2. <<"captain", f[1]>> \in Words
      BY DEF Words
    <3> QED BY <2>1, <3>1, <3>2
  <2>9. CASE \E n \in (PreCount + 1)..Min({m, MaxOffset}) : t = [word |-> <<"number", n>>, at |-> n]
    <3>1. PICK n \in (PreCount + 1)..Min({m, MaxOffset}) : t = [word |-> <<"number", n>>, at |-> n]
      BY <2>9
    <3>2. n \in 1..top
      BY <1>1, <1>2, <2>4
    <3> QED BY <1>3, <3>1, <3>2
  <2> QED BY <2>5, <2>6, <2>7, <2>8, <2>9
<1>5. CASE k = "countdown"
  <2>1. t \in CountdownSlots(p)
    BY <1>5 DEF Slots
  <2>2. \/ \E n \in 1..TotalSeconds : t = [word |-> <<"number", n>>, at |-> TotalSeconds - n]
        \/ \E m \in {p.march} \cap 1..Min({180, TotalSeconds}) : t = [word |-> <<"march", 0>>, at |-> TotalSeconds - m]
    BY <2>1 DEF CountdownSlots
  <2>3. CASE \E n \in 1..TotalSeconds : t = [word |-> <<"number", n>>, at |-> TotalSeconds - n]
    <3>1. PICK n \in 1..TotalSeconds : t = [word |-> <<"number", n>>, at |-> TotalSeconds - n]
      BY <2>3
    <3>2. n \in 1..top /\ TotalSeconds - n \in Int
      BY <1>1, <1>2
    <3> QED BY <1>3, <3>1, <3>2
  <2>4. CASE \E m \in {p.march} \cap 1..Min({180, TotalSeconds}) : t = [word |-> <<"march", 0>>, at |-> TotalSeconds - m]
    <3>1. PICK m \in Int : t = [word |-> <<"march", 0>>, at |-> TotalSeconds - m]
      BY <2>4
    <3>2. <<"march", 0>> \in Words
      BY DEF Words
    <3> QED BY <1>1, <3>1, <3>2
  <2> QED BY <2>2, <2>3, <2>4
<1> QED BY <1>4, <1>5

\* What is reserved of some words are those that are still to come, in their second.
LEMMA ReservedOf ==
  ASSUME NEW S, \A r \in S : r.at \in Int, audio \in Int
  PROVE  /\ \A y \in Reserved(S) : \E r \in S : y = [word |-> r.word, at |-> r.at] /\ r.at >= audio
         /\ \A r \in S : r.at >= audio => [word |-> r.word, at |-> r.at] \in Reserved(S)
<1>1. \A r \in S : r.at >= audio => Max({r.at, audio}) = r.at
  BY MaxOfTwo
<1> QED BY <1>1 DEF Reserved, Punctual

LEMMA DeadOf ==
  /\ \A S \in SUBSET CallRecords : Dead(S) \in SUBSET CallRecords /\ \A y \in Dead(S) : ~y.live
  /\ \A S \in SUBSET [word : Words, at : Int, live : BOOLEAN] :
       Dead(S) \in SUBSET [word : Words, at : Int, live : BOOLEAN] /\ \A y \in Dead(S) : ~y.live
BY DEF Dead, CallRecords

\* Fetching begins what is neither there nor under way.
LEMMA FetchedOf ==
  ASSUME clip \in [Words -> {"none", "loading", "ready"}], NEW W
  PROVE  /\ Fetched(W) \in [Words -> {"none", "loading", "ready"}]
         /\ \A v \in Words : /\ Fetched(W)[v] = "ready" <=> clip[v] = "ready"
BY DEF Fetched

\* A new schedule: the calls and the words of the old one are dead.
LEMMA PlanStarts ==
  ASSUME PlayerTyped, NEW p \in Plans, Scheduled(p),
         kind' = kind, wall' \in Nat, audio' \in Int, ctx' \in {"running", "suspended"}
  PROVE  PlayerTyped' /\ LatestCalls' /\ Planned' /\ pendingSchedule' = p /\ p # NoPlan
<1>1. NewCall(p) \in CallRecords /\ NewCall(p).live /\ NewCall(p).plan = p
  BY DEF NewCall, CallRecords
<1>2. calls' = Dead(calls) \cup {NewCall(p)} /\ waits' = Dead(waits) /\ sources' = {} /\ pendingSchedule' = p
  BY DEF Scheduled, Silenced
<1>3. clip' \in [Words -> {"none", "loading", "ready"}]
  BY FetchedOf DEF Scheduled, PlayerTyped
<1>4. Dead(calls) \in SUBSET CallRecords /\ \A y \in Dead(calls) : ~y.live
  BY DeadOf DEF PlayerTyped
<1>5. waits' \in SUBSET [word : Words, at : Int, live : BOOLEAN] /\ \A y \in waits' : ~y.live
  BY <1>2, DeadOf DEF PlayerTyped
<1>6. calls' \in SUBSET CallRecords
  BY <1>1, <1>2, <1>4
<1>7. PlayerTyped'
  BY <1>2, <1>3, <1>5, <1>6 DEF PlayerTyped
<1>8. p # NoPlan
  BY NoPlanApart
<1>9. \A c \in calls' : c.live => c.plan = p
  BY <1>1, <1>2, <1>4
<1>10. LatestCalls'
  BY <1>2, <1>5, <1>8, <1>9 DEF LatestCalls
<1>11. ~(\A c \in calls' : ~c.live)
  BY <1>1, <1>2
<1>12. \A W, d : (\A y \in W : ~y.live) => AllInTime({}, W, kind', p, d)
  BY DEF AllInTime
<1>13. Planned'
  BY <1>2, <1>5, <1>11, <1>12 DEF Planned
<1> QED BY <1>2, <1>7, <1>8, <1>10, <1>13

LEMMA PlanStops ==
  ASSUME PlayerTyped, Stopped, UNCHANGED <<kind, wall, audio, ctx>>
  PROVE  PlayerTyped' /\ LatestCalls' /\ Planned' /\ pendingSchedule' = NoPlan
<1>1. calls' = Dead(calls) /\ waits' = Dead(waits) /\ sources' = {} /\ pendingSchedule' = NoPlan /\ clip' = clip
  BY DEF Stopped, Silenced
<1>2. calls' \in SUBSET CallRecords /\ \A y \in calls' : ~y.live
  BY <1>1, DeadOf DEF PlayerTyped
<1>3. waits' \in SUBSET [word : Words, at : Int, live : BOOLEAN] /\ \A y \in waits' : ~y.live
  BY <1>1, DeadOf DEF PlayerTyped
<1> QED BY <1>1, <1>2, <1>3 DEF PlayerTyped, LatestCalls, Planned

\* A live call reserves the words of what is pending, or has them wait.
LEMMA PlanAnchored ==
  ASSUME PlayerTyped, LatestCalls, Planned, NEW c \in calls, c.live, ctx = "running",
         Anchored(c.plan), calls' = calls \ {c}, UNCHANGED <<kind, wall, audio, ctx, pendingSchedule>>
  PROVE  PlayerTyped' /\ LatestCalls' /\ Planned'
<1>1. PICK p \in Plans : p = c.plan /\ p = pendingSchedule /\ p # NoPlan
  BY NoPlanApart DEF PlayerTyped, LatestCalls, CallRecords
<1>2. PICK d \in Int : d = AnchorOf(p) /\ d = StartOf(p, wall, audio)
  BY DEF AnchorOf, StartOf, PlayerTyped, Plans
<1> DEFINE slots == {[word |-> s.word, at |-> d + s.at] : s \in Slots(kind, p)}
           ready == {s \in slots : clip[s.word] = "ready"}
           late == {[word |-> s.word, at |-> s.at, live |-> TRUE] : s \in slots \ ready}
<1>3. SlotsOf(p) = Slots(kind, p)
  BY DEF SlotsOf, Slots
<1>4. sources' = sources \cup Reserved(ready) /\ waits' = waits \cup late
       /\ clip' = Fetched({s.word : s \in slots})
  BY <1>1, <1>2, <1>3 DEF Anchored
<1>5. ASSUME NEW s \in slots PROVE s.word \in Words /\ s.at \in Int /\ InTime(s, kind, p, d)
  <2>1. PICK t \in Slots(kind, p) : s = [word |-> t.word, at |-> d + t.at]
    OBVIOUS
  <2>2. t.word \in Words /\ t.at \in Int
    BY SlotsTyped DEF PlayerTyped
  <2> QED BY <2>1, <2>2 DEF InTime
<1>6. /\ \A y \in Reserved(ready) : \E r \in ready : y = [word |-> r.word, at |-> r.at] /\ r.at >= audio
      /\ \A r \in ready : r.at >= audio => [word |-> r.word, at |-> r.at] \in Reserved(ready)
  <2>1. \A r \in ready : r.at \in Int
    BY <1>5
  <2> HIDE DEF ready
  <2> QED BY <2>1, ReservedOf DEF PlayerTyped
<1>7. ASSUME NEW y \in Reserved(ready) PROVE y \in [word : Words, at : Int] /\ InTime(y, kind, p, d)
  <2>1. PICK r \in ready : y = [word |-> r.word, at |-> r.at]
    <3> HIDE DEF ready
    <3> QED BY <1>6
  <2>2. r \in slots
    OBVIOUS
  <2>3. r.word \in Words /\ r.at \in Int /\ InTime(r, kind, p, d)
    <3> HIDE DEF slots
    <3> QED BY <1>5, <2>2
  <2> QED BY <2>1, <2>3 DEF InTime
<1>8. ASSUME NEW y \in late PROVE y \in [word : Words, at : Int, live : BOOLEAN] /\ InTime(y, kind, p, d)
  <2>1. PICK r \in slots : y = [word |-> r.word, at |-> r.at, live |-> TRUE]
    <3> HIDE DEF slots, ready
    <3> QED OBVIOUS
  <2>2. r.word \in Words /\ r.at \in Int /\ InTime(r, kind, p, d)
    <3> HIDE DEF slots
    <3> QED BY <1>5
  <2> QED BY <2>1, <2>2 DEF InTime
<1>9. PlayerTyped'
  <2>1. sources' \in SUBSET [word : Words, at : Int]
    <3> HIDE DEF ready, late
    <3> QED BY <1>4, <1>7 DEF PlayerTyped
  <2>2. waits' \in SUBSET [word : Words, at : Int, live : BOOLEAN]
    <3> HIDE DEF ready, late
    <3> QED BY <1>4, <1>8 DEF PlayerTyped
  <2>3. clip' \in [Words -> {"none", "loading", "ready"}]
    <3> HIDE DEF slots, ready, late
    <3> QED BY <1>4, FetchedOf DEF PlayerTyped
  <2> QED BY <2>1, <2>2, <2>3 DEF PlayerTyped
<1>10. LatestCalls'
  BY <1>1 DEF LatestCalls
<1>11. AllInTime(sources, waits, kind, p, d)
  BY <1>1, <1>2 DEF Planned
<1>12. PICK V, U : V = sources' /\ U = waits'
  OBVIOUS
<1>13. AllInTime(V, U, kind, p, d)
  <2> HIDE DEF ready, late
  <2> QED BY <1>4, <1>7, <1>8, <1>11, <1>12 DEF AllInTime
<1>14. PICK f : f = clip' /\ \A v \in Words : f[v] = "ready" <=> clip[v] = "ready"
  <2> HIDE DEF slots, ready, late
  <2> QED BY <1>4, FetchedOf DEF PlayerTyped
<1>15. AllThere(V, U, f, audio, kind, p, d)
  <2> SUFFICES ASSUME NEW t \in Slots(kind, p)
               PROVE  /\ (f[t.word] = "ready" /\ d + t.at >= audio) => \E s \in V : s.word = t.word /\ s.at = d + t.at
                      /\ f[t.word] = "loading" => \E x \in U : x.live /\ x.word = t.word /\ x.at = d + t.at
    BY DEF AllThere
  <2>1. PICK s \in slots : s = [word |-> t.word, at |-> d + t.at]
    OBVIOUS
  <2>2. t.word \in Words
    BY SlotsTyped DEF PlayerTyped
  <2>3. CASE clip[t.word] = "ready"
    <3>1. s \in ready
      BY <2>1, <2>3
    <3>2. s.at >= audio => [word |-> s.word, at |-> s.at] \in V
      <4> HIDE DEF ready, slots
      <4> QED BY <1>4, <1>6, <1>12, <3>1
    <3>3. f[t.word] = "ready"
      BY <1>14, <2>2, <2>3
    <3> QED BY <2>1, <3>2, <3>3
  <2>4. CASE clip[t.word] # "ready"
    <3>1. s \in slots \ ready
      BY <2>1, <2>4
    <3>2. [word |-> s.word, at |-> s.at, live |-> TRUE] \in late
      <4> HIDE DEF ready, slots
      <4> QED BY <3>1
    <3>3. f[t.word] # "ready"
      BY <1>14, <2>2, <2>4
    <3>4. [word |-> s.word, at |-> s.at, live |-> TRUE] \in U
      <4> HIDE DEF late
      <4> QED BY <1>4, <1>12, <3>2
    <3> QED BY <2>1, <3>3, <3>4
  <2> QED BY <2>3, <2>4
<1>16. Planned'
  BY <1>1, <1>2, <1>12, <1>13, <1>14, <1>15 DEF Planned
<1> QED BY <1>9, <1>10, <1>16

Heard == PlayerTyped /\ LatestCalls /\ Planned

LEMMA WarmedUpStep == ASSUME Heard, NEW c \in calls, WarmedUp(c) PROVE Heard'
<1> USE DEF Heard
<1>1. UNCHANGED <<kind, wall, audio, ctx, pendingSchedule>> /\ c \in CallRecords /\ c.live \in BOOLEAN
  BY DEF WarmedUp, PlayerTyped, CallRecords
<1>2. CASE c.live /\ ctx = "suspended"
  <2>1. PICK n : n = [c EXCEPT !.stage = "resuming"]
    OBVIOUS
  <2>2. n \in CallRecords /\ n.plan = c.plan /\ (n.live <=> c.live)
    BY <1>1, <2>1 DEF CallRecords
  <2>3. calls' = (calls \ {c}) \cup {n} /\ UNCHANGED <<sources, waits, clip>>
    BY <1>2, <2>1 DEF WarmedUp, Live
  <2>4. calls' \in SUBSET CallRecords
    BY <2>2, <2>3 DEF PlayerTyped
  <2>5. \A x \in calls' : x.live => x.plan = pendingSchedule
    BY <1>2, <2>2, <2>3 DEF LatestCalls
  <2> QED BY <1>1, <1>2, <2>3, <2>4, <2>5 DEF PlayerTyped, LatestCalls, Planned
<1>3. CASE c.live /\ ctx # "suspended"
  <2>1. ctx = "running" /\ calls' = calls \ {c} /\ Anchored(c.plan)
    BY <1>3 DEF WarmedUp, Live, PlayerTyped
  <2> QED BY <1>1, <1>3, <2>1, PlanAnchored
<1>4. CASE ~c.live
  <2>1. calls' = calls \ {c} /\ UNCHANGED <<sources, waits, clip>>
    BY <1>4 DEF WarmedUp, Live
  <2>2. (\A x \in calls' : ~x.live) => (\A x \in calls : ~x.live)
    BY <1>4, <2>1
  <2> QED BY <1>1, <2>1, <2>2 DEF PlayerTyped, LatestCalls, Planned
<1> QED BY <1>2, <1>3, <1>4

LEMMA ResumeWaitedStep == ASSUME Heard, NEW c \in calls, ResumeWaited(c) PROVE Heard'
<1> USE DEF Heard
<1>1. UNCHANGED <<kind, wall, audio, ctx, pendingSchedule>> /\ c \in CallRecords /\ calls' = calls \ {c}
  BY DEF ResumeWaited, PlayerTyped
<1>2. CASE c.live /\ ctx = "running"
  <2>1. Anchored(c.plan)
    BY <1>2 DEF ResumeWaited, Live
  <2> QED BY <1>1, <1>2, <2>1, PlanAnchored
<1>3. CASE ~(c.live /\ ctx = "running")
  <2>1. UNCHANGED <<sources, waits, clip>>
    BY <1>3 DEF ResumeWaited, Live
  <2>2. ctx = "running" => ((\A x \in calls' : ~x.live) => (\A x \in calls : ~x.live))
    BY <1>1, <1>3
  <2> QED BY <1>1, <2>1, <2>2 DEF PlayerTyped, LatestCalls, Planned
<1> QED BY <1>2, <1>3

LEMMA BufferArrivesStep == ASSUME Heard, NEW w \in Words, BufferArrives(w) PROVE Heard'
<1> USE DEF Heard
<1> DEFINE S == {x \in waits : x.word = w /\ Live(x)}
<1>1. /\ clip[w] = "loading" /\ clip' = [clip EXCEPT ![w] = "ready"]
      /\ waits' = {x \in waits : x.word # w} /\ sources' = sources \cup Reserved(S)
      /\ UNCHANGED <<kind, wall, audio, ctx, pendingSchedule, calls>>
  BY DEF BufferArrives
<1>2. /\ \A y \in Reserved(S) : \E r \in S : y = [word |-> r.word, at |-> r.at] /\ r.at >= audio
      /\ \A r \in S : r.at >= audio => [word |-> r.word, at |-> r.at] \in Reserved(S)
  <2>1. \A r \in S : r.at \in Int
    BY DEF PlayerTyped
  <2> HIDE DEF S
  <2> QED BY <2>1, ReservedOf DEF PlayerTyped
<1>3. \A r \in S : r \in waits /\ r.word = w /\ r.live /\ r.word \in Words /\ r.at \in Int
  BY DEF PlayerTyped, Live
<1>4. \A r \in waits : (r.word = w /\ r.live) => r \in S
  BY DEF Live
<1> HIDE DEF S
<1>5. PICK V, U, f : V = sources' /\ U = waits' /\ f = clip'
  OBVIOUS
<1>6. PlayerTyped'
  <2>1. \A y \in Reserved(S) : y \in [word : Words, at : Int]
    BY <1>2, <1>3
  <2>2. sources' \in SUBSET [word : Words, at : Int]
    BY <1>1, <2>1 DEF PlayerTyped
  <2> QED BY <1>1, <2>2 DEF PlayerTyped
<1>7. LatestCalls'
  <2>1. pendingSchedule = NoPlan => S = {}
    BY <1>3 DEF LatestCalls
  <2>2. S = {} => Reserved(S) = {}
    BY <1>2
  <2> QED BY <1>1, <2>1, <2>2 DEF LatestCalls
<1>8. ASSUME ctx = "running", pendingSchedule # NoPlan PROVE Planned'
  <2>1. PICK p \in Plans : p = pendingSchedule
    BY <1>8 DEF PlayerTyped
  <2>2. PICK d \in Int : d = StartOf(p, wall, audio)
    BY <2>1 DEF StartOf, PlayerTyped, Plans
  <2>3. AllInTime(sources, waits, kind, p, d)
    BY <1>8, <2>1, <2>2 DEF Planned
  <2>4. \A y \in Reserved(S) : InTime(y, kind, p, d)
    <3> SUFFICES ASSUME NEW y \in Reserved(S) PROVE InTime(y, kind, p, d)
      OBVIOUS
    <3>1. PICK r \in S : y = [word |-> r.word, at |-> r.at]
      BY <1>2
    <3>2. InTime(r, kind, p, d)
      BY <1>3, <2>3 DEF AllInTime
    <3> QED BY <3>1, <3>2 DEF InTime
  <2>5. AllInTime(V, U, kind, p, d)
    BY <1>1, <1>5, <2>3, <2>4 DEF AllInTime
  <2>6. ASSUME \A c \in calls : ~c.live PROVE AllThere(V, U, f, audio, kind, p, d)
    <3>1. AllThere(sources, waits, clip, audio, kind, p, d)
      BY <1>8, <2>1, <2>2, <2>6 DEF Planned
    <3> SUFFICES ASSUME NEW t \in Slots(kind, p)
                 PROVE  /\ (f[t.word] = "ready" /\ d + t.at >= audio) => \E s \in V : s.word = t.word /\ s.at = d + t.at
                        /\ f[t.word] = "loading" => \E x \in U : x.live /\ x.word = t.word /\ x.at = d + t.at
      BY DEF AllThere
    <3>2. /\ (clip[t.word] = "ready" /\ d + t.at >= audio) => \E s \in sources : s.word = t.word /\ s.at = d + t.at
          /\ clip[t.word] = "loading" => \E x \in waits : x.live /\ x.word = t.word /\ x.at = d + t.at
      BY <3>1 DEF AllThere
    <3>3. t.word \in Words /\ f[w] = "ready" /\ \A v \in Words \ {w} : f[v] = clip[v]
      BY <1>1, <1>5, SlotsTyped, <2>1 DEF PlayerTyped
    <3>4. CASE t.word = w
      <4>1. PICK x \in waits : x.live /\ x.word = t.word /\ x.at = d + t.at
        BY <1>1, <3>2, <3>4
      <4>2. x \in S
        BY <1>4, <3>4, <4>1
      <4>3. x.at >= audio => [word |-> x.word, at |-> x.at] \in V
        BY <1>1, <1>2, <1>5, <4>2
      <4> QED BY <3>3, <3>4, <4>1, <4>3
    <3>5. CASE t.word # w
      <4>1. f[t.word] = clip[t.word]
        BY <3>3, <3>5
      <4> QED BY <1>1, <1>5, <3>2, <3>5, <4>1
    <3> QED BY <3>4, <3>5
  <2> QED BY <1>1, <1>5, <1>8, <2>1, <2>2, <2>5, <2>6 DEF Planned
<1>9. Planned'
  BY <1>1, <1>8 DEF Planned
<1> QED BY <1>6, <1>7, <1>9

LEMMA BufferFailsStep == ASSUME Heard, NEW w \in Words, BufferFails(w) PROVE Heard'
<1> USE DEF Heard
<1>1. /\ clip[w] = "loading" /\ clip' = [clip EXCEPT ![w] = "none"] /\ waits' = {x \in waits : x.word # w}
      /\ UNCHANGED <<kind, wall, audio, ctx, pendingSchedule, calls, sources>>
  BY DEF BufferFails
<1>2. PlayerTyped' /\ LatestCalls'
  BY <1>1 DEF PlayerTyped, LatestCalls
<1>3. PICK U, f : U = waits' /\ f = clip'
  OBVIOUS
<1>4. ASSUME ctx = "running", pendingSchedule # NoPlan PROVE Planned'
  <2>1. PICK p \in Plans, d \in Int : p = pendingSchedule /\ d = StartOf(p, wall, audio)
    BY <1>4 DEF PlayerTyped, StartOf, Plans
  <2>2. AllInTime(sources, U, kind, p, d)
    BY <1>1, <1>3, <1>4, <2>1 DEF Planned, AllInTime
  <2>3. ASSUME \A c \in calls : ~c.live PROVE AllThere(sources, U, f, audio, kind, p, d)
    <3>1. AllThere(sources, waits, clip, audio, kind, p, d)
      BY <1>4, <2>1, <2>3 DEF Planned
    <3>2. \A v \in Words : f[v] = IF v = w THEN "none" ELSE clip[v]
      BY <1>1, <1>3 DEF PlayerTyped
    <3>3. \A t \in Slots(kind, p) : t.word \in Words
      BY <2>1, SlotsTyped DEF PlayerTyped
    <3> QED BY <1>1, <1>3, <3>1, <3>2, <3>3 DEF AllThere
  <2> QED BY <1>1, <1>3, <1>4, <2>1, <2>2, <2>3 DEF Planned
<1>5. Planned'
  BY <1>1, <1>4 DEF Planned
<1> QED BY <1>2, <1>5

LEMMA PassesStep == ASSUME Heard, Passes PROVE Heard'
<1> USE DEF Heard
<1>1. /\ wall' = wall + 1 /\ audio' = IF ctx = "running" THEN audio + 1 ELSE audio
      /\ calls' = {[c EXCEPT !.aged = TRUE] : c \in calls} /\ sources' = {s \in sources : s.at >= audio'}
      /\ UNCHANGED <<kind, ctx, clip, pendingSchedule, waits>>
  BY DEF Passes
<1>2. /\ \A y \in calls' : \E c \in calls : y \in CallRecords /\ y.plan = c.plan /\ (y.live <=> c.live)
      /\ \A c \in calls : \E y \in calls' : y.live <=> c.live
  <2>1. \A c \in calls : /\ [c EXCEPT !.aged = TRUE] \in CallRecords
                         /\ [c EXCEPT !.aged = TRUE].plan = c.plan
                         /\ [c EXCEPT !.aged = TRUE].live <=> c.live
    BY DEF PlayerTyped, CallRecords
  <2> DEFINE Aged(c) == [c EXCEPT !.aged = TRUE]
  <2>2. calls' = {Aged(c) : c \in calls}
    BY <1>1
  <2>3. \A c \in calls : Aged(c) \in CallRecords /\ Aged(c).plan = c.plan /\ (Aged(c).live <=> c.live)
    BY <2>1, Zenon
  <2> HIDE DEF Aged
  <2>4. \A c \in calls : Aged(c) \in calls'
    BY <2>2
  <2>5. \A y \in calls' : \E c \in calls : y = Aged(c)
    BY <2>2
  <2> QED BY <2>3, <2>4, <2>5
<1>3. PlayerTyped'
  BY <1>1, <1>2 DEF PlayerTyped
<1>4. LatestCalls'
  BY <1>1, <1>2 DEF LatestCalls
<1>5. PICK V, a : V = sources' /\ a = audio'
  OBVIOUS
<1>6. ASSUME ctx = "running", pendingSchedule # NoPlan PROVE Planned'
  <2>1. PICK p \in Plans, d \in Int : p = pendingSchedule /\ d = StartOf(p, wall, audio)
    BY <1>6 DEF PlayerTyped, StartOf, Plans
  <2>2. a = audio + 1 /\ d = StartOf(p, wall', audio') /\ V = {s \in sources : s.at >= audio + 1}
    BY <1>1, <1>5, <1>6, <2>1 DEF StartOf, PlayerTyped, Plans
  <2>3. AllInTime(V, waits, kind, p, d)
    BY <1>6, <2>1, <2>2 DEF Planned, AllInTime
  <2>4. ASSUME \A c \in calls : ~c.live PROVE AllThere(V, waits, clip, a, kind, p, d)
    <3>1. AllThere(sources, waits, clip, audio, kind, p, d)
      BY <1>6, <2>1, <2>4 DEF Planned
    <3>2. \A t \in Slots(kind, p) : t.at \in Int
      BY <2>1, SlotsTyped DEF PlayerTyped
    <3> QED BY <2>2, <3>1, <3>2 DEF AllThere, PlayerTyped
  <2>5. (\A c \in calls' : ~c.live) => (\A c \in calls : ~c.live)
    BY <1>2
  <2> QED BY <1>1, <1>5, <1>6, <2>1, <2>2, <2>3, <2>4, <2>5 DEF Planned
<1>7. Planned'
  BY <1>1, <1>6 DEF Planned
<1> QED BY <1>3, <1>4, <1>7

LEMMA PrimesStep == ASSUME Heard, Followed, Primes PROVE Heard'
<1>1. pendingSchedule = NoPlan
  BY DEF Primes, Followed
<1>2. \E W : clip' = Fetched(W)
  BY DEF Primes, CountdownPrimed, RallyPrimed
<1>3. clip' \in [Words -> {"none", "loading", "ready"}]
  BY <1>2, FetchedOf DEF Heard, PlayerTyped
<1> QED BY <1>1, <1>3 DEF Heard, PlayerTyped, LatestCalls, Planned, Primes

LEMMA SuspendsStep == ASSUME Heard, Suspends PROVE Heard'
BY DEF Heard, PlayerTyped, LatestCalls, Planned, Suspends

LEMMA ResumesStep == ASSUME Heard, Resumes PROVE Heard' /\ pendingSchedule' = pendingSchedule
<1>1. CASE pendingSchedule = NoPlan
  BY <1>1 DEF Heard, PlayerTyped, LatestCalls, Planned, Resumes
<1>2. CASE pendingSchedule # NoPlan
  <2>1. pendingSchedule \in Plans /\ Scheduled(pendingSchedule)
    BY <1>2 DEF Resumes, Heard, PlayerTyped
  <2>2. kind' = kind /\ wall' \in Nat /\ audio' \in Int /\ ctx' \in {"running", "suspended"}
    BY DEF Resumes, Heard, PlayerTyped
  <2> QED BY <2>1, <2>2, PlanStarts DEF Heard
<1> QED BY <1>1, <1>2

\* The component moves on without the player.
LEMMA NotPlayed ==
  ASSUME Heard, UNCHANGED <<kind, wall, audio, ctx, clip, pendingSchedule, calls, waits, sources>>
  PROVE  Heard'
BY DEF Heard, PlayerTyped, LatestCalls, Planned

\* A schedule for the countdown of the store, by the estimate of the moment.
LEMMA PlanForOf ==
  ASSUME NEW s \in Int, NEW o \in Int, NEW m \in Nat
  PROVE  /\ PlanFor(s, o, m) \in Plans /\ PlanFor(s, o, m).offset = o
BY DEF PlanFor, Plans

LEMMA ShowsStep == ASSUME Heard, Followed, NEW s \in 1..EndOfTime, Shows(s) PROVE Heard' /\ Followed'
<1>1. s \in Nat /\ s # 0 /\ Threshold \in Nat
  BY PlayerAssumption
<1>2. PICK e \in Int : e = Effective /\ e = clock + personal
  BY DEF Effective, Followed
<1>3. /\ shown' = s /\ budget' = [budget EXCEPT !.shows = @ + 1] /\ Scheduled(PlanFor(s, e, march)) /\ lastOffset' = e
      /\ UNCHANGED <<kind, wall, audio, ctx, clock, personal, march>> /\ budget.shows < MaxShows
  BY <1>2 DEF Shows
<1>4. PICK p \in Plans : p = PlanFor(s, e, march) /\ p.offset = e
  BY <1>1, PlanForOf DEF Followed
<1>5. Heard' /\ pendingSchedule' = p /\ p # NoPlan
  BY <1>3, <1>4, PlanStarts DEF Heard, PlayerTyped
<1>6. budget' \in Budgets /\ budget'.shows # 0
  BY <1>3 DEF Followed, Budgets
<1> QED BY <1>1, <1>2, <1>3, <1>4, <1>5, <1>6 DEF Followed, NearBy

LEMMA HidesStep == ASSUME Heard, Followed, Hides PROVE Heard' /\ Followed'
<1>1. Heard' /\ pendingSchedule' = NoPlan
  BY PlanStops DEF Hides, Heard
<1> QED BY <1>1 DEF Followed, Hides

\* Rescheduled by a new estimate.
LEMMA RescheduledStep ==
  ASSUME Heard, Followed, NEW o \in Int, shown # 0, Rescheduled(o, march),
         UNCHANGED <<kind, wall, audio, ctx, shown, march>>, budget' \in Budgets, budget'.shows = budget.shows,
         clock' \in Int, personal' \in Int, o = clock' + personal'
  PROVE  Heard' /\ Followed'
<1>1. PICK p \in Plans : p = PlanFor(shown, o, march) /\ p.offset = o
  BY PlanForOf DEF Followed
<1>2. Scheduled(p) /\ lastOffset' = o
  BY <1>1 DEF Rescheduled
<1>3. Heard' /\ pendingSchedule' = p /\ p # NoPlan
  BY <1>2, PlanStarts DEF Heard, PlayerTyped
<1>4. Threshold \in Nat
  BY PlayerAssumption
<1>5. NearBy(o, o)
  <2>1. o - o <= Threshold
    BY ONLY <1>4, o \in Int
  <2> QED BY ONLY <2>1 DEF NearBy
<1>6. pendingSchedule'.offset = o /\ lastOffset' = o /\ clock' + personal' = o
  BY <1>1, <1>2, <1>3
<1>7. shown' # 0 /\ pendingSchedule' # NoPlan /\ shown' \in Nat /\ march' \in Nat
  BY <1>3 DEF Followed
<1>8. Followed'
  BY <1>5, <1>6, <1>7 DEF Followed
<1> QED BY <1>3, <1>8

\* The player stays with the schedule that it has.
LEMMA NotRescheduledStep ==
  ASSUME Heard, Followed, NotRescheduled,
         UNCHANGED <<kind, wall, audio, ctx, shown, march>>, budget' \in Budgets, budget'.shows = budget.shows,
         clock' \in Int, personal' \in Int,
         shown # 0 => NearBy(lastOffset, clock' + personal')
  PROVE  Heard' /\ Followed'
<1>1. Heard'
  BY NotPlayed DEF NotRescheduled
<1> QED BY <1>1 DEF Followed, NotRescheduled, NearBy

LEMMA ClockMovesStep == ASSUME Heard, Followed, NEW o \in ClockOffsets, ClockMoves(o) PROVE Heard' /\ Followed'
<1>1. o \in Int /\ Threshold \in Nat
  BY PlayerAssumption
<1>2. /\ clock' = o /\ budget' = [budget EXCEPT !.moves = @ + 1]
      /\ UNCHANGED <<kind, wall, audio, ctx, shown, personal, march>>
  BY DEF ClockMoves
<1>3. budget' \in Budgets /\ budget'.shows = budget.shows
  BY <1>2 DEF Followed, Budgets
<1>4. personal \in Int /\ lastOffset \in Int
  BY DEF Followed
<1>5. CASE shown # 0 /\ Jumped(o + personal)
  <2>1. Rescheduled(o + personal, march)
    BY <1>5 DEF ClockMoves
  <2> QED BY <1>1, <1>2, <1>3, <1>4, <1>5, <2>1, RescheduledStep
<1>6. CASE ~(shown # 0 /\ Jumped(o + personal))
  <2>1. NotRescheduled
    BY <1>6 DEF ClockMoves
  <2>2. shown # 0 => NearBy(lastOffset, clock' + personal')
    BY <1>1, <1>2, <1>4, <1>6 DEF Jumped, Distance, NearBy
  <2> QED BY <1>1, <1>2, <1>3, <1>4, <2>1, <2>2, NotRescheduledStep
<1> QED BY <1>5, <1>6

LEMMA PersonalMovesStep == ASSUME Heard, Followed, NEW o \in PersonalOffsets, PersonalMoves(o) PROVE Heard' /\ Followed'
<1>1. o \in Int /\ Threshold \in Nat
  BY PlayerAssumption
<1>2. /\ personal' = o /\ budget' = [budget EXCEPT !.moves = @ + 1]
      /\ UNCHANGED <<kind, wall, audio, ctx, shown, clock, march>>
  BY DEF PersonalMoves
<1>3. budget' \in Budgets /\ budget'.shows = budget.shows
  BY <1>2 DEF Followed, Budgets
<1>4. clock \in Int /\ lastOffset \in Int
  BY DEF Followed
<1>5. CASE shown # 0 /\ lastOffset # clock + o
  <2>1. Rescheduled(clock + o, march)
    BY <1>5 DEF PersonalMoves
  <2> QED BY <1>1, <1>2, <1>3, <1>4, <1>5, <2>1, RescheduledStep
<1>6. CASE ~(shown # 0 /\ lastOffset # clock + o)
  <2>1. NotRescheduled
    BY <1>6 DEF PersonalMoves
  <2>2. shown # 0 => NearBy(lastOffset, clock' + personal')
    BY <1>1, <1>2, <1>4, <1>6 DEF NearBy
  <2> QED BY <1>1, <1>2, <1>3, <1>4, <2>1, <2>2, NotRescheduledStep
<1> QED BY <1>5, <1>6

\* The march time: the estimate in use is not written down, and is near what is.
LEMMA MarchMovesStep == ASSUME Heard, Followed, NEW m \in Marches, MarchMoves(m) PROVE Heard' /\ Followed'
<1>1. m \in Nat
  BY PlayerAssumption
<1>2. /\ kind = "countdown" /\ march' = m /\ budget' = [budget EXCEPT !.moves = @ + 1]
      /\ UNCHANGED <<kind, wall, audio, ctx, shown, clock, personal, lastOffset>>
  BY DEF MarchMoves
<1>3. budget' \in Budgets /\ budget'.shows = budget.shows
  BY <1>2 DEF Followed, Budgets
<1>4. CASE shown # 0
  <2>1. PICK e \in Int : e = Effective /\ e = clock + personal
    BY DEF Effective, Followed
  <2>2. PICK p \in Plans : p = PlanFor(shown, e, m) /\ p.offset = e
    BY <1>1, PlanForOf DEF Followed
  <2>3. Scheduled(p)
    BY <1>4, <2>1, <2>2 DEF MarchMoves
  <2>4. Heard' /\ pendingSchedule' = p /\ p # NoPlan
    BY <1>2, <2>3, PlanStarts DEF Heard, PlayerTyped
  <2> QED BY <1>1, <1>2, <1>3, <1>4, <2>1, <2>2, <2>4 DEF Followed, NearBy
<1>5. CASE shown = 0
  <2>1. UNCHANGED <<clip, pendingSchedule, calls, waits, sources>>
    BY <1>5 DEF MarchMoves
  <2>2. Heard'
    BY <1>2, <2>1, NotPlayed
  <2> QED BY <1>1, <1>2, <1>3, <1>5, <2>1, <2>2 DEF Followed
<1> QED BY <1>4, <1>5

LEMMA SnapshotAgainStep == ASSUME Heard, Followed, SnapshotAgain PROVE Heard' /\ Followed'
<1>1. PICK e \in Int : e = Effective /\ e = clock + personal
  BY DEF Effective, Followed
<1>2. shown # 0 /\ Rescheduled(e, march) /\ UNCHANGED <<kind, wall, audio, ctx, shown, clock, personal, march, budget>>
  BY <1>1 DEF SnapshotAgain
<1> QED BY <1>1, <1>2, RescheduledStep DEF Followed

LEMMA PlayerStart == ASSUME NEW k \in {"countdown", "rally"}, NEW cold, PlayerInit(k, cold) PROVE Heard /\ Followed
<1>1. clip \in [Words -> {"none", "loading", "ready"}]
  BY DEF PlayerInit
<1>2. budget.shows = 0 /\ budget \in Budgets
  BY DEF PlayerInit, Budgets
<1> QED BY <1>1, <1>2 DEF PlayerInit, Heard, PlayerTyped, LatestCalls, Planned, Followed

LEMMA PlayerStep == (Heard /\ Followed) /\ [PlayerNext]_playerVars => (Heard /\ Followed)'
<1> SUFFICES ASSUME Heard, Followed, [PlayerNext]_playerVars PROVE Heard' /\ Followed'
  OBVIOUS
<1>1. ASSUME UNCHANGED <<kind, pendingSchedule, shown, clock, personal, march, lastOffset>>,
             budget' \in Budgets, budget'.shows = budget.shows
      PROVE  Followed'
  BY <1>1 DEF Followed, NearBy
<1>2. ASSUME NEW c \in calls, WarmedUp(c) \/ ResumeWaited(c) PROVE Heard' /\ Followed'
  <2>1. Heard'
    BY <1>2, WarmedUpStep, ResumeWaitedStep
  <2> QED BY <1>1, <1>2, <2>1 DEF WarmedUp, ResumeWaited, Followed
<1>3. ASSUME NEW w \in Words, BufferArrives(w) \/ BufferFails(w) PROVE Heard' /\ Followed'
  <2>1. Heard'
    BY <1>3, BufferArrivesStep, BufferFailsStep
  <2>2. budget' \in Budgets /\ budget'.shows = budget.shows
    BY <1>3 DEF BufferArrives, BufferFails, Followed, Budgets
  <2> QED BY <1>1, <1>3, <2>1, <2>2 DEF BufferArrives, BufferFails
<1>4. CASE Primes
  BY <1>1, <1>4, PrimesStep DEF Primes, Followed
<1>5. CASE Suspends
  <2>1. budget' \in Budgets /\ budget'.shows = budget.shows
    BY <1>5 DEF Suspends, Followed, Budgets
  <2> QED BY <1>1, <1>5, <2>1, SuspendsStep DEF Suspends
<1>6. CASE Resumes
  BY <1>1, <1>6, ResumesStep DEF Resumes, Followed
<1>7. CASE Passes
  BY <1>1, <1>7, PassesStep DEF Passes, Followed
<1>8. CASE UNCHANGED playerVars
  BY <1>1, <1>8, NotPlayed DEF playerVars, Followed
<1> QED BY <1>2, <1>3, <1>4, <1>5, <1>6, <1>7, <1>8, ShowsStep, HidesStep, SnapshotAgainStep,
           ClockMovesStep, PersonalMovesStep, MarchMovesStep DEF PlayerNext

\* What is promised of the players.
SpeechInTime == SpokenInTime /\ NothingSkipped /\ SilentWhenHidden /\ FollowsClock

LEMMA InvSpeechInTime == Heard /\ Followed => SpeechInTime
<1> SUFFICES ASSUME Heard, Followed PROVE SpeechInTime
  OBVIOUS
<1> USE DEF Heard
<1>1. ASSUME ctx = "running", pendingSchedule # NoPlan
      PROVE  /\ \A t \in SlotsOf(pendingSchedule) : t.at \in Int
             /\ AllInTime(sources, waits, kind, pendingSchedule, StartOf(pendingSchedule, wall, audio))
             /\ audio \in Int /\ wall \in Int /\ pendingSchedule.start \in Int /\ pendingSchedule.offset \in Int
             /\ SlotsOf(pendingSchedule) = Slots(kind, pendingSchedule)
             /\ StartOf(pendingSchedule, wall, audio) = audio + pendingSchedule.start - (wall + pendingSchedule.offset)
  <2>1. pendingSchedule \in Plans
    BY <1>1 DEF PlayerTyped
  <2>2. SlotsOf(pendingSchedule) = Slots(kind, pendingSchedule)
    BY DEF SlotsOf, Slots
  <2> QED BY <1>1, <2>1, <2>2, SlotsTyped DEF PlayerTyped, Planned, StartOf, Plans
<1>2. SpokenInTime
  <2> SUFFICES ASSUME ctx = "running", NEW s \in sources
               PROVE  /\ pendingSchedule # NoPlan
                      /\ \E t \in SlotsOf(pendingSchedule) :
                           t.word = s.word /\ wall + s.at - audio + pendingSchedule.offset = pendingSchedule.start + t.at
    BY DEF SpokenInTime
  <2>1. pendingSchedule # NoPlan
    BY DEF LatestCalls
  <2>2. PICK t \in SlotsOf(pendingSchedule) : t.word = s.word /\ s.at = StartOf(pendingSchedule, wall, audio) + t.at
    BY <1>1, <2>1 DEF AllInTime, InTime
  <2>3. wall + s.at - audio + pendingSchedule.offset = pendingSchedule.start + t.at
    BY <1>1, <2>1, <2>2
  <2> QED BY <2>1, <2>2, <2>3
<1>3. NothingSkipped
  <2> DEFINE Due(t) == pendingSchedule.start + t.at - pendingSchedule.offset
             Reserves(t) == \E s \in sources : s.word = t.word /\ s.at - audio = Due(t) - wall
             Must(t) == clip[t.word] = "ready" /\ Due(t) >= wall
  <2>1. ASSUME ctx = "running", pendingSchedule # NoPlan, \A c \in calls : ~c.live,
               NEW t \in SlotsOf(pendingSchedule), Must(t)
        PROVE  Reserves(t)
    <3>1. AllThere(sources, waits, clip, audio, kind, pendingSchedule, StartOf(pendingSchedule, wall, audio))
      BY <2>1 DEF Planned
    <3>2. StartOf(pendingSchedule, wall, audio) + t.at >= audio
      BY <1>1, <2>1
    <3>3. PICK s \in sources : s.word = t.word /\ s.at = StartOf(pendingSchedule, wall, audio) + t.at
      BY <1>1, <2>1, <3>1, <3>2 DEF AllThere
    <3> QED BY <1>1, <2>1, <3>3
  <2> HIDE DEF Reserves, Must
  <2>2. (ctx = "running" /\ pendingSchedule # NoPlan /\ \A c \in calls : ~c.live) =>
          \A t \in SlotsOf(pendingSchedule) : Must(t) => Reserves(t)
    BY <2>1
  <2> QED BY <2>2, Zenon DEF NothingSkipped, Must, Reserves
<1>4. SilentWhenHidden
  BY DEF SilentWhenHidden, Followed, LatestCalls
<1>5. FollowsClock
  <2> SUFFICES ASSUME pendingSchedule # NoPlan
               PROVE  Distance(pendingSchedule.offset, Effective) <= IF kind = "rally" THEN Threshold ELSE 2 * Threshold
    BY DEF FollowsClock
  <2>1. PICK o, e, b, h \in Int : o = pendingSchedule.offset /\ e = Effective /\ e = clock + personal /\ b = lastOffset /\ h = Threshold
    BY PlayerAssumption DEF Followed, PlayerTyped, Plans, Effective
  <2>2. NearBy(b, e) /\ NearBy(o, b) /\ (kind = "rally" => o = b) /\ h \in Nat
    BY <2>1, PlayerAssumption DEF Followed
  <2> QED BY <2>1, <2>2 DEF NearBy, Distance
<1> QED BY <1>2, <1>3, <1>4, <1>5 DEF SpeechInTime

\* Whatever schedules, buffers, pauses of the audio clock and moves of the estimate come,
\* in any order, both players speak what the last schedule asked for, all of it that is
\* decoded, each word in its second, and nothing once the countdown is hidden
\* (countdownPlayer.js, rallyGroupPlayer.js, Countdown.jsx).
THEOREM SpokenTogether == PlayerSpec => []SpeechInTime
<1>1. (\E k \in {"countdown", "rally"}, cold \in SUBSET Words : PlayerInit(k, cold)) => Heard /\ Followed
  BY PlayerStart
<1> QED BY <1>1, PlayerStep, InvSpeechInTime, PTL DEF PlayerSpec

-----------------------------------------------------------------------------
(* The start that leaves everybody the time to get ready.                  *)

(* The outcomes that are no slower than some time, and what the percentile is of them. *)

NegotiationSpec == NegotiationInit /\ [][NegotiationNext]_negotiationVars

Quick(t) == {y \in Outcomes : ToRtt(y) <= t}
AtRank(n) == Max({-((-Percent * n) \div 100), 1})

\* t is the value at the rank of the percentile when the outcomes come as often as w says.
SlowestOf(w, t) ==
  /\ t \in 0..OutlierRtt
  /\ \E x \in Outcomes : t = ToRtt(x)
  /\ AtRank(Sum(w, Outcomes)) <= Sum(w, Quick(t))
  /\ \A x \in Outcomes : AtRank(Sum(w, Outcomes)) <= Sum(w, Quick(ToRtt(x))) => t <= ToRtt(x)

\* As many have an outcome as have been asked and still are not; and once the start is
\* set, it is set by the percentile.
Probed ==
  /\ connected \in Nat /\ authenticated \in Nat /\ tally \in [Outcomes -> Nat] /\ asked \in Int
  /\ asked = -1 => Sum(tally, Outcomes) = 0 /\ grace = -1
  /\ asked # -1 => asked \in Nat /\ asked + Sum(tally, Outcomes) = Targets
  /\ (grace = -1 /\ asked # -1) => Targets > 0
  /\ grace # -1 =>
       /\ asked = 0
       /\ \/ Targets = 0 /\ grace = Margin
          \/ Targets > 0 /\ \E t \in Nat : SlowestOf(tally, t) /\ grace = 2 * t + Margin

LEMMA HowManyIsSum == ASSUME NEW S PROVE HowMany(S) = Sum(tally, S)
BY DEF HowMany, MapThenSumSet, MapThenFoldSet, Sum, Some

LEMMA OutcomesFinite ==
  /\ IsFiniteSet(Outcomes) /\ Outcomes # {}
  /\ \A o \in Outcomes : ToRtt(o) \in 0..OutlierRtt /\ o.kind \in {"ack", "timeout", "invalid"} /\ o.rtt \in Nat
  /\ [kind |-> "timeout", rtt |-> 0] \in Outcomes
<1> DEFINE f == [r \in RoundTrips |-> [kind |-> "ack", rtt |-> r]]
           A == {[kind |-> "ack", rtt |-> r] : r \in RoundTrips}
           B == {[kind |-> "timeout", rtt |-> 0], [kind |-> "invalid", rtt |-> 0]}
<1>1. IsFiniteSet(A)
  <2>1. f \in Surjection(RoundTrips, A)
    BY DEF Surjection
  <2> HIDE DEF f, A
  <2> QED BY <2>1, FS_Surjection, NegotiationAssumption
<1>2. IsFiniteSet(B)
  <2>1. B = {[kind |-> "timeout", rtt |-> 0]} \cup {[kind |-> "invalid", rtt |-> 0]}
    OBVIOUS
  <2> HIDE DEF B
  <2> QED BY <2>1, FS_Singleton, FS_Union
<1>3. Outcomes = A \cup B
  BY DEF Outcomes
<1>4. IsFiniteSet(Outcomes)
  <2> HIDE DEF A, B
  <2> QED BY <1>1, <1>2, <1>3, FS_Union
<1>5. ASSUME NEW o \in Outcomes
      PROVE  o.kind \in {"ack", "timeout", "invalid"} /\ o.rtt \in Nat
  BY NegotiationAssumption DEF Outcomes
<1>6. ASSUME NEW o \in Outcomes PROVE ToRtt(o) \in 0..OutlierRtt
  <2>1. OutlierRtt \in Nat /\ FallbackRtt \in Nat /\ FallbackRtt <= OutlierRtt
    BY NegotiationAssumption
  <2>2. CASE o.kind = "ack"
    <3>1. {o.rtt, OutlierRtt} \in SUBSET Nat /\ {o.rtt, OutlierRtt} # {}
      BY <1>5, <2>1
    <3>2. Min({o.rtt, OutlierRtt}) \in {o.rtt, OutlierRtt} /\ Min({o.rtt, OutlierRtt}) <= OutlierRtt
      BY <3>1, MinOf
    <3>3. ToRtt(o) = Min({o.rtt, OutlierRtt})
      BY <2>2 DEF ToRtt
    <3> QED BY <2>1, <1>5, <3>2, <3>3
  <2>3. CASE o.kind = "timeout"
    BY <2>1, <2>3 DEF ToRtt
  <2>4. CASE o.kind = "invalid"
    BY <2>1, <2>4 DEF ToRtt
  <2> QED BY <1>5, <2>2, <2>3, <2>4
<1>7. [kind |-> "timeout", rtt |-> 0] \in Outcomes
  BY DEF Outcomes
<1> QED BY <1>4, <1>5, <1>6, <1>7

\* The rank is one of the places, and leaves out no more than the percentile allows.
LEMMA RankFits ==
  ASSUME NEW n \in Nat, n > 0
  PROVE  AtRank(n) \in 1..n /\ Percent * n <= 100 * AtRank(n)
<1>1. PICK m \in Int : m = Percent * n /\ (-Percent) * n = -m /\ m <= 100 * n /\ m >= 0
  BY NegotiationAssumption
<1>2. PICK r \in Int : r = -((-m) \div 100)
  BY <1>1
<1>3. 100 * r >= m /\ r <= n /\ r >= 0
  BY <1>1, <1>2
<1>4. Max({r, 1}) = IF r >= 1 THEN r ELSE 1
  <2>1. CASE r >= 1
    BY <2>1 DEF Max
  <2>2. CASE ~(r >= 1)
    BY <2>2 DEF Max
  <2> QED BY <2>1, <2>2
<1>5. AtRank(n) = Max({r, 1})
  BY <1>1, <1>2 DEF AtRank
<1> QED BY <1>1, <1>3, <1>4, <1>5

\* Sums over the outcomes and over those that are no slower than some time.
LEMMA QuickSums ==
  ASSUME NEW w \in [Outcomes -> Nat], NEW S \in SUBSET Outcomes
  PROVE  /\ Sum(w, S) \in Nat /\ Sum(w, Outcomes) \in Nat /\ Sum(w, Outcomes \ S) \in Nat
         /\ Sum(w, S) <= Sum(w, Outcomes)
         /\ Sum(w, Outcomes) = Sum(w, S) + Sum(w, Outcomes \ S)
<1>1. IsFiniteSet(Outcomes) /\ \A x \in Outcomes : w[x] \in Nat
  BY OutcomesFinite
<1> QED BY <1>1, SumSplit, SumWithin

\* All outcomes that anybody had are among those of S: S is as many as all.
LEMMA AllOfThem ==
  ASSUME NEW w \in [Outcomes -> Nat], NEW S \in SUBSET Outcomes, \A x \in Outcomes \ S : w[x] = 0
  PROVE  Sum(w, S) = Sum(w, Outcomes)
<1>1. IsFiniteSet(Outcomes \ S)
  BY OutcomesFinite, FS_Subset
<1>2. Sum(w, Outcomes \ S) = 0
  BY <1>1, SumOfNothing
<1>3. PICK a, b \in Nat : a = Sum(w, S) /\ b = Sum(w, Outcomes)
  BY QuickSums
<1>4. b = a + 0
  BY <1>2, <1>3, QuickSums
<1> QED BY <1>3, <1>4

\* Among the outcomes that anybody had there is a slowest one.
LEMMA SlowestThere ==
  ASSUME NEW w \in [Outcomes -> Nat], Sum(w, Outcomes) > 0
  PROVE  \E x \in Outcomes : w[x] > 0 /\ Sum(w, Quick(ToRtt(x))) = Sum(w, Outcomes)
<1> DEFINE R == {r \in 0..OutlierRtt : \E x \in Outcomes : w[x] > 0 /\ ToRtt(x) = r}
           B == {k \in Nat : \A r \in R : r <= k}
<1>1. PICK x0 \in Outcomes : w[x0] > 0
  <2>1. IsFiniteSet(Outcomes) /\ \A x \in Outcomes : w[x] \in Nat
    BY OutcomesFinite
  <2> QED BY <2>1, SumOfSome
<1>2. ToRtt(x0) \in R
  BY <1>1, OutcomesFinite
<1>3. OutlierRtt \in B
  BY NegotiationAssumption
<1>4. PICK m \in B : \A k \in B : ~(k < m)
  <2>1. B \in SUBSET Nat /\ B # {}
    BY <1>3
  <2> HIDE DEF B
  <2> QED BY <2>1, NatMin
<1>5. m \in R
  <2> SUFFICES ASSUME m \notin R PROVE FALSE
    OBVIOUS
  <2>1. \A r \in R : r <= m /\ r # m /\ r \in Nat
    BY NegotiationAssumption
  <2>2. m # 0
    BY <1>2, <2>1
  <2>3. m - 1 \in B
    BY <2>1, <2>2
  <2> QED BY <1>4, <2>3
<1>6. PICK x \in Outcomes : w[x] > 0 /\ ToRtt(x) = m
  BY <1>5
<1>7. \A y \in Outcomes \ Quick(ToRtt(x)) : w[y] = 0
  <2> SUFFICES ASSUME NEW y \in Outcomes, ~(ToRtt(y) <= m), w[y] # 0 PROVE FALSE
    BY <1>6 DEF Quick
  <2>1. w[y] > 0 /\ ToRtt(y) \in R
    BY OutcomesFinite
  <2> QED BY <1>4, <2>1
<1>8. Quick(ToRtt(x)) \in SUBSET Outcomes
  BY DEF Quick
<1> QED BY <1>6, <1>7, <1>8, AllOfThem

\* When somebody had an outcome there is a value at the rank, and TailRtt is it.
LEMMA TailThere ==
  ASSUME tally \in [Outcomes -> Nat], Sum(tally, Outcomes) > 0
  PROVE  SlowestOf(tally, TailRtt) /\ TailRtt \in Nat
<1> DEFINE X == {x \in Outcomes : HowMany({y \in Outcomes : ToRtt(y) <= ToRtt(x)}) >= Rank}
           T == {ToRtt(o) : o \in X}
<1>1. TailRtt = Min(T)
  BY DEF TailRtt
<1>2. \A x \in Outcomes : HowMany({y \in Outcomes : ToRtt(y) <= ToRtt(x)}) = Sum(tally, Quick(ToRtt(x)))
  BY HowManyIsSum DEF Quick
<1>3. Rank = AtRank(Sum(tally, Outcomes))
  BY HowManyIsSum DEF Rank, AtRank, Answered
<1>4. PICK n \in Nat : n = Sum(tally, Outcomes) /\ n > 0
  BY QuickSums
<1>5. PICK r \in 1..n : r = AtRank(n)
  BY <1>4, RankFits
<1>6. \A x \in Outcomes : x \in X <=> Sum(tally, Quick(ToRtt(x))) >= r
  BY <1>2, <1>3, <1>4, <1>5
<1>7. \A x \in Outcomes : Sum(tally, Quick(ToRtt(x))) \in Nat
  BY QuickSums DEF Quick
<1>8. PICK x0 \in Outcomes : Sum(tally, Quick(ToRtt(x0))) = n
  BY <1>4, SlowestThere
<1>9. X # {} /\ X \in SUBSET Outcomes
  BY <1>4, <1>5, <1>6, <1>8
<1>10. T \in SUBSET Nat /\ T # {} /\ T \in SUBSET (0..OutlierRtt)
  <2> HIDE DEF X
  <2> QED BY <1>9, OutcomesFinite
<1>11. PICK t \in 0..OutlierRtt : t = TailRtt /\ t \in T /\ \A k \in T : t <= k
  <2> HIDE DEF T
  <2> QED BY <1>1, <1>10, MinOf
<1>12. PICK x1 \in X : t = ToRtt(x1)
  <2> HIDE DEF X
  <2> QED BY <1>11
<1>13. x1 \in Outcomes /\ r <= Sum(tally, Quick(t))
  <2>1. x1 \in Outcomes
    OBVIOUS
  <2>2. Sum(tally, Quick(ToRtt(x1))) >= r
    <3> HIDE DEF X
    <3> QED BY <1>6, <1>12, <2>1
  <2> HIDE DEF X
  <2> QED BY <1>7, <1>12, <2>1, <2>2
<1>14. ASSUME NEW x \in Outcomes, r <= Sum(tally, Quick(ToRtt(x))) PROVE t <= ToRtt(x)
  <2>1. x \in X
    <3> HIDE DEF X
    <3> QED BY <1>6, <1>7, <1>14
  <2>2. ToRtt(x) \in T
    <3> HIDE DEF X
    <3> QED BY <2>1
  <2> QED BY <1>11, <2>2
<1>15. SlowestOf(tally, t)
  <2> HIDE DEF X, T
  <2> QED BY <1>4, <1>5, <1>12, <1>13, <1>14 DEF SlowestOf
<1> QED BY <1>11, <1>15, NegotiationAssumption

LEMMA NegotiationStart == NegotiationInit => Probed
<1> SUFFICES ASSUME NegotiationInit PROVE Probed
  OBVIOUS
<1>1. connected \in Nat /\ authenticated \in Nat
  BY NegotiationAssumption DEF NegotiationInit
<1>2. tally \in [Outcomes -> Nat] /\ \A x \in Outcomes : tally[x] = 0
  BY DEF NegotiationInit
<1>3. Sum(tally, Outcomes) = 0
  BY <1>2, OutcomesFinite, SumOfNothing
<1> QED BY <1>1, <1>2, <1>3 DEF NegotiationInit, Probed

LEMMA NegotiationStep == Probed /\ [NegotiationNext]_negotiationVars => Probed'
<1> SUFFICES ASSUME Probed, [NegotiationNext]_negotiationVars PROVE Probed'
  OBVIOUS
<1> USE DEF Probed
<1>1. Sum(tally, Outcomes) \in Nat /\ IsFiniteSet(Outcomes) /\ \A x \in Outcomes : tally[x] \in Nat
  BY QuickSums, OutcomesFinite
<1>2. Targets \in Nat
  BY DEF Targets
<1>3. CASE Negotiates
  BY <1>1, <1>2, <1>3, NegotiationAssumption DEF Negotiates, Targets
<1>4. CASE Decides
  <2>1. UNCHANGED <<connected, authenticated, asked, tally>> /\ asked = 0 /\ grace = -1
    BY <1>4 DEF Decides
  <2>2. Targets > 0 /\ Sum(tally, Outcomes) = Targets /\ Targets' = Targets
    BY <1>1, <1>2, <2>1 DEF Targets
  <2>3. PICK t \in Nat : t = TailRtt /\ SlowestOf(tally, t)
    BY <1>2, <2>2, TailThere
  <2>4. t <= OutlierRtt
    BY <2>3, NegotiationAssumption DEF SlowestOf
  <2>5. grace' = Min({2 * t + Margin, MaxGrace})
    BY <1>4, <2>3 DEF Decides
  <2>6. PICK g \in Nat : g = 2 * t + Margin /\ g <= MaxGrace /\ MaxGrace \in Nat
    BY <2>4, NegotiationAssumption
  <2>7. {g, MaxGrace} \in SUBSET Nat /\ {g, MaxGrace} # {}
    BY <2>6
  <2>8. Min({g, MaxGrace}) \in {g, MaxGrace} /\ Min({g, MaxGrace}) <= g
    BY <2>7, MinOf
  <2>9. grace' = g
    BY <2>5, <2>6, <2>8
  <2>10. SlowestOf(tally', t) /\ tally' \in [Outcomes -> Nat]
    BY <2>1, <2>3
  <2>11. (\E k \in Nat : SlowestOf(tally, k) /\ grace = 2 * k + Margin)'
    BY <2>6, <2>9, <2>10
  <2> QED BY <2>1, <2>2, <2>6, <2>9, <2>11
<1>5. ASSUME NEW o \in Outcomes, NEW k \in 1..asked, asked > 0,
             tally' = [tally EXCEPT ![o] = @ + k], asked' = asked - k,
             UNCHANGED <<connected, authenticated, grace>>
      PROVE  Probed'
  <2>1. k \in Nat /\ tally' \in [Outcomes -> Nat] /\ tally'[o] = tally[o] + k
         /\ \A x \in Outcomes \ {o} : tally'[x] = tally[x]
    BY <1>1, <1>5
  <2>2. PICK v : v = tally'
    OBVIOUS
  <2>3. Sum(v, Outcomes) = Sum(tally, Outcomes) + k
    BY <1>1, <2>1, <2>2, SumGrows
  <2>4. Sum(tally, Outcomes)' = Sum(tally, Outcomes) + k /\ Targets' = Targets
    BY <1>5, <2>2, <2>3 DEF Targets
  <2>5. asked' \in Nat /\ asked' + Sum(tally, Outcomes)' = Targets /\ grace' = -1 /\ Targets > 0
    BY <1>1, <1>2, <1>5, <2>4
  <2> QED BY <1>5, <2>1, <2>4, <2>5
<1>6. CASE Deadline
  <2>1. asked \in 1..asked /\ asked > 0 /\ asked' = asked - asked
    BY <1>6 DEF Deadline
  <2> QED BY <1>5, <1>6, <2>1, OutcomesFinite DEF Deadline
<1>7. ASSUME NEW o \in Outcomes, Acks(o) PROVE Probed'
  <2>1. 1 \in 1..asked /\ asked > 0
    BY <1>7 DEF Acks
  <2> QED BY <1>5, <1>7, <2>1 DEF Acks
<1>8. CASE UNCHANGED negotiationVars
  BY <1>8 DEF negotiationVars, Targets
<1> QED BY <1>3, <1>4, <1>6, <1>7, <1>8 DEF NegotiationNext

LEMMA NeedsOf ==
  ASSUME NEW o \in Outcomes
  PROVE  Needs(o) = IF o.kind = "invalid" THEN 0 ELSE 2 * ToRtt(o)
BY OutcomesFinite DEF Needs, ToRtt

LEMMA InvGraceCovers == Probed => GraceCovers
<1> SUFFICES ASSUME Probed, grace # -1 PROVE GraceCovers
  BY DEF GraceCovers
<1> DEFINE Bad == {o \in Outcomes : Needs(o) + Margin > grace}
<1>1. tally \in [Outcomes -> Nat] /\ asked = 0 /\ Targets \in Nat /\ Margin \in Nat /\ OutlierRtt \in Nat /\ Percent \in 1..100
  BY NegotiationAssumption DEF Probed, Targets
<1>2. PICK n \in Nat : n = Sum(tally, Outcomes) /\ n = Targets
  <2>1. PICK n \in Nat : n = Sum(tally, Outcomes)
    BY <1>1, QuickSums
  <2>2. 0 + n = Targets
    BY <1>1, <2>1 DEF Probed
  <2> QED BY <2>1, <2>2
<1>3. PICK b \in Nat : b = Sum(tally, Bad) /\ b <= n
  <2>1. Bad \in SUBSET Outcomes
    OBVIOUS
  <2> HIDE DEF Bad
  <2> QED BY <1>1, <1>2, <2>1, QuickSums
<1>4. HowMany(Bad) = b /\ Answered = n
  <2> HIDE DEF Bad
  <2> QED BY <1>2, <1>3, HowManyIsSum DEF Answered
<1>5. CASE Targets = 0 /\ grace = Margin
  <2>1. n = 0 /\ b = 0
    BY <1>2, <1>3, <1>5
  <2>2. 100 * b <= (100 - Percent) * n
    BY <1>1, <2>1
  <2> QED BY <1>1, <1>4, <1>5, <2>2 DEF GraceCovers
<1>6. CASE Targets > 0 /\ \E t \in Nat : SlowestOf(tally, t) /\ grace = 2 * t + Margin
  <2>1. PICK t \in Nat : SlowestOf(tally, t) /\ grace = 2 * t + Margin
    BY <1>6
  <2>2. PICK r \in 1..n : r = AtRank(n) /\ Percent * n <= 100 * r
    BY <1>2, <1>6, RankFits
  <2>3. r <= Sum(tally, Quick(t)) /\ t <= OutlierRtt
    BY <1>2, <2>1, <2>2 DEF SlowestOf
  <2>4. Quick(t) \in SUBSET Outcomes /\ Bad \in SUBSET Outcomes
    BY DEF Quick
  <2>5. Bad \in SUBSET (Outcomes \ Quick(t))
    <3> SUFFICES ASSUME NEW o \in Outcomes, Needs(o) + Margin > 2 * t + Margin, ToRtt(o) <= t PROVE FALSE
      BY <2>1 DEF Quick
    <3>1. ToRtt(o) \in Nat
      BY <1>1, OutcomesFinite
    <3> QED BY <1>1, <3>1, NeedsOf
  <2>6. PICK q, s \in Nat : q = Sum(tally, Quick(t)) /\ s = Sum(tally, Outcomes \ Quick(t)) /\ n = q + s
    <3>1. PICK q, s \in Nat : q = Sum(tally, Quick(t)) /\ s = Sum(tally, Outcomes \ Quick(t))
      BY <1>1, <2>4, QuickSums
    <3>2. n = q + s
      BY <1>1, <1>2, <2>4, <3>1, QuickSums
    <3> QED BY <3>1, <3>2
  <2>7. b <= s
    <3>1. IsFiniteSet(Outcomes \ Quick(t)) /\ \A x \in Outcomes \ Quick(t) : tally[x] \in Nat
      BY <1>1, OutcomesFinite, FS_Subset
    <3> HIDE DEF Bad
    <3> QED BY <1>3, <2>5, <2>6, <3>1, SumWithin
  <2>8. b <= n - r
    BY <2>2, <2>3, <2>6, <2>7
  <2>9. PICK m \in Int : m = Percent * n /\ (100 - Percent) * n = 100 * n - m
    BY <1>1
  <2>10. 100 * b <= (100 - Percent) * n
    BY <2>2, <2>8, <2>9
  <2> QED BY <1>1, <1>4, <2>1, <2>3, <2>10 DEF GraceCovers
<1> QED BY <1>5, <1>6 DEF Probed

LEMMA InvNobodyWaitedFor == Probed => NobodyWaitedFor
<1> SUFFICES ASSUME Probed, grace # -1, authenticated > 0, HowMany({o \in Outcomes : o.kind = "ack"}) = authenticated
             PROVE  \E o \in Outcomes : tally[o] > 0 /\ grace <= Needs(o) + Margin /\ o.kind = "ack"
  BY DEF NobodyWaitedFor
<1> DEFINE A == {o \in Outcomes : o.kind = "ack"}
<1>1. tally \in [Outcomes -> Nat] /\ Targets = authenticated /\ authenticated \in Nat /\ Margin \in Nat /\ OutlierRtt \in Nat
  BY NegotiationAssumption DEF Probed, Targets
<1>2. PICK n \in Nat : n = Sum(tally, Outcomes) /\ n = authenticated /\ n > 0
  <2>1. PICK n \in Nat : n = Sum(tally, Outcomes)
    BY <1>1, QuickSums
  <2>2. 0 + n = Targets
    BY <2>1 DEF Probed
  <2> QED BY <1>1, <2>1, <2>2
<1>3. A \in SUBSET Outcomes /\ Sum(tally, A) = n
  <2>1. HowMany(A) = n
    BY <1>2
  <2> HIDE DEF A
  <2>2. Sum(tally, A) = n
    BY <2>1, HowManyIsSum
  <2> QED BY <2>2 DEF A
<1>4. ASSUME NEW x \in Outcomes \ A PROVE tally[x] = 0
  <2> HIDE DEF A
  <2>1. PICK a, b \in Nat : a = Sum(tally, A) /\ b = Sum(tally, Outcomes \ A) /\ n = a + b
    BY <1>1, <1>2, <1>3, QuickSums
  <2>2. b = 0
    BY <1>3, <2>1
  <2>3. IsFiniteSet(Outcomes \ A) /\ \A y \in Outcomes \ A : tally[y] \in Nat
    BY <1>1, OutcomesFinite, FS_Subset
  <2>4. PICK c, d \in Nat : c = tally[x] /\ d = Sum(tally, (Outcomes \ A) \ {x})
    BY <2>3, SumLess
  <2>5. b = c + d
    BY <2>1, <2>3, <2>4, SumLess
  <2> QED BY <2>2, <2>4, <2>5
<1>5. PICK t \in Nat : SlowestOf(tally, t) /\ grace = 2 * t + Margin
  BY <1>1, <1>2 DEF Probed
<1>6. PICK x \in Outcomes : tally[x] > 0 /\ Sum(tally, Quick(ToRtt(x))) = n
  BY <1>1, <1>2, SlowestThere
<1>7. t <= ToRtt(x)
  <2>1. AtRank(n) <= n /\ AtRank(n) \in Nat
    BY <1>2, RankFits
  <2> QED BY <1>2, <1>5, <1>6, <2>1 DEF SlowestOf
<1>8. x.kind = "ack"
  BY <1>4, <1>6
<1>9. Needs(x) = 2 * ToRtt(x) /\ ToRtt(x) \in Nat
  BY <1>1, <1>8, NeedsOf, OutcomesFinite
<1> QED BY <1>1, <1>5, <1>6, <1>7, <1>8, <1>9

\* However many clients are probed, and whatever each of them answers, the start that is
\* announced leaves at least nineteen of twenty the time that they need, and no more than
\* the slowest who answered needs where all have (ready-negotiation.service.ts).
THEOREM StartIsFair == NegotiationSpec => [](GraceCovers /\ NobodyWaitedFor)
BY NegotiationStart, NegotiationStep, InvGraceCovers, InvNobodyWaitedFor, PTL DEF NegotiationSpec

-----------------------------------------------------------------------------
(* The input line of the chat.                                             *)

ComposerSpec == ComposerInit /\ [][ComposerNext]_composerVars

\* The sends are numbered in their order, and the numbers are not used twice.
UsedTo(n) == \A k \in Sends : attempt[k] # "none" <=> k <= n

SendsTyped ==
  /\ sending \in BOOLEAN
  /\ attempt \in [Sends -> {"none", "sent", "accepted", "refused", "lost", "late", "settled"}]
  /\ raw \in [Sends -> Line]

\* What has been received was sent, and what was accepted has been received.
ComposerInv ==
  /\ SendsTyped /\ NothingVanishes /\ OneAwaited
  /\ \E n \in 0..MaxSends : UsedTo(n)
  /\ \A k \in received : k \in Sends /\ attempt[k] # "none"
  /\ \A k \in Sends : attempt[k] = "accepted" => k \in received

\* The number of the next send.
LEMMA UsedIs ==
  ASSUME NEW n \in 0..MaxSends, UsedTo(n)
  PROVE  Used = n
<1>1. {k \in Sends : attempt[k] # "none"} = 1..n
  BY ComposerAssumption DEF UsedTo, Sends
<1>2. Cardinality(1..n) = n
  <2>1. n \in Nat
    BY ComposerAssumption
  <2> QED BY <2>1, FS_Interval
<1> QED BY <1>1, <1>2 DEF Used

\* A message goes on: it stays sent, and when the line is through with it the line may be
\* used again; one that was given up is taken late.
Goes(k, a) == WaitedFor(k) /\ a \in {"accepted", "refused", "lost"} /\ sending' = sending
Over(k, a) == WaitedFor(k) /\ a \in {"late", "settled"} /\ sending' = FALSE
Late(k, a) == attempt[k] = "late" /\ a = "settled" /\ sending' = sending

LEMMA AttemptGoesOn ==
  ASSUME ComposerInv, NEW k \in Sends, NEW a \in {"accepted", "refused", "lost", "late", "settled"},
         Goes(k, a) \/ Over(k, a) \/ Late(k, a),
         attempt' = [attempt EXCEPT ![k] = a],
         raw' = raw, received \subseteq received', received' \subseteq received \cup {k},
         a = "accepted" => k \in received', NothingVanishes'
  PROVE  ComposerInv'
<1>0. attempt[k] # "none" /\ sending' \in BOOLEAN
  BY DEF Goes, Over, Late, WaitedFor, ComposerInv, SendsTyped
<1>1. /\ attempt'[k] = a /\ \A j \in Sends : j # k => attempt'[j] = attempt[j]
      /\ attempt' \in [Sends -> {"none", "sent", "accepted", "refused", "lost", "late", "settled"}]
  BY DEF ComposerInv, SendsTyped
<1>2. SendsTyped'
  BY <1>0, <1>1 DEF ComposerInv, SendsTyped, Sends, Line
<1>3. \E n \in 0..MaxSends : UsedTo(n)'
  <2>1. PICK n \in 0..MaxSends : UsedTo(n)
    BY DEF ComposerInv
  <2>2. UsedTo(n)'
    BY <1>0, <1>1, <2>1 DEF UsedTo, Sends
  <2> QED BY <2>2
<1>4. \A j \in received' : j \in Sends /\ attempt'[j] # "none"
  BY <1>0, <1>1 DEF ComposerInv, Sends
<1>5. \A j \in Sends : attempt'[j] = "accepted" => j \in received'
  BY <1>1 DEF ComposerInv, Sends
<1>6. \A j \in Sends : attempt'[j] = "none" <=> attempt[j] = "none"
  BY <1>0, <1>1
<1>7. OneAwaited'
  <2>1. CASE Over(k, a)
    <3>1. \A j \in Sends : WaitedFor(j) => j = k
      BY <2>1, ComposerAssumption DEF ComposerInv, OneAwaited, Over, WaitedFor, Sends
    <3>2. \A j \in Sends : ~WaitedFor(j)'
      BY <1>1, <2>1, <3>1 DEF Over, WaitedFor
    <3> QED BY <2>1, <3>2 DEF Over, OneAwaited, Sends
  <2>2. CASE Goes(k, a) \/ Late(k, a)
    <3>1. \A j \in Sends : WaitedFor(j)' <=> WaitedFor(j)
      BY <1>1, <2>2 DEF Goes, Late, WaitedFor
    <3>2. sending' = sending
      BY <2>2 DEF Goes, Late
    <3> QED BY <1>6, <3>1, <3>2 DEF ComposerInv, OneAwaited, Sends
  <2> QED BY <2>1, <2>2
<1> QED BY <1>2, <1>3, <1>4, <1>5, <1>7 DEF ComposerInv, Sends

\* The line changes, and no message does.
LEMMA LineChanges ==
  ASSUME ComposerInv, UNCHANGED <<sending, attempt, raw>>, NothingVanishes',
         received \subseteq received', \A k \in received' : k \in received \/ (k \in Sends /\ attempt[k] # "none")
  PROVE  ComposerInv'
<1>1. SendsTyped'
  BY DEF ComposerInv, SendsTyped, Sends, Line
<1>2. \E n \in 0..MaxSends : UsedTo(n)'
  BY DEF ComposerInv, UsedTo, Sends
<1>3. /\ \A k \in received' : k \in Sends' /\ attempt'[k] # "none"
      /\ \A k \in Sends' : attempt'[k] = "accepted" => k \in received'
  BY DEF ComposerInv, Sends
<1>4. OneAwaited'
  BY DEF ComposerInv, OneAwaited, Sends, WaitedFor
<1> QED BY <1>1, <1>2, <1>3, <1>4 DEF ComposerInv

LEMMA EntersKeeps ==
  ASSUME ComposerInv, input \in Line, NEW online \in BOOLEAN, Enters(online)
  PROVE  ComposerInv'
<1>1. CASE UNCHANGED <<sending, attempt, raw>>
  <2>1. NothingVanishes'
    BY <1>1 DEF ComposerInv, NothingVanishes, Enters
  <2> QED BY <1>1, <2>1, LineChanges DEF Enters
<1>2. CASE ~UNCHANGED <<sending, attempt, raw>>
  <2>1. PICK n \in 0..MaxSends : UsedTo(n)
    BY DEF ComposerInv
  <2>2. Used = n
    BY <2>1, UsedIs
  <2>3. /\ n < MaxSends /\ ~sending /\ sending' = TRUE /\ UNCHANGED <<input, typed, received>>
        /\ attempt' = [attempt EXCEPT ![n + 1] = "sent"] /\ raw' = [raw EXCEPT ![n + 1] = input]
    BY <1>2, <2>2 DEF Enters, MaySend
  <2>4. n + 1 \in Sends /\ attempt[n + 1] = "none" /\ n + 1 \notin received
    BY <2>1, <2>3, ComposerAssumption DEF Sends, UsedTo, ComposerInv
  <2>5. /\ attempt'[n + 1] = "sent" /\ \A j \in Sends : j # n + 1 => attempt'[j] = attempt[j] /\ raw'[j] = raw[j]
        /\ SendsTyped'
    BY <2>3, <2>4 DEF ComposerInv, SendsTyped, Sends, Line
  <2>6. NothingVanishes'
    BY <2>3, <2>4, <2>5 DEF ComposerInv, NothingVanishes
  <2>7. n + 1 \in 0..MaxSends /\ UsedTo(n + 1)'
    BY <2>1, <2>3, <2>4, <2>5, ComposerAssumption DEF UsedTo, Sends
  <2>8. /\ \A k \in received' : k \in Sends' /\ attempt'[k] # "none"
        /\ \A k \in Sends' : attempt'[k] = "accepted" => k \in received'
    BY <2>3, <2>4, <2>5 DEF ComposerInv, Sends
  <2>9. OneAwaited'
    <3>1. \A j \in Sends : WaitedFor(j)' => j = n + 1
      BY <2>3, <2>5 DEF ComposerInv, OneAwaited, WaitedFor
    <3>2. WaitedFor(n + 1)'
      BY <2>5 DEF WaitedFor
    <3>3. \A j \in Sends : j > n + 1 => attempt'[j] = "none"
      BY <2>1, <2>5, ComposerAssumption DEF UsedTo, Sends
    <3> QED BY <2>3, <2>4, <3>1, <3>2, <3>3 DEF OneAwaited, Sends
  <2> QED BY <2>3, <2>5, <2>6, <2>7, <2>8, <2>9 DEF ComposerInv, Sends
<1> QED BY <1>1, <1>2

LEMMA ComposerStart == ComposerInit => ComposerInv
<1> SUFFICES ASSUME ComposerInit PROVE ComposerInv
  OBVIOUS
<1>1. SendsTyped /\ NothingVanishes
  BY DEF ComposerInit, SendsTyped, NothingVanishes, Line
<1>2. 0 \in 0..MaxSends /\ UsedTo(0)
  BY ComposerAssumption DEF ComposerInit, UsedTo, Sends
<1> QED BY <1>1, <1>2 DEF ComposerInit, ComposerInv, OneAwaited, WaitedFor

LEMMA ComposerStep == ComposerInv /\ input \in Line /\ [ComposerNext]_composerVars => ComposerInv' /\ (input \in Line)'
<1> SUFFICES ASSUME ComposerInv, input \in Line, [ComposerNext]_composerVars PROVE ComposerInv' /\ (input \in Line)'
  OBVIOUS
<1>1. CASE UNCHANGED composerVars \/ Composes \/ \E t \in Line : Types(t)
  <2>1. /\ UNCHANGED <<sending, attempt, raw, received>> /\ input' \in Line /\ NothingVanishes'
    BY <1>1 DEF composerVars, Composes, Types, Line, ComposerInv, NothingVanishes
  <2> QED BY <2>1, LineChanges DEF Line
<1>2. CASE \E online \in BOOLEAN : Enters(online)
  BY <1>2, EntersKeeps DEF Enters, Line
<1>3. ASSUME NEW k \in Sends, ServerTakes(k) PROVE ComposerInv' /\ (input \in Line)'
  <2>1. PICK a \in {"accepted", "refused", "lost"} :
          /\ attempt' = [attempt EXCEPT ![k] = a] /\ received \subseteq received' /\ received' \subseteq received \cup {k}
          /\ a = "accepted" => k \in received'
    BY <1>3 DEF ServerTakes
  <2>2. attempt[k] = "sent" /\ UNCHANGED <<input, typed, sending, raw>>
    BY <1>3 DEF ServerTakes
  <2>3. NothingVanishes'
    BY <2>1, <2>2 DEF ComposerInv, NothingVanishes
  <2>4. Goes(k, a)
    BY <2>2 DEF Goes, WaitedFor
  <2> QED BY <2>1, <2>2, <2>3, <2>4, AttemptGoesOn DEF Line
<1>4. ASSUME NEW k \in Sends, TakenLate(k) PROVE ComposerInv' /\ (input \in Line)'
  <2>1. NothingVanishes'
    BY <1>4 DEF TakenLate, ComposerInv, NothingVanishes
  <2>2. Late(k, "settled") /\ attempt' = [attempt EXCEPT ![k] = "settled"] /\ UNCHANGED <<raw, input>>
    BY <1>4 DEF TakenLate, Late
  <2>3. received' = received \cup {k}
    BY <1>4 DEF TakenLate
  <2> QED BY <2>1, <2>2, <2>3, AttemptGoesOn DEF Line
<1>5. ASSUME NEW k \in Sends, AckArrives(k) \/ TimesOut(k) PROVE ComposerInv' /\ (input \in Line)'
  <2>1. PICK reason \in {"none", "rate_limit", "failed"}, a \in {"late", "settled"} :
          Finishes(k, reason, a) /\ WaitedFor(k) /\ (reason = "none" => attempt[k] = "accepted")
    BY <1>5 DEF AckArrives, TimesOut, WaitedFor, GivenUp
  <2>2. /\ attempt' = [attempt EXCEPT ![k] = a] /\ sending' = FALSE /\ UNCHANGED <<typed, raw, received>>
        /\ input' = input \/ (attempt[k] = "accepted" /\ input = raw[k] /\ input' = Blank)
    BY <2>1 DEF Finishes, Cleared
  <2>3. attempt[k] = "accepted" => k \in received
    BY DEF ComposerInv
  <2>4. NothingVanishes'
    BY <2>2, <2>3 DEF ComposerInv, NothingVanishes
  <2>5. Over(k, a)
    BY <2>1, <2>2 DEF Over
  <2>6. ComposerInv'
    BY <2>2, <2>4, <2>5, AttemptGoesOn
  <2> QED BY <2>2, <2>6 DEF Line
<1> QED BY <1>1, <1>2, <1>3, <1>4, <1>5 DEF ComposerNext

\* What the user wrote stands in the line until the server has it; the line waits for one
\* send at a time, the newest, and gives an older one up before: for any messages and
\* whatever of them or of the answers is lost, late, or taken late (useChatComposer.js).
THEOREM LineIsKept == ComposerSpec => [](NothingVanishes /\ OneAwaited)
<1>1. ComposerInit => ComposerInv /\ input \in Line
  BY ComposerStart DEF ComposerInit, Line
<1>2. ComposerInv => NothingVanishes /\ OneAwaited
  BY DEF ComposerInv
<1> QED BY <1>1, <1>2, ComposerStep, PTL DEF ComposerSpec

-----------------------------------------------------------------------------
(* The march time of the user.                                             *)

MarchSpec == MarchInit /\ [][MarchNext]_marchVars

Requests == [kind : {"load", "save"}, mount : Nat, value : Values, done : BOOLEAN]
Panels == [on : BOOLEAN, shows : Values, loading : BOOLEAN, saving : BOOLEAN]

MarchTyped ==
  /\ saved \in Values /\ myMarch \in Values /\ kept \in Values
  /\ mount \in Nat /\ panel \in Panels /\ request \subseteq Requests /\ crossed \in BOOLEAN
  /\ \A r \in request : r.mount <= mount

\* The panel that stands waits for what it has asked, and for nothing else.
PanelWaits ==
  panel.on =>
    /\ panel.loading <=> \E r \in request : r.kind = "load" /\ r.mount = mount
    /\ panel.saving <=> \E r \in request : r.kind = "save"
    /\ ~(panel.loading /\ panel.saving)

\* One load of a mount, and one save, of the last mount.
OneAtATime ==
  /\ \A r, q \in request : r.kind = "load" /\ q.kind = "load" /\ r.mount = q.mount => r = q
  /\ \A r, q \in request : r.kind = "save" /\ q.kind = "save" => r = q
  /\ \A r \in request : r.kind = "save" => r.mount = mount

\* What the server has, or this device for it, is in the panel and in the store, or in the
\* save that the server has done.
ServerKnown ==
  /\ \A r \in request : r.kind = "save" /\ r.done => r.value = saved
  /\ panel.on => \A r \in request : r.kind = "load" /\ r.mount = mount /\ r.done => r.value = saved
  /\ panel.on /\ ~panel.loading =>
        \/ panel.shows = Adopted(saved) /\ myMarch = Adopted(saved)
        \/ \E r \in request : r.kind = "save" /\ r.done

MarchInv == MarchTyped /\ (crossed \/ (PanelWaits /\ OneAtATime /\ ServerKnown))

LEMMA MarchStart == MarchInit => MarchInv
<1> SUFFICES ASSUME MarchInit PROVE MarchInv
  OBVIOUS
<1>1. NoPanel \in Panels /\ ~NoPanel.on
  BY DEF NoPanel, Panels, Values
<1>2. MarchTyped
  BY <1>1 DEF MarchInit, MarchTyped, Values
<1>3. PanelWaits /\ OneAtATime /\ ServerKnown
  BY <1>1 DEF MarchInit, PanelWaits, OneAtATime, ServerKnown
<1> QED BY <1>2, <1>3 DEF MarchInv

\* What a step asks for.
LEMMA RequestMade ==
  ASSUME NEW what \in {"load", "save"}, NEW n \in Nat, NEW v \in Values, Asks(what, n, v)
  PROVE  \E q \in Requests : /\ request' = request \cup {q}
                             /\ q.kind = what /\ q.mount = n /\ q.value = v /\ ~q.done
<1>1. PICK q : q = [kind |-> what, mount |-> n, value |-> v, done |-> FALSE]
  OBVIOUS
<1>2. q \in Requests /\ q.kind = what /\ q.mount = n /\ q.value = v /\ ~q.done
  BY <1>1 DEF Requests
<1> QED BY <1>1, <1>2 DEF Asks

\* What the server makes of a request.
LEMMA RequestServed ==
  ASSUME MarchTyped, NEW r \in request, NEW v \in Values, Carried(r, v)
  PROVE  \E q \in Requests : /\ request' = (request \ {r}) \cup {q}
                             /\ q.kind = r.kind /\ q.mount = r.mount /\ q.value = v /\ q.done
<1>1. PICK q : q = [r EXCEPT !.value = v, !.done = TRUE]
  OBVIOUS
<1>2. q \in Requests /\ q.kind = r.kind /\ q.mount = r.mount /\ q.value = v /\ q.done
  BY <1>1 DEF MarchTyped, Requests
<1> QED BY <1>1, <1>2 DEF Carried

LEMMA MarchTypedStep == MarchTyped /\ [MarchNext]_marchVars => MarchTyped'
<1> SUFFICES ASSUME MarchTyped, [MarchNext]_marchVars PROVE MarchTyped'
  OBVIOUS
<1>1. CASE UNCHANGED marchVars
  BY <1>1 DEF MarchTyped, marchVars
<1>2. CASE Mounts
  <2>1. NoPanel \in Panels /\ [NoPanel EXCEPT !.on = TRUE, !.loading = TRUE] \in Panels
    BY DEF NoPanel, Panels, Values
  <2>2. mount + 1 \in Nat /\ Unset \in Values /\ Asks("load", mount + 1, Unset)
    BY <1>2 DEF Mounts, MarchTyped, Values
  <2>3. PICK q \in Requests : request' = request \cup {q} /\ q.mount = mount + 1
    BY <2>2, RequestMade
  <2>4. crossed' \in BOOLEAN
    BY <1>2 DEF Mounts, MarchTyped
  <2>5. \A r \in request' : r.mount <= mount + 1
    BY <2>3 DEF MarchTyped, Requests
  <2> QED BY <1>2, <2>1, <2>2, <2>3, <2>4, <2>5 DEF MarchTyped, Mounts
<1>3. CASE Unmounts
  BY <1>3 DEF MarchTyped, Unmounts, NoPanel, Panels, Values
<1>4. ASSUME NEW v \in Values, Saves(v) PROVE MarchTyped'
  <2>1. PICK q \in Requests : request' = request \cup {q} /\ q.mount = mount
    BY <1>4, RequestMade DEF Saves, MarchTyped
  <2>2. panel' \in Panels
    BY <1>4 DEF MarchTyped, Saves, Panels
  <2> QED BY <1>4, <2>1, <2>2 DEF MarchTyped, Saves
<1>5. ASSUME NEW r \in request, NEW v \in Values, Carried(r, v) PROVE request' \subseteq Requests /\ \A q \in request' : q.mount <= mount
  BY <1>5, RequestServed DEF MarchTyped
<1>6. ASSUME NEW r \in request, ServerReads(r) \/ ServerWrites(r) PROVE MarchTyped'
  <2>1. r.value \in Values
    BY DEF MarchTyped, Requests
  <2> QED BY <1>5, <1>6, <2>1 DEF MarchTyped, ServerReads, ServerWrites
<1>7. ASSUME NEW r \in request, NEW v \in Values, Loaded(r, v), crossed' \in BOOLEAN PROVE MarchTyped'
  <2>1. Adopted(v) \in Values
    BY DEF Adopted, MarchTyped
  <2>2. [panel EXCEPT !.shows = Adopted(v), !.loading = FALSE] \in Panels
    BY <2>1 DEF MarchTyped, Panels
  <2> QED BY <1>7, <2>1, <2>2 DEF MarchTyped, Loaded
<1>8. ASSUME NEW r \in request, LoadArrives(r) \/ LoadFails(r) PROVE MarchTyped'
  <2>1. r.value \in Values /\ Unset \in Values
    BY DEF MarchTyped, Requests, Values
  <2> QED BY <1>7, <1>8, <2>1 DEF MarchTyped, LoadArrives, LoadFails
<1>9. ASSUME NEW r \in request, SaveArrives(r) \/ SaveFails(r) PROVE MarchTyped'
  <2>1. r.value \in Values /\ panel.shows \in Values /\ r.done \in BOOLEAN
    BY DEF MarchTyped, Requests, Panels
  <2>2. \A v \in Values : [panel EXCEPT !.saving = FALSE, !.shows = v] \in Panels
    BY DEF MarchTyped, Panels
  <2> QED BY <1>9, <2>1, <2>2, Zenon DEF MarchTyped, SaveArrives, SaveFails, Waiting, Stored
<1>10. ASSUME NEW v \in Values, SavedElsewhere(v) PROVE MarchTyped'
  BY <1>10 DEF MarchTyped, SavedElsewhere
<1> QED BY <1>1, <1>2, <1>3, <1>4, <1>6, <1>8, <1>9, <1>10 DEF MarchNext

LEMMA MarchStep == MarchInv /\ [MarchNext]_marchVars => MarchInv'
<1> SUFFICES ASSUME MarchInv, [MarchNext]_marchVars PROVE MarchInv'
  OBVIOUS
<1>t. MarchTyped /\ MarchTyped'
  BY MarchTypedStep DEF MarchInv
<1>c. crossed => crossed'
  <2>1. crossed \in BOOLEAN /\ crossed' \in BOOLEAN
    BY <1>t DEF MarchTyped
  <2> QED BY <2>1 DEF MarchNext, marchVars, Mounts, Unmounts, Saves, SavedElsewhere,
       ServerReads, ServerWrites, LoadArrives, LoadFails, SaveArrives, SaveFails
<1> SUFFICES ASSUME ~crossed' PROVE (PanelWaits /\ OneAtATime /\ ServerKnown)'
  BY <1>t DEF MarchInv
<1>o. ~crossed /\ PanelWaits /\ OneAtATime /\ ServerKnown
  BY <1>c DEF MarchInv
<1>p. panel \in Panels /\ \A r \in request : r.mount \in Nat /\ r.mount <= mount /\ r.value \in Values /\ r.kind \in {"load", "save"} /\ r.done \in BOOLEAN
  BY <1>t DEF MarchTyped, Requests
<1>1. CASE UNCHANGED marchVars
  BY <1>1, <1>o DEF PanelWaits, OneAtATime, ServerKnown, Adopted, marchVars
<1>2. CASE Mounts
  <2>0. mount + 1 \in Nat /\ Unset \in Values /\ Asks("load", mount + 1, Unset)
    BY <1>2, <1>t DEF Mounts, MarchTyped, Values
  <2>1. PICK q \in Requests : request' = request \cup {q} /\ q.kind = "load" /\ q.mount = mount + 1 /\ ~q.done
    BY <2>0, RequestMade
  <2>2. \A r \in request : r.kind # "save" /\ r.mount # mount + 1
    <3>1. \A r \in request : r.kind # "save"
      BY <1>2 DEF Mounts
    <3>2. \A r \in request : r.mount # mount + 1
      BY <1>p, <1>t DEF MarchTyped
    <3> QED BY <3>1, <3>2
  <2>3. UNCHANGED <<saved, myMarch, kept>> /\ mount' = mount + 1 /\ panel'.on /\ panel'.loading /\ ~panel'.saving
    BY <1>2 DEF Mounts, NoPanel
  <2>4. PanelWaits'
    BY <2>1, <2>2, <2>3 DEF PanelWaits
  <2>5. OneAtATime'
    BY <1>o, <2>1, <2>2 DEF OneAtATime
  <2>6. ServerKnown'
    BY <1>o, <2>1, <2>2, <2>3 DEF ServerKnown, Adopted
  <2> QED BY <2>4, <2>5, <2>6
<1>3. CASE Unmounts
  <2>1. UNCHANGED <<saved, myMarch, kept, mount, request>> /\ ~panel'.on
    BY <1>3 DEF Unmounts, NoPanel
  <2> QED BY <1>o, <2>1 DEF PanelWaits, OneAtATime, ServerKnown, Adopted
<1>4. ASSUME NEW v \in Values, Saves(v) PROVE (PanelWaits /\ OneAtATime /\ ServerKnown)'
  <2>1. PICK q \in Requests : request' = request \cup {q} /\ q.kind = "save" /\ ~q.done /\ q.mount = mount
    BY <1>4, <1>t, RequestMade DEF Saves, MarchTyped
  <2>2. panel.on /\ ~panel.loading /\ ~panel.saving /\ UNCHANGED <<saved, myMarch, kept, mount>>
    BY <1>4 DEF Saves
  <2>3. panel'.on /\ ~panel'.loading /\ panel'.saving /\ panel'.shows = panel.shows
    BY <1>4, <1>p DEF Saves, Panels
  <2>4. \A r \in request : r.kind # "save"
    BY <1>o, <2>2 DEF PanelWaits
  <2>5. PanelWaits'
    BY <1>o, <2>1, <2>2, <2>3 DEF PanelWaits
  <2>6. OneAtATime'
    BY <1>o, <2>1, <2>2, <2>4 DEF OneAtATime
  <2>7. ServerKnown'
    BY <1>o, <2>1, <2>2, <2>3, <2>4 DEF ServerKnown, Adopted
  <2> QED BY <2>5, <2>6, <2>7
<1>5. ASSUME NEW r \in request, ServerReads(r) PROVE (PanelWaits /\ OneAtATime /\ ServerKnown)'
  <2>1. PICK q \in Requests : /\ request' = (request \ {r}) \cup {q} /\ r.kind = "load"
                              /\ q.kind = "load" /\ q.mount = r.mount /\ q.value = saved /\ q.done
    BY <1>5, <1>t, RequestServed DEF ServerReads, MarchTyped
  <2>2. UNCHANGED <<saved, myMarch, kept, mount, panel>>
    BY <1>5 DEF ServerReads
  <2>3. PanelWaits'
    BY <1>o, <2>1, <2>2 DEF PanelWaits
  <2>4. OneAtATime'
    BY <1>o, <2>1, <2>2 DEF OneAtATime
  <2>5. ServerKnown'
    BY <1>o, <2>1, <2>2 DEF ServerKnown, Adopted
  <2> QED BY <2>3, <2>4, <2>5
<1>6. ASSUME NEW r \in request, ServerWrites(r) PROVE (PanelWaits /\ OneAtATime /\ ServerKnown)'
  <2>1. PICK q \in Requests : /\ request' = (request \ {r}) \cup {q} /\ r.kind = "save" /\ saved' = r.value
                              /\ q.kind = "save" /\ q.mount = r.mount /\ q.value = r.value /\ q.done
    BY <1>6, <1>t, <1>p, RequestServed DEF ServerWrites
  <2>2. UNCHANGED <<myMarch, kept, mount, panel>>
    BY <1>6 DEF ServerWrites
  <2>3. PanelWaits'
    BY <1>o, <2>1, <2>2 DEF PanelWaits
  <2>4. OneAtATime'
    BY <1>o, <2>1, <2>2 DEF OneAtATime
  <2>5. \A s \in request' : s.kind = "save" => s = q
    BY <1>o, <2>1 DEF OneAtATime
  <2>6. panel.on => ~panel.loading
    BY <1>o, <2>1 DEF PanelWaits
  <2>7. panel.on => \A s \in request' : s.kind # "load" \/ s.mount # mount
    BY <1>o, <2>1, <2>6 DEF PanelWaits
  <2>8. ServerKnown'
    BY <2>1, <2>2, <2>5, <2>7 DEF ServerKnown, Adopted
  <2> QED BY <2>3, <2>4, <2>8
<1>7. ASSUME NEW r \in request, LoadArrives(r) PROVE (PanelWaits /\ OneAtATime /\ ServerKnown)'
  <2>1. /\ request' = request \ {r} /\ r.kind = "load" /\ r.done /\ UNCHANGED <<saved, kept, mount>>
        /\ IF Awaited(r)
           THEN /\ myMarch' = Adopted(r.value)
                /\ panel' = [panel EXCEPT !.shows = Adopted(r.value), !.loading = FALSE]
           ELSE UNCHANGED <<myMarch, panel>>
    BY <1>7 DEF LoadArrives, Loaded
  <2>2. OneAtATime'
    BY <1>o, <2>1 DEF OneAtATime
  <2>3. CASE ~Awaited(r)
    <3>1. UNCHANGED <<myMarch, panel>> /\ (panel.on => r.mount # mount)
      BY <2>1, <2>3 DEF Awaited
    <3>2. PanelWaits'
      BY <1>o, <2>1, <3>1 DEF PanelWaits
    <3>3. ServerKnown'
      BY <1>o, <2>1, <3>1 DEF ServerKnown, Adopted
    <3> QED BY <2>2, <3>2, <3>3
  <2>4. CASE Awaited(r)
    <3>1. panel.on /\ r.mount = mount /\ panel.loading
      BY <1>o, <2>1, <2>4 DEF Awaited, PanelWaits
    <3>2. ~panel.saving /\ \A s \in request : s.kind # "save"
      BY <1>o, <3>1 DEF PanelWaits
    <3>3. r.value = saved
      BY <1>o, <2>1, <3>1, <3>2 DEF ServerKnown
    <3>4. myMarch' = Adopted(saved) /\ panel'.on /\ panel'.shows = Adopted(saved) /\ ~panel'.loading /\ ~panel'.saving
      BY <1>p, <2>1, <2>4, <3>1, <3>2, <3>3 DEF Panels
    <3>5. \A s \in request' : s.kind # "load" \/ s.mount # mount
      BY <1>o, <2>1, <3>1 DEF OneAtATime
    <3>6. PanelWaits'
      BY <2>1, <3>2, <3>4, <3>5 DEF PanelWaits
    <3>7. ServerKnown'
      BY <2>1, <3>2, <3>3, <3>4, <3>5 DEF ServerKnown, Adopted
    <3> QED BY <2>2, <3>6, <3>7
  <2> QED BY <2>3, <2>4
<1>8. ASSUME NEW r \in request, SaveArrives(r) PROVE (PanelWaits /\ OneAtATime /\ ServerKnown)'
  <2>1. /\ request' = request \ {r} /\ r.kind = "save" /\ r.done /\ UNCHANGED <<saved, mount>>
        /\ myMarch' = r.value /\ kept' = r.value
        /\ panel' = IF Awaited(r) THEN [panel EXCEPT !.saving = FALSE, !.shows = r.value] ELSE panel
    BY <1>8 DEF SaveArrives, Stored, Waiting
  <2>2. r.value = saved /\ r.mount = mount /\ \A s \in request' : s.kind # "save"
    BY <1>o, <2>1 DEF OneAtATime, ServerKnown
  <2>3. panel.on => panel.saving /\ ~panel.loading
    BY <1>o, <2>1 DEF PanelWaits
  <2>4. /\ panel'.on <=> panel.on
        /\ panel.on => ~panel'.saving /\ ~panel'.loading /\ panel'.shows = saved
    BY <1>p, <2>1, <2>2, <2>3 DEF Awaited, Panels
  <2>5. PanelWaits'
    BY <1>o, <2>1, <2>2, <2>3, <2>4 DEF PanelWaits
  <2>6. OneAtATime'
    BY <1>o, <2>1 DEF OneAtATime
  <2>7. panel.on => \A s \in request' : s.kind # "load" \/ s.mount # mount
    BY <1>o, <2>1, <2>3 DEF PanelWaits
  <2>8. Adopted(saved)' = saved
    BY <2>1, <2>2 DEF Adopted
  <2>9. ServerKnown'
    BY <2>1, <2>2, <2>4, <2>7, <2>8 DEF ServerKnown
  <2> QED BY <2>5, <2>6, <2>9
<1>9. ASSUME NEW r \in request, SaveFails(r) PROVE (PanelWaits /\ OneAtATime /\ ServerKnown)'
  <2>1. /\ request' = request \ {r} /\ r.kind = "save" /\ ~r.done /\ UNCHANGED <<saved, mount, myMarch, kept>>
        /\ panel' = IF Awaited(r) THEN [panel EXCEPT !.saving = FALSE, !.shows = panel.shows] ELSE panel
    BY <1>9, <1>o, <1>p DEF SaveFails, Waiting
  <2>2. r.mount = mount /\ \A s \in request : s.kind = "save" => s = r
    BY <1>o, <2>1 DEF OneAtATime
  <2>3. panel.on => panel.saving /\ ~panel.loading
    BY <1>o, <2>1 DEF PanelWaits
  <2>4. /\ panel'.on <=> panel.on
        /\ panel.on => ~panel'.saving /\ ~panel'.loading /\ panel'.shows = panel.shows
    BY <1>p, <2>1, <2>2, <2>3 DEF Awaited, Panels
  <2>5. PanelWaits'
    BY <1>o, <2>1, <2>2, <2>3, <2>4 DEF PanelWaits
  <2>6. OneAtATime'
    BY <1>o, <2>1 DEF OneAtATime
  <2>7. panel.on => panel.shows = Adopted(saved) /\ myMarch = Adopted(saved)
    BY <1>o, <2>1, <2>2, <2>3 DEF ServerKnown
  <2>8. ServerKnown'
    BY <1>o, <2>1, <2>2, <2>4, <2>7 DEF ServerKnown, Adopted
  <2> QED BY <2>5, <2>6, <2>8
<1>10. ASSUME NEW v \in Values, SavedElsewhere(v) PROVE (PanelWaits /\ OneAtATime /\ ServerKnown)'
  <2>1. request = {} /\ ~panel.on /\ UNCHANGED <<mount, panel, request>>
    BY <1>10, <1>p DEF SavedElsewhere, Panels
  <2> QED BY <2>1 DEF PanelWaits, OneAtATime, ServerKnown
<1> QED BY <1>1, <1>2, <1>3, <1>4, <1>5, <1>6, <1>7, <1>8, <1>9, <1>10 DEF MarchNext, LoadFails

LEMMA InvMarchAgrees == MarchInv => MarchAgrees
<1> SUFFICES ASSUME MarchInv, panel.on, request = {}, ~crossed
             PROVE  myMarch = Adopted(saved) /\ panel.shows = Adopted(saved) /\ ~panel.loading /\ ~panel.saving
  BY DEF MarchAgrees
<1>1. ~panel.loading /\ ~panel.saving
  BY DEF MarchInv, PanelWaits
<1> QED BY <1>1 DEF MarchInv, ServerKnown

\* When nothing is under way the store and the panel have the march time of the server, or
\* without one that of this device, whatever either held before, was saved elsewhere while
\* the panel was gone, or came late to a panel that had gone (PersonalPanel.jsx).
THEOREM MarchIsSound == MarchSpec => []MarchAgrees
BY MarchStart, MarchStep, InvMarchAgrees, PTL DEF MarchSpec

-----------------------------------------------------------------------------
(* The page of a board.                                                    *)

TranslationSpec == BoardPageInit /\ [][TranslationNext]_translationVars
FormSpec == BoardPageInit /\ [][FormNext]_formVars

AsksOf(p) == {a \in asks : a.post = p}

\* A text that is under way has not come yet and did not fail; it is one, and unless the
\* language was switched it is asked for in the language of the page.
TranslationInv ==
  /\ translations \in [Posts -> Languages \cup {NoLanguage}]
  /\ translating \in [Posts -> BOOLEAN] /\ translateFailed \in [Posts -> BOOLEAN]
  /\ asks \subseteq [post : Posts, lang : Languages] /\ lang \in Languages
  /\ \A p \in Posts :
       /\ IF translating[p] THEN \E a \in asks : AsksOf(p) = {a} ELSE AsksOf(p) = {}
       /\ switched \/ translations[p] \in {NoLanguage, lang}
       /\ translating[p] \/ translateFailed[p] => translations[p] = NoLanguage
       /\ ~(translating[p] /\ translateFailed[p])
  /\ switched \/ \A a \in asks : a.lang = lang

LEMMA TranslationStart == BoardPageInit => TranslationInv
BY BoardPageAssumption DEF BoardPageInit, TranslationInv, AsksOf

LEMMA TranslationStep == TranslationInv /\ [TranslationNext]_translationVars => TranslationInv'
<1> SUFFICES ASSUME TranslationInv, [TranslationNext]_translationVars PROVE TranslationInv'
  OBVIOUS
<1>1. CASE UNCHANGED translationVars
  BY <1>1 DEF TranslationInv, translationVars, AsksOf
<1>2. CASE SwitchesLanguage
  <2>1. /\ translations' = [p \in Posts |-> NoLanguage] /\ translateFailed' = [p \in Posts |-> FALSE]
        /\ UNCHANGED <<translating, asks>> /\ lang' \in Languages /\ switched' = (switched \/ asks # {})
    BY <1>2 DEF SwitchesLanguage, Reset
  <2>2. \A p \in Posts : AsksOf(p)' = AsksOf(p)
    BY <2>1 DEF AsksOf
  <2> QED BY <2>1, <2>2 DEF TranslationInv
<1>3. ASSUME NEW p \in Posts, AsksTranslation(p) PROVE TranslationInv'
  <2>1. PICK a : a = [post |-> p, lang |-> lang]
    OBVIOUS
  <2>2. a \in [post : Posts, lang : Languages] /\ a.post = p /\ a.lang = lang
    BY <2>1 DEF TranslationInv
  <2>3. /\ translations[p] = NoLanguage /\ ~translating[p] /\ asks' = asks \cup {a}
        /\ translating' = [translating EXCEPT ![p] = TRUE]
        /\ translateFailed' = [translateFailed EXCEPT ![p] = FALSE]
        /\ UNCHANGED <<lang, translations, switched>>
    BY <1>3, <2>1 DEF AsksTranslation, MayAsk
  <2>4. /\ translating' \in [Posts -> BOOLEAN] /\ translating'[p] /\ translateFailed' \in [Posts -> BOOLEAN]
        /\ \A q \in Posts : q # p => translating'[q] = translating[q] /\ translateFailed'[q] = translateFailed[q]
    BY <2>3 DEF TranslationInv
  <2>5. AsksOf(p)' = {a} /\ \A q \in Posts : q # p => AsksOf(q)' = AsksOf(q)
    BY <2>2, <2>3 DEF TranslationInv, AsksOf
  <2> QED BY <2>2, <2>3, <2>4, <2>5 DEF TranslationInv
<1>4. ASSUME NEW a \in asks, NEW text \in BOOLEAN, TranslationArrives(a, text) PROVE TranslationInv'
  <2>1. PICK p \in Posts, l \in Languages : a.post = p /\ a.lang = l
    BY DEF TranslationInv
  <2>2. AsksOf(p) = {a} /\ translating[p] /\ translations[p] = NoLanguage /\ (switched \/ l = lang)
    BY <2>1 DEF TranslationInv, AsksOf
  <2>3. /\ asks' = asks \ {a} /\ translating' = [translating EXCEPT ![p] = FALSE]
        /\ translations' = IF text THEN [translations EXCEPT ![p] = l] ELSE translations
        /\ translateFailed' = IF text THEN translateFailed ELSE [translateFailed EXCEPT ![p] = TRUE]
        /\ UNCHANGED <<lang, switched>>
    BY <1>4, <2>1 DEF TranslationArrives
  <2>4. AsksOf(p)' = {} /\ \A q \in Posts : q # p => AsksOf(q)' = AsksOf(q)
    BY <2>1, <2>2, <2>3 DEF AsksOf
  <2>5. /\ translating' \in [Posts -> BOOLEAN] /\ ~translating'[p]
        /\ \A q \in Posts : q # p => translating'[q] = translating[q]
    BY <2>3 DEF TranslationInv
  <2>6. /\ translations' \in [Posts -> Languages \cup {NoLanguage}] /\ translateFailed' \in [Posts -> BOOLEAN]
        /\ \A q \in Posts : q # p => translations'[q] = translations[q] /\ translateFailed'[q] = translateFailed[q]
        /\ IF text THEN translations'[p] = l /\ translateFailed'[p] = translateFailed[p]
                   ELSE translations'[p] = NoLanguage
    BY <2>2, <2>3 DEF TranslationInv
  <2>7. text => ~translateFailed[p]
    BY <2>2 DEF TranslationInv
  <2>8. \A q \in Posts : /\ switched' \/ translations'[q] \in {NoLanguage, lang'}
                         /\ translating'[q] \/ translateFailed'[q] => translations'[q] = NoLanguage
                         /\ ~(translating'[q] /\ translateFailed'[q])
    <3>1. ASSUME NEW q \in Posts, q # p
          PROVE  /\ switched' \/ translations'[q] \in {NoLanguage, lang'}
                 /\ translating'[q] \/ translateFailed'[q] => translations'[q] = NoLanguage
                 /\ ~(translating'[q] /\ translateFailed'[q])
      BY <2>3, <2>5, <2>6, <3>1 DEF TranslationInv
    <3>2. /\ switched' \/ translations'[p] \in {NoLanguage, lang'}
          /\ translating'[p] \/ translateFailed'[p] => translations'[p] = NoLanguage
          /\ ~(translating'[p] /\ translateFailed'[p])
      BY <2>2, <2>3, <2>5, <2>6, <2>7
    <3> QED BY <3>1, <3>2
  <2>9. \A q \in Posts : IF translating'[q] THEN \E x \in asks' : AsksOf(q)' = {x} ELSE AsksOf(q)' = {}
    <3>1. ASSUME NEW q \in Posts, q # p, translating[q] PROVE \E x \in asks' : AsksOf(q)' = {x}
      <4>1. PICK x \in asks : AsksOf(q) = {x}
        BY <3>1 DEF TranslationInv
      <4>2. x \in asks'
        BY <2>1, <2>3, <3>1, <4>1 DEF AsksOf
      <4> QED BY <2>4, <3>1, <4>1, <4>2
    <3> QED BY <2>4, <2>5, <3>1 DEF TranslationInv
  <2>10. asks' \subseteq [post : Posts, lang : Languages] /\ (switched' \/ \A x \in asks' : x.lang = lang')
    BY <2>3 DEF TranslationInv
  <2> QED BY <2>3, <2>5, <2>6, <2>8, <2>9, <2>10 DEF TranslationInv
<1> QED BY <1>1, <1>2, <1>3, <1>4 DEF TranslationNext

LEMMA InvInItsLanguage == TranslationInv => InItsLanguage
<1> SUFFICES ASSUME TranslationInv PROVE InItsLanguage
  OBVIOUS
<1>1. ASSUME NEW p \in Posts PROVE Cardinality(AsksOf(p)) = IF translating[p] THEN 1 ELSE 0
  BY FS_EmptySet, FS_Singleton DEF TranslationInv
<1> QED BY <1>1 DEF InItsLanguage, TranslationInv, AsksOf

-----------------------------------------------------------------------------
(* The form.                                                               *)

PostStages == {"sent", "accepted", "done", "refused", "lost"}
Drafts == [n : Nat, text : Texts \cup {NoText}, pictures : SUBSET Nat, stage : PostStages]

\* Pictures of posts that are stored, texts of posts that have emptied the form.
StoredPictures == UNION {k.pictures : k \in {j \in attempts : j.stage \in {"accepted", "lost", "done"}}}
Emptied == {k.text : k \in {j \in attempts : j.stage = "done"}}
InFlight == {k \in attempts : k.stage \in {"sent", "accepted"}}

\* Unless the form has been changed meanwhile a post under way has what stands to be kept.
FormInv ==
  /\ content \in Texts \cup {NoText} /\ written \in Texts \cup {NoText}
  /\ imageUrls \subseteq Nat /\ IsFiniteSet(imageUrls) /\ changes \in Nat /\ overtaken \in BOOLEAN
  /\ IsFiniteSet(attempts) /\ attempts \subseteq Drafts
  /\ Cardinality(imageUrls) <= MaxPictures
  /\ uploadingImg => Cardinality(imageUrls) < MaxPictures
  /\ \A k \in attempts : Cardinality(k.pictures) <= MaxPictures
  /\ overtaken \/ content = written \/ (content = NoText /\ written \in Emptied)
  /\ overtaken \/ chosen \subseteq imageUrls \cup StoredPictures
  /\ overtaken \/ \A k \in InFlight : k.text = written /\ chosen \subseteq k.pictures \cup StoredPictures

LEMMA FormStart == BoardPageInit => FormInv
<1> SUFFICES ASSUME BoardPageInit PROVE FormInv
  OBVIOUS
<1>1. Cardinality({}) = 0 /\ IsFiniteSet({}) /\ MaxPictures \in Nat
  BY FS_EmptySet, BoardPageAssumption
<1>2. /\ content = NoText /\ written = NoText /\ imageUrls = {} /\ changes = 0 /\ overtaken = FALSE
      /\ attempts = {} /\ uploadingImg = FALSE /\ chosen = {}
  BY DEF BoardPageInit
<1>3. InFlight = {} /\ chosen \subseteq imageUrls \cup StoredPictures
  BY <1>2 DEF InFlight
<1>4. /\ content \in Texts \cup {NoText} /\ written \in Texts \cup {NoText}
      /\ imageUrls \subseteq Nat /\ IsFiniteSet(imageUrls) /\ changes \in Nat /\ overtaken \in BOOLEAN
      /\ IsFiniteSet(attempts) /\ attempts \subseteq Drafts
  BY <1>1, <1>2
<1>5. /\ Cardinality(imageUrls) <= MaxPictures
      /\ ~uploadingImg
      /\ \A k \in attempts : Cardinality(k.pictures) <= MaxPictures
      /\ content = written
  BY <1>1, <1>2
<1>6. \A k \in InFlight : k.text = written /\ chosen \subseteq k.pictures \cup StoredPictures
  BY <1>3
<1> QED BY <1>3, <1>4, <1>5, <1>6 DEF FormInv

\* A post goes from one stage to the next.
LEMMA PostMoves ==
  ASSUME FormInv, NEW k \in attempts, NEW stage \in PostStages, Moved(k, stage)
  PROVE  /\ IsFiniteSet(attempts') /\ attempts' \subseteq Drafts
         /\ \A j \in attempts' : Cardinality(j.pictures) <= MaxPictures
         /\ \A j \in attempts' : j \in attempts \/ (j.text = k.text /\ j.pictures = k.pictures /\ j.stage = stage)
         /\ \E j \in attempts' : j.text = k.text /\ j.pictures = k.pictures /\ j.stage = stage
         /\ \A j \in attempts : j = k \/ j \in attempts'
<1>1. PICK m : m = [k EXCEPT !.stage = stage]
  OBVIOUS
<1>2. m \in Drafts /\ m.text = k.text /\ m.pictures = k.pictures /\ m.stage = stage
  BY <1>1 DEF FormInv, Drafts
<1>3. attempts' = (attempts \ {k}) \cup {m}
  BY <1>1 DEF Moved
<1>4. IsFiniteSet(attempts')
  <2>1. IsFiniteSet(attempts \ {k})
    BY FS_RemoveElement DEF FormInv
  <2> QED BY <1>3, <2>1, FS_AddElement
<1> QED BY <1>2, <1>3, <1>4 DEF FormInv

\* What the properties of the page say of pictures and texts that are kept.
LEMMA KeptMoves ==
  ASSUME FormInv, NEW k \in attempts, NEW stage \in PostStages, Moved(k, stage)
  PROVE  /\ {k.stage, stage} \subseteq {"accepted", "lost", "done"} => StoredPictures \subseteq StoredPictures'
         /\ k.stage \notin {"accepted", "lost", "done"} => StoredPictures \subseteq StoredPictures'
         /\ stage \in {"accepted", "lost", "done"} => k.pictures \subseteq StoredPictures'
         /\ k.stage # "done" => Emptied \subseteq Emptied'
         /\ stage = "done" => k.text \in Emptied'
         /\ \A j \in InFlight' : j \in InFlight \/ (j.text = k.text /\ j.pictures = k.pictures /\ j.stage = stage)
<1>1. PICK m \in attempts' : m.text = k.text /\ m.pictures = k.pictures /\ m.stage = stage
  BY PostMoves
<1>2. \A j \in attempts : j = k \/ j \in attempts'
  BY PostMoves
<1>3. \A x : x \in StoredPictures <=> \E j \in attempts : j.stage \in {"accepted", "lost", "done"} /\ x \in j.pictures
  BY DEF StoredPictures
<1>4. \A x : x \in StoredPictures' <=> \E j \in attempts' : j.stage \in {"accepted", "lost", "done"} /\ x \in j.pictures
  BY DEF StoredPictures
<1>5. /\ {k.stage, stage} \subseteq {"accepted", "lost", "done"} => StoredPictures \subseteq StoredPictures'
      /\ k.stage \notin {"accepted", "lost", "done"} => StoredPictures \subseteq StoredPictures'
      /\ stage \in {"accepted", "lost", "done"} => k.pictures \subseteq StoredPictures'
  BY <1>1, <1>2, <1>3, <1>4
<1>6. k.stage # "done" => Emptied \subseteq Emptied'
  BY <1>2 DEF Emptied
<1>7. stage = "done" => k.text \in Emptied'
  BY <1>1 DEF Emptied
<1>8. \A j \in InFlight' : j \in InFlight \/ (j.text = k.text /\ j.pictures = k.pictures /\ j.stage = stage)
  BY PostMoves DEF InFlight
<1> QED BY <1>5, <1>6, <1>7, <1>8

LEMMA FormStep == FormInv /\ [FormNext]_formVars => FormInv'
<1> SUFFICES ASSUME FormInv, [FormNext]_formVars PROVE FormInv'
  OBVIOUS
<1> USE BoardPageAssumption
<1>1. CASE UNCHANGED formVars
  BY <1>1 DEF FormInv, formVars, InFlight, StoredPictures, Emptied
<1>2. CASE Chooses
  BY <1>2 DEF FormInv, Chooses, MayChoose, InFlight, StoredPictures, Emptied
<1>3. ASSUME Changed, UNCHANGED attempts
      PROVE  /\ changes' \in Nat /\ changes' = changes + 1 /\ StoredPictures' = StoredPictures /\ Emptied' = Emptied
             /\ InFlight' = InFlight /\ overtaken' \in BOOLEAN /\ (overtaken' \/ (~overtaken /\ InFlight = {}))
  <2>1. InFlight = {} <=> ~UnderWay
    BY DEF InFlight, UnderWay
  <2>2. StoredPictures' = StoredPictures /\ Emptied' = Emptied /\ InFlight' = InFlight
    BY <1>3 DEF StoredPictures, Emptied, InFlight
  <2>3. PICK b \in BOOLEAN : b <=> UnderWay
    OBVIOUS
  <2>4. changes' = changes + 1 /\ overtaken' = (overtaken \/ b) /\ overtaken \in BOOLEAN /\ changes \in Nat
    BY <1>3, <2>3 DEF Changed, FormInv
  <2> QED BY <2>1, <2>2, <2>3, <2>4
<1>4. ASSUME NEW t \in Texts \cup {NoText}, Writes(t) PROVE FormInv'
  <2>1. Changed /\ UNCHANGED attempts
    BY <1>4 DEF Writes
  <2> QED BY <1>3, <1>4, <2>1 DEF FormInv, Writes
<1>5. ASSUME NEW stored \in BOOLEAN, UploadEnds(stored) PROVE FormInv'
  <2>1. Changed /\ UNCHANGED <<attempts, content, written>> /\ uploadingImg /\ ~uploadingImg'
    BY <1>5 DEF UploadEnds
  <2>2. PICK n \in Nat : n = changes'
    BY <1>3, <2>1
  <2>3. /\ imageUrls' = IF stored THEN imageUrls \cup {n} ELSE imageUrls
        /\ chosen' = IF stored THEN chosen \cup {n} ELSE chosen
    BY <1>5, <2>2 DEF UploadEnds, Uploaded
  <2>4. /\ IsFiniteSet(imageUrls \cup {n})
        /\ Cardinality(imageUrls \cup {n}) = (IF n \in imageUrls THEN Cardinality(imageUrls) ELSE Cardinality(imageUrls) + 1)
        /\ Cardinality(imageUrls) \in Nat
    BY FS_AddElement, FS_CardinalityType DEF FormInv
  <2>5. /\ imageUrls' \subseteq Nat /\ IsFiniteSet(imageUrls') /\ Cardinality(imageUrls') <= MaxPictures
    <3>1. CASE stored
      BY <2>1, <2>3, <2>4, <3>1 DEF FormInv
    <3>2. CASE ~stored
      BY <2>3, <3>2 DEF FormInv
    <3> QED BY <3>1, <3>2
  <2>6. overtaken' \/ chosen' \subseteq imageUrls' \cup StoredPictures'
    BY <1>3, <2>1, <2>3 DEF FormInv
  <2> QED BY <1>3, <2>1, <2>5, <2>6 DEF FormInv
<1>6. ASSUME NEW i \in imageUrls, RemovesImage(i) PROVE FormInv'
  <2>1. Changed /\ UNCHANGED <<attempts, content, written, uploadingImg>>
        /\ imageUrls' = imageUrls \ {i} /\ chosen' = chosen \ {i}
    BY <1>6 DEF RemovesImage
  <2>2. /\ IsFiniteSet(imageUrls') /\ imageUrls' \subseteq Nat
        /\ Cardinality(imageUrls') = Cardinality(imageUrls) - 1 /\ Cardinality(imageUrls) \in Nat
    BY <2>1, FS_RemoveElement, FS_CardinalityType DEF FormInv
  <2>3. overtaken' \/ chosen' \subseteq imageUrls' \cup StoredPictures'
    BY <1>3, <2>1 DEF FormInv
  <2> QED BY <1>3, <2>1, <2>2, <2>3 DEF FormInv
<1>7. ASSUME NEW byKey \in BOOLEAN, Publishes(byKey) PROVE FormInv'
  <2>1. PICK c \in Nat : c = Cardinality(attempts)
    BY FS_CardinalityType DEF FormInv
  <2>2. PICK k : k = [n |-> c, text |-> content, pictures |-> imageUrls, stage |-> "sent"]
    OBVIOUS
  <2>3. k \in Drafts /\ k.text = content /\ k.pictures = imageUrls /\ k.stage = "sent"
    BY <2>2 DEF Drafts, FormInv, PostStages
  <2>4. /\ attempts' = attempts \cup {k} /\ content # NoText
        /\ UNCHANGED <<content, imageUrls, uploadingImg, written, chosen, overtaken, changes>>
    BY <1>7, <2>1, <2>2 DEF Publishes
  <2>5. IsFiniteSet(attempts')
    BY <2>4, FS_AddElement DEF FormInv
  <2>6. StoredPictures' = StoredPictures /\ Emptied' = Emptied
    <3>1. \A s \in {{"accepted", "lost", "done"}, {"done"}} :
            {j \in attempts' : j.stage \in s} = {j \in attempts : j.stage \in s}
      BY <2>3, <2>4
    <3>2. {j \in attempts' : j.stage = "done"} = {j \in attempts : j.stage = "done"}
      BY <2>3, <2>4
    <3> QED BY <3>1, <3>2 DEF StoredPictures, Emptied
  <2>7. InFlight' = InFlight \cup {k}
    BY <2>3, <2>4 DEF InFlight
  <2> QED BY <2>3, <2>4, <2>5, <2>6, <2>7 DEF FormInv
<1>8. ASSUME NEW k \in attempts, Accepts(k) PROVE FormInv'
  <2>1. k.stage = "sent" /\ Moved(k, "accepted") /\ UNCHANGED <<content, imageUrls, uploadingImg, written, chosen, overtaken, changes>>
    BY <1>8 DEF Accepts
  <2>2. /\ StoredPictures \subseteq StoredPictures' /\ Emptied \subseteq Emptied'
        /\ \A j \in InFlight' : j \in InFlight \/ (j.text = k.text /\ j.pictures = k.pictures)
    BY <2>1, KeptMoves DEF PostStages
  <2>3. IsFiniteSet(attempts') /\ attempts' \subseteq Drafts /\ \A j \in attempts' : Cardinality(j.pictures) <= MaxPictures
    BY <2>1, PostMoves DEF PostStages
  <2>4. k \in InFlight
    BY <2>1 DEF InFlight
  <2>5. overtaken \/ \A j \in InFlight' : j.text = written /\ chosen \subseteq j.pictures \cup StoredPictures
    BY <2>2, <2>4 DEF FormInv
  <2>6. overtaken \/ \A j \in InFlight' : j.text = written' /\ chosen' \subseteq j.pictures \cup StoredPictures'
    BY <2>1, <2>2, <2>5
  <2> QED BY <2>1, <2>2, <2>3, <2>6 DEF FormInv
<1>9. ASSUME NEW k \in attempts, PostEnds(k) PROVE FormInv'
  <2>1. /\ k.stage = "accepted" /\ Moved(k, "done") /\ content' = NoText /\ imageUrls' = {}
        /\ UNCHANGED <<uploadingImg, written, chosen, overtaken, changes>>
    BY <1>9 DEF PostEnds
  <2>2. /\ StoredPictures \subseteq StoredPictures' /\ k.pictures \subseteq StoredPictures' /\ k.text \in Emptied'
        /\ \A j \in InFlight' : j \in InFlight
    BY <2>1, KeptMoves DEF PostStages, InFlight
  <2>3. IsFiniteSet(attempts') /\ attempts' \subseteq Drafts /\ \A j \in attempts' : Cardinality(j.pictures) <= MaxPictures
    BY <2>1, PostMoves DEF PostStages
  <2>4. k \in InFlight
    BY <2>1 DEF InFlight
  <2>5. overtaken \/ (written' \in Emptied' /\ chosen' \subseteq StoredPictures')
    BY <2>1, <2>2, <2>4 DEF FormInv
  <2>6. overtaken \/ \A j \in InFlight' : j.text = written' /\ chosen' \subseteq j.pictures \cup StoredPictures'
    BY <2>1, <2>2 DEF FormInv
  <2>7. IsFiniteSet({}) /\ Cardinality({}) = 0 /\ Cardinality(imageUrls) \in Nat
    BY FS_EmptySet, FS_CardinalityType DEF FormInv
  <2> QED BY <2>1, <2>3, <2>5, <2>6, <2>7 DEF FormInv
<1>10. ASSUME NEW k \in attempts, PostFails(k) PROVE FormInv'
  <2>1. PICK s \in {"refused", "lost"} : Moved(k, s) /\ k.stage \in {"sent", "accepted"} /\ (k.stage = "accepted" => s = "lost")
    BY <1>10 DEF PostFails
  <2>2. UNCHANGED <<content, imageUrls, uploadingImg, written, chosen, overtaken, changes>>
    BY <1>10 DEF PostFails, Remains
  <2>3. /\ StoredPictures \subseteq StoredPictures' /\ Emptied \subseteq Emptied'
        /\ \A j \in InFlight' : j \in InFlight
    BY <2>1, KeptMoves DEF PostStages, InFlight
  <2>4. IsFiniteSet(attempts') /\ attempts' \subseteq Drafts /\ \A j \in attempts' : Cardinality(j.pictures) <= MaxPictures
    BY <2>1, PostMoves DEF PostStages
  <2>5. overtaken \/ \A j \in InFlight' : j.text = written' /\ chosen' \subseteq j.pictures \cup StoredPictures'
    BY <2>2, <2>3 DEF FormInv
  <2> QED BY <2>2, <2>3, <2>4, <2>5 DEF FormInv
<1> QED BY <1>1, <1>2, <1>4, <1>5, <1>6, <1>7, <1>8, <1>9, <1>10 DEF FormNext

LEMMA InvDraftKept == FormInv => DraftKept
<1> SUFFICES ASSUME FormInv PROVE DraftKept
  OBVIOUS
<1>1. written \in Emptied => \E k \in {j \in attempts : j.stage = "done"} : k.text = written
  BY DEF Emptied
<1> QED BY <1>1 DEF DraftKept, FormInv, StoredPictures

\* A text on the page is in its language and asked for once at a time, and what has been
\* written and uploaded stays in the form until a post with it is stored, for any posts,
\* languages, texts and pictures (Board.jsx).
THEOREM PageIsSound == (TranslationSpec => []InItsLanguage) /\ (FormSpec => []DraftKept)
<1>1. TranslationSpec => []InItsLanguage
  BY TranslationStart, TranslationStep, InvInItsLanguage, PTL DEF TranslationSpec
<1>2. FormSpec => []DraftKept
  BY FormStart, FormStep, InvDraftKept, PTL DEF FormSpec
<1> QED BY <1>1, <1>2

-----------------------------------------------------------------------------
(* The canvas of the operation board.                                      *)

CanvasSpec == CanvasInit /\ [][CanvasNext]_canvasVars

\* e leaves out some of d, by f.
Leaves(f, e, d) ==
  /\ f \in [DOMAIN e -> DOMAIN d]
  /\ \A i \in DOMAIN e : e[i] = d[f[i]]
  /\ \A i, j \in DOMAIN e : i < j => f[i] < f[j]

\* e is a stroke along d: from its beginning to its end, in its order.
Along(e, d) ==
  /\ e \in Seq(Places) /\ Len(e) >= 1
  /\ e[1] = d[1] /\ e[Len(e)] = d[Len(d)]
  /\ \E f : Leaves(f, e, d)

Elements == [kind : {"none", "path", "shape", "stamp"}, points : Seq(Places)]

\* What is drawn, or was added, goes along the way of the pointer; and a stroke is short.
Fits(e, t) ==
  /\ e.kind \in {"path", "shape", "stamp"}
  /\ t \in Seq(Places) /\ Len(t) >= 1 /\ Len(e.points) >= 1
  /\ e.points[1] = t[1] /\ e.points[Len(e.points)] = t[Len(t)]
  /\ e.kind = "path" => Along(e.points, t) /\ PathLength(e.points) <= MaxPathLength

StrokeInv ==
  /\ draft \in Elements /\ added \in [what : Elements, track : Seq(Places)] /\ track \in Seq(Places)
  /\ draft # Nothing => Fits(draft, track) /\ draft.kind # "stamp"
  /\ added.what # Nothing => Fits(added.what, added.track)
  /\ added.what.kind = "path" => Len(added.what.points) > 1

\* What leaves out some of what leaves out some does so too.
LEMMA AlongAlong ==
  ASSUME NEW d \in Seq(Places), NEW e, NEW t \in Seq(Places), Along(e, d), Along(d, t)
  PROVE  Along(e, t)
<1>1. PICK f : Leaves(f, e, d)
  BY DEF Along
<1>2. PICK g : Leaves(g, d, t)
  BY DEF Along
<1> DEFINE h == [i \in DOMAIN e |-> g[f[i]]]
<1>3. h \in [DOMAIN e -> DOMAIN t] /\ \A i \in DOMAIN e : h[i] = g[f[i]] /\ f[i] \in DOMAIN d
  BY <1>1, <1>2 DEF Leaves
<1>4. \A i \in DOMAIN e : e[i] = t[h[i]]
  BY <1>1, <1>2, <1>3 DEF Leaves
<1>5. \A i, j \in DOMAIN e : i < j => h[i] < h[j]
  BY <1>1, <1>2, <1>3 DEF Leaves
<1> HIDE DEF h
<1>6. Leaves(h, e, t)
  BY <1>3, <1>4, <1>5 DEF Leaves
<1> QED BY <1>6 DEF Along

\* The pointer goes on: what was along its way is so with the next place.
LEMMA AlongOn ==
  ASSUME NEW d \in Seq(Places), NEW t \in Seq(Places), Along(d, t), Len(t) >= 1, NEW p \in Places
  PROVE  /\ Along(Append(d, p), Append(t, p))
         /\ Append(d, p) \in Seq(Places) /\ Append(t, p) \in Seq(Places)
<1>1. PICK f : Leaves(f, d, t)
  BY DEF Along
<1>2. Len(d) \in Nat /\ Len(t) \in Nat /\ Len(d) >= 1 /\ d[1] = t[1]
  BY DEF Along
<1>3. PICK e, u : e = Append(d, p) /\ u = Append(t, p) /\ e \in Seq(Places) /\ u \in Seq(Places)
  <2>1. Append(d, p) \in Seq(Places) /\ Append(t, p) \in Seq(Places)
    OBVIOUS
  <2> QED BY <2>1, Zenon
<1>4. /\ Len(e) = Len(d) + 1 /\ Len(u) = Len(t) + 1
      /\ \A i \in 1..Len(d) : e[i] = d[i]
      /\ \A i \in 1..Len(t) : u[i] = t[i]
      /\ e[Len(e)] = p /\ u[Len(u)] = p
  BY <1>3
<1> DEFINE h == [i \in 1..Len(e) |-> IF i = Len(e) THEN Len(u) ELSE f[i]]
<1>5. \A i \in 1..Len(d) : f[i] \in 1..Len(t) /\ d[i] = t[f[i]] /\ i \in 1..Len(e)
  BY <1>1, <1>2, <1>4 DEF Leaves
<1>6. \A i, j \in 1..Len(d) : i < j => f[i] < f[j]
  BY <1>1 DEF Leaves
<1>7. h \in [1..Len(e) -> 1..Len(u)] /\ h[Len(e)] = Len(u) /\ \A i \in 1..Len(d) : h[i] = f[i]
  BY <1>2, <1>4, <1>5
<1>8. \A i \in 1..Len(e) : i = Len(e) \/ i \in 1..Len(d)
  BY <1>2, <1>4
<1> HIDE DEF h
<1>9. \A i \in 1..Len(e) : e[i] = u[h[i]]
  <2> SUFFICES ASSUME NEW i \in 1..Len(e) PROVE e[i] = u[h[i]]
    OBVIOUS
  <2>1. CASE i = Len(e)
    BY <1>4, <1>7, <2>1
  <2>2. CASE i \in 1..Len(d)
    BY <1>4, <1>5, <1>7, <2>2
  <2> QED BY <1>8, <2>1, <2>2
<1>10. \A i, j \in 1..Len(e) : i < j => h[i] < h[j]
  <2> SUFFICES ASSUME NEW i \in 1..Len(e), NEW j \in 1..Len(e), i < j PROVE h[i] < h[j]
    OBVIOUS
  <2>1. i \in 1..Len(d)
    BY <1>2, <1>4
  <2>2. h[i] = f[i] /\ f[i] \in 1..Len(t)
    BY <1>5, <1>7, <2>1
  <2>3. CASE j = Len(e)
    BY <1>2, <1>4, <1>7, <2>2, <2>3
  <2>4. CASE j \in 1..Len(d)
    BY <1>6, <1>7, <2>1, <2>2, <2>4
  <2> QED BY <1>8, <2>3, <2>4
<1>11. Leaves(h, e, u)
  <2>1. DOMAIN e = 1..Len(e) /\ DOMAIN u = 1..Len(u)
    BY <1>3
  <2> QED BY <1>7, <1>9, <1>10, <2>1 DEF Leaves
<1>12. e[1] = u[1]
  BY <1>2, <1>4
<1>13. Along(e, u)
  <2>1. e \in Seq(Places) /\ Len(e) >= 1 /\ e[Len(e)] = u[Len(u)]
    BY <1>2, <1>3, <1>4
  <2> QED BY <1>11, <1>12, <2>1 DEF Along
<1> QED BY <1>3, <1>13

\* The elements at some places that begin with the first and end with the last.
LEMMA AtAlong ==
  ASSUME NEW d \in Seq(Places), NEW I \in SUBSET (1..Len(d)), 1 \in I, Len(d) \in I
  PROVE  Along(At(d, I), d) /\ Len(At(d, I)) = Cardinality(I) /\ Cardinality(I) \in Nat /\ IsFiniteSet(I)
<1>1. PICK n \in Nat : n = Len(d)
  OBVIOUS
<1>2. IsFiniteSet(I) /\ I \in SUBSET Nat
  <2>0. IsFiniteSet(1..n)
    BY <1>1, FS_Interval
  <2>1. PICK T : T = 1..n /\ IsFiniteSet(T) /\ I \in SUBSET T
    BY <1>1, <2>0
  <2>2. IsFiniteSet(I)
    BY <2>1, FS_Subset, Zenon
  <2> QED BY <1>1, <2>2
<1>3. /\ Cardinality(I) \in Nat
      /\ \A k \in 1..Cardinality(I) : PlaceOf(I, k) \in I
      /\ \A k, m \in 1..Cardinality(I) : k < m => PlaceOf(I, k) < PlaceOf(I, m)
      /\ PlaceOf(I, 1) = 1 /\ Cardinality(I) >= 1
      /\ PlaceOf(I, Cardinality(I)) = Len(d)
  <2>1. \A j \in I : 1 <= j /\ j <= Len(d)
    BY <1>1
  <2>2. PICK S \in SUBSET Nat : S = I /\ IsFiniteSet(S) /\ 1 \in S /\ n \in S /\ \A j \in S : 1 <= j /\ j <= n
    BY <1>1, <1>2, <2>1
  <2>3. /\ Cardinality(S) \in Nat
        /\ \A k \in 1..Cardinality(S) : PlaceOf(S, k) \in S
        /\ \A k, m \in 1..Cardinality(S) : k < m => PlaceOf(S, k) < PlaceOf(S, m)
        /\ PlaceOf(S, 1) = 1 /\ Cardinality(S) >= 1
        /\ PlaceOf(S, Cardinality(S)) = n
    BY <2>2, PlacesInOrder
  <2> QED BY <1>1, <2>2, <2>3
<1>4. PICK e, f : e = At(d, I) /\ f = [k \in 1..Cardinality(I) |-> PlaceOf(I, k)]
  OBVIOUS
<1>5. e = [k \in 1..Cardinality(I) |-> d[PlaceOf(I, k)]]
  BY <1>4 DEF At, PlaceOf, RankIn
<1>6. \A i \in I : d[i] \in Places
  BY <1>1
<1>7. e \in [1..Cardinality(I) -> Places]
  BY <1>3, <1>5, <1>6
<1>8. e \in Seq(Places) /\ Len(e) = Cardinality(I) /\ DOMAIN e = 1..Cardinality(I)
  BY <1>3, <1>7
<1>9. e[1] = d[1] /\ e[Len(e)] = d[Len(d)]
  BY <1>3, <1>5, <1>8
<1>10. Leaves(f, e, d)
  <2>1. DOMAIN d = 1..Len(d) /\ \A i \in I : i \in 1..Len(d)
    OBVIOUS
  <2>2. \A k \in 1..Cardinality(I) : f[k] = PlaceOf(I, k) /\ f[k] \in 1..Len(d)
    BY <1>3, <1>4, <2>1
  <2>3. f \in [1..Cardinality(I) -> 1..Len(d)]
    BY <1>4, <2>2
  <2>4. \A i, j \in 1..Cardinality(I) : i < j => f[i] < f[j]
    BY <1>3, <2>2
  <2> QED BY <1>5, <1>8, <2>1, <2>2, <2>3, <2>4 DEF Leaves
<1> QED BY <1>2, <1>3, <1>4, <1>8, <1>9, <1>10 DEF Along

LEMMA PathLengthIs ==
  ASSUME NEW d \in Seq(Places)
  PROVE  /\ PathLength(d) \in Int
         /\ Len(d) <= 2 => PathLength(d) <= 13
<1> DEFINE w == [i \in DOMAIN d |-> Width(d[i]) + 1]
<1>1. PathLength(d) = Sum(w, DOMAIN w) - 1
  BY DEF PathLength, SumFunction, SumFunctionOnSet, FoldFunctionOnSet, MapThenFoldSet, Sum, Some
<1>2. PICK n \in Nat : n = Len(d) /\ DOMAIN d = 1..n
  OBVIOUS
<1>3. \A i \in 1..n : w[i] \in Nat /\ w[i] <= 7
  BY <1>2 DEF Width
<1>4. DOMAIN w = 1..n
  BY <1>2
<1> HIDE DEF w
<1>5. PICK S : S = 1..n /\ IsFiniteSet(S) /\ Cardinality(S) = n /\ \A i \in S : w[i] \in Nat /\ w[i] <= 7
  BY <1>3, FS_Interval
<1>6. Sum(w, S) \in Nat
  BY <1>5, SumParts
<1>7. Sum(w, S) <= Sum(w, S \ S) + Cardinality(S) * 7
  BY <1>5, SumBound
<1>8. S \ S = {} /\ Sum(w, {}) = 0
  <2>1. IsFiniteSet({}) /\ \A i \in {} : w[i] \in Nat
    BY FS_EmptySet
  <2> QED BY <2>1, SumParts
<1>9. PICK a \in Nat : a = Sum(w, S) /\ a <= 7 * n
  <2>1. Sum(w, S \ S) = 0 /\ Cardinality(S) * 7 = 7 * n
    <3>1. Cardinality(S) = n
      BY <1>5
    <3>2. n * 7 = 7 * n
      BY <1>2
    <3> QED BY <1>8, <3>1, <3>2
  <2>2. PICK a \in Nat : a = Sum(w, S)
    BY <1>6
  <2>3. a <= 0 + 7 * n
    BY <1>7, <2>1, <2>2
  <2> QED BY <1>2, <2>2, <2>3
<1>10. PathLength(d) = a - 1
  BY <1>1, <1>4, <1>5, <1>9
<1> QED BY <1>2, <1>9, <1>10

\* Sampled keeps the first and the last; with the whole length for a step it keeps no other.
LEMMA SampledAlong ==
  ASSUME NEW d \in Seq(Places), Len(d) >= 1, NEW step \in 1..Len(d)
  PROVE  /\ Along(Sampled(d, step), d)
         /\ step = Len(d) => Len(Sampled(d, step)) <= 2
<1> DEFINE I == {i \in DOMAIN d : i = Len(d) \/ (i - 1) % step = 0}
<1>1. PICK n \in Nat : n = Len(d) /\ DOMAIN d = 1..n
  OBVIOUS
<1>2. I \in SUBSET (1..Len(d)) /\ Len(d) \in I
  BY <1>1
<1>3. 1 \in I
  <2>1. (1 - 1) % step = 0
    BY <1>1
  <2> QED BY <1>1, <2>1
<1>4. Sampled(d, step) = At(d, I)
  BY DEF Sampled
<1>5. step = Len(d) => I \in SUBSET {1, Len(d)}
  <2> SUFFICES ASSUME step = Len(d), NEW i \in 1..n, (i - 1) % n = 0 PROVE i = 1
    BY <1>1
  <2>1. i - 1 \in 0..(n - 1) /\ n > 0
    BY <1>1
  <2>2. (i - 1) % n = i - 1
    BY <1>1, <2>1
  <2> QED BY <1>1, <2>2
<1> HIDE DEF I
<1>6. Along(At(d, I), d) /\ Len(At(d, I)) = Cardinality(I) /\ Cardinality(I) \in Nat
  BY <1>2, <1>3, AtAlong
<1>7. step = Len(d) => Cardinality(I) <= 2
  <2> SUFFICES ASSUME step = Len(d) PROVE Cardinality(I) <= 2
    OBVIOUS
  <2>1. PICK T, U, x : T = U \cup {x} /\ U = {1} /\ x = Len(d)
    OBVIOUS
  <2>2. IsFiniteSet(U) /\ Cardinality(U) = 1
    BY <2>1, FS_Singleton
  <2>3. IsFiniteSet(T) /\ Cardinality(T) \in Nat /\ Cardinality(T) <= 2
    <3>1. IsFiniteSet(T) /\ (Cardinality(T) = Cardinality(U) \/ Cardinality(T) = Cardinality(U) + 1)
      BY <2>1, <2>2, FS_AddElement
    <3> QED BY <2>2, <3>1
  <2>4. I \in SUBSET T
    BY <1>5, <2>1
  <2>5. Cardinality(I) <= Cardinality(T)
    BY <2>3, <2>4, FS_Subset
  <2> QED BY <1>6, <2>3, <2>5
<1> QED BY <1>4, <1>6, <1>7

\* compactOperationPath: what comes out goes along what went in, and is short enough.
LEMMA CompactAlong ==
  ASSUME NEW d \in Seq(Places), Len(d) >= 1
  PROVE  Along(Compact(d), d) /\ PathLength(Compact(d)) <= MaxPathLength
<1> DEFINE fits == {step \in 1..Len(d) : PathLength(Sampled(d, step)) <= MaxPathLength}
<1>1. PICK n \in Nat : n = Len(d) /\ n \in 1..n
  OBVIOUS
<1>2. Len(d) \in fits
  <2>1. Along(Sampled(d, n), d) /\ Len(Sampled(d, n)) <= 2
    BY <1>1, SampledAlong
  <2>2. PathLength(Sampled(d, n)) \in Int /\ PathLength(Sampled(d, n)) <= 13
    BY <2>1, PathLengthIs DEF Along
  <2> QED BY <1>1, <2>2, CanvasAssumption
<1>3. Compact(d) = Sampled(d, IF fits = {} THEN Len(d) ELSE Min(fits))
  BY DEF Compact
<1>4. fits \in SUBSET Nat /\ fits # {}
  BY <1>2
<1>5. PICK step : step \in fits /\ step = Min(fits)
  <2> HIDE DEF fits
  <2>1. PICK m \in fits : \A k \in fits : ~(k < m)
    BY <1>4, NatMin
  <2>2. \A k \in fits : m <= k
    BY <1>4, <2>1
  <2>3. Min(fits) \in fits
    BY <2>1, <2>2 DEF Min
  <2> QED BY <2>3
<1>6. step \in 1..Len(d) /\ PathLength(Sampled(d, step)) <= MaxPathLength
  BY <1>5
<1>7. Compact(d) = Sampled(d, step)
  BY <1>3, <1>4, <1>5
<1> QED BY <1>6, <1>7, SampledAlong

LEMMA CanvasStart == CanvasInit => StrokeInv
<1> SUFFICES ASSUME CanvasInit PROVE StrokeInv
  OBVIOUS
<1>1. Nothing \in Elements /\ <<>> \in Seq(Places)
  BY DEF Nothing, Elements
<1>2. Nothing.kind # "path"
  BY DEF Nothing
<1> QED BY <1>1, <1>2 DEF CanvasInit, StrokeInv

LEMMA AlongSelf == ASSUME NEW d \in Seq(Places), Len(d) >= 1 PROVE Along(d, d)
<1> DEFINE f == [i \in DOMAIN d |-> i]
<1>1. Leaves(f, d, d)
  BY DEF Leaves
<1> HIDE DEF f
<1> QED BY <1>1 DEF Along

LEMMA OnePlace == ASSUME NEW p \in Places PROVE <<p>> \in Seq(Places) /\ Len(<<p>>) = 1 /\ <<p>>[1] = p
OBVIOUS

LEMMA PointerDownStep ==
  ASSUME StrokeInv, NEW what \in {"path", "shape"}, NEW p \in Places, PointerDown(what, p) PROVE StrokeInv'
<1>1. PICK t : t = <<p>> /\ t \in Seq(Places) /\ Len(t) = 1 /\ t[1] = p
  BY OnePlace
<1>2. PICK e : e = (IF what = "path" THEN Compact(<<p>>) ELSE <<p, p>>)
  OBVIOUS
<1>3. draft' = [kind |-> what, points |-> e] /\ track' = t /\ added' = added
  BY <1>1, <1>2 DEF PointerDown
<1>4. /\ e \in Seq(Places) /\ Len(e) >= 1 /\ e[1] = p /\ e[Len(e)] = p
      /\ what = "path" => Along(e, t) /\ PathLength(e) <= MaxPathLength
  <2>1. CASE what = "path"
    <3>1. e = Compact(t)
      BY <1>1, <1>2, <2>1
    <3>2. Along(e, t) /\ PathLength(e) <= MaxPathLength
      <4>1. Along(Compact(t), t) /\ PathLength(Compact(t)) <= MaxPathLength
        <5>1. ASSUME NEW d \in Seq(Places), Len(d) = 1
              PROVE  Along(Compact(d), d) /\ PathLength(Compact(d)) <= MaxPathLength
          <6>1. Len(d) >= 1
            BY <5>1
          <6> QED BY ONLY <6>1, d \in Seq(Places), CompactAlong
        <5> QED BY <1>1, <5>1, Zenon
      <4> QED BY <3>1, <4>1
    <3> QED BY <1>1, <3>2 DEF Along
  <2>2. CASE what = "shape"
    BY <1>2, <2>2
  <2> QED BY <2>1, <2>2
<1>5. PICK n : n = draft' /\ n = [kind |-> what, points |-> e]
  BY <1>3
<1>6. n \in Elements /\ n.kind = what /\ n.points = e
  BY <1>4, <1>5 DEF Elements
<1>7. Fits(n, t) /\ n.kind # "stamp" /\ t \in Seq(Places)
  BY <1>1, <1>4, <1>6 DEF Fits
<1> QED BY <1>3, <1>5, <1>6, <1>7 DEF StrokeInv

LEMMA StampsStep == ASSUME StrokeInv, NEW p \in Places, Stamps(p) PROVE StrokeInv'
<1>1. PICK t : t = <<p>> /\ t \in Seq(Places) /\ Len(t) = 1
  BY OnePlace
<1>2. PICK n : n = [kind |-> "stamp", points |-> t]
  OBVIOUS
<1>3. n \in Elements /\ n.kind = "stamp" /\ n.points = t /\ Fits(n, t) /\ t \in Seq(Places)
  BY <1>1, <1>2 DEF Elements, Fits
<1>4. added' = [what |-> n, track |-> t] /\ UNCHANGED <<draft, track>>
  BY <1>1, <1>2 DEF Stamps
<1>5. added'.what = n /\ added'.track = t /\ added' \in [what : Elements, track : Seq(Places)]
  BY <1>3, <1>4
<1> QED BY <1>3, <1>4, <1>5 DEF StrokeInv

LEMMA PointerMoveStep == ASSUME StrokeInv, NEW p \in Places, PointerMove(p) PROVE StrokeInv'
<1>1. draft # Nothing /\ draft' = [draft EXCEPT !.points = Extended(draft, p)] /\ track' = Append(track, p) /\ added' = added
  BY DEF PointerMove
<1>2. Fits(draft, track) /\ draft.kind \in {"path", "shape"} /\ draft.points \in Seq(Places) /\ draft \in Elements
  BY <1>1 DEF StrokeInv, Fits, Elements
<1>3. PICK d \in Seq(Places), u \in Seq(Places) : d = draft.points /\ u = track
  BY <1>2 DEF Fits
<1>4. Len(d) >= 1 /\ Len(u) >= 1 /\ d[1] = u[1] /\ d[Len(d)] = u[Len(u)]
  BY <1>2, <1>3 DEF Fits
<1>5. PICK t \in Seq(Places) : t = Append(u, p) /\ Len(t) = Len(u) + 1 /\ t[1] = u[1] /\ t[Len(t)] = p
  <2>1. Append(u, p) \in Seq(Places) /\ Len(Append(u, p)) = Len(u) + 1 /\ Append(u, p)[1] = u[1] /\ Append(u, p)[Len(u) + 1] = p
    BY <1>4
  <2> QED BY <2>1
<1>6. PICK e : e = Extended(draft, p)
  OBVIOUS
<1>7. /\ e \in Seq(Places) /\ Len(e) >= 1 /\ e[1] = t[1] /\ e[Len(e)] = p
      /\ draft.kind = "path" => Along(e, t) /\ PathLength(e) <= MaxPathLength
  <2>1. CASE draft.kind = "path"
    <3>1. PICK a \in Seq(Places) : a = Append(d, p) /\ Len(a) = Len(d) + 1
      <4>1. Append(d, p) \in Seq(Places) /\ Len(Append(d, p)) = Len(d) + 1
        OBVIOUS
      <4> QED BY <4>1
    <3>2. e = Compact(a)
      BY <1>3, <1>6, <2>1, <3>1 DEF Extended
    <3>3. Along(e, a) /\ PathLength(e) <= MaxPathLength
      <4>1. Len(a) >= 1
        BY <1>4, <3>1
      <4>2. Along(Compact(a), a) /\ PathLength(Compact(a)) <= MaxPathLength
        BY <4>1, CompactAlong
      <4> QED BY <3>2, <4>2
    <3>4. Along(d, u)
      BY <1>2, <1>3, <2>1 DEF Fits
    <3>5. Along(a, t)
      BY <1>4, <1>5, <3>1, <3>4, AlongOn
    <3>6. Along(e, t)
      BY <3>3, <3>5, AlongAlong
    <3> QED BY <1>5, <3>3, <3>6 DEF Along
  <2>2. CASE draft.kind = "shape"
    <3>1. e = <<d[1], p>> /\ d[1] \in Places
      BY <1>3, <1>4, <1>6, <2>2 DEF Extended
    <3> QED BY <1>4, <1>5, <2>2, <3>1
  <2> QED BY <1>2, <2>1, <2>2
<1>8. PICK n : n = draft' /\ n = [draft EXCEPT !.points = e]
  BY <1>1, <1>6
<1>9. n \in Elements /\ n.kind = draft.kind /\ n.points = e
  BY <1>2, <1>7, <1>8 DEF Elements
<1>10. Fits(n, t) /\ n.kind # "stamp"
  BY <1>2, <1>5, <1>7, <1>9 DEF Fits
<1> QED BY <1>1, <1>3, <1>5, <1>8, <1>9, <1>10 DEF StrokeInv

LEMMA FinishDraftStep == ASSUME StrokeInv, FinishDraft PROVE StrokeInv'
<1> DEFINE sanitized == IF draft.kind = "path" THEN [draft EXCEPT !.points = Compact(@)] ELSE draft
<1>1. draft # Nothing /\ draft' = Nothing /\ track' = <<>>
  BY DEF FinishDraft
<1>2. Nothing \in Elements /\ <<>> \in Seq(Places)
  BY DEF Nothing, Elements
<1>3. Fits(draft, track) /\ draft.kind \in {"path", "shape"} /\ draft \in Elements /\ track \in Seq(Places)
  BY <1>1 DEF StrokeInv, Fits
<1>4. PICK n, t : n = sanitized /\ t = track
  OBVIOUS
<1>5. n \in Elements /\ n.kind = draft.kind /\ Fits(n, t)
  <2>1. CASE draft.kind = "path"
    <3>1. PICK d \in Seq(Places) : d = draft.points /\ Len(d) >= 1 /\ Along(d, t)
      BY <1>3, <1>4, <2>1 DEF Fits, Elements
    <3>2. PICK e : e = Compact(d) /\ Along(e, d) /\ PathLength(e) <= MaxPathLength
      BY <3>1, CompactAlong
    <3>3. Along(e, t)
      BY <1>3, <1>4, <3>1, <3>2, AlongAlong
    <3>4. n = [draft EXCEPT !.points = e]
      BY <1>4, <2>1, <3>1, <3>2
    <3>5. e \in Seq(Places) /\ Len(e) >= 1 /\ e[1] = t[1] /\ e[Len(e)] = t[Len(t)]
      BY <3>3 DEF Along
    <3>6. n \in Elements /\ n.kind = "path" /\ n.points = e
      BY <1>3, <2>1, <3>4, <3>5 DEF Elements
    <3>7. t \in Seq(Places) /\ Len(t) >= 1
      BY <1>3, <1>4 DEF Fits
    <3> QED BY <2>1, <3>2, <3>3, <3>5, <3>6, <3>7 DEF Fits
  <2>2. CASE draft.kind # "path"
    <3>1. n = draft
      BY <1>4, <2>2
    <3> QED BY <1>3, <1>4, <3>1
  <2> QED BY <2>1, <2>2
<1>6. added' = IF Meaningful(n) THEN [what |-> n, track |-> t] ELSE added
  BY <1>4 DEF FinishDraft
<1>7. CASE Meaningful(n)
  <2>1. added' = [what |-> n, track |-> t]
    BY <1>6, <1>7
  <2>2. added'.what = n /\ added'.track = t /\ t \in Seq(Places)
    BY <1>3, <1>4, <2>1
  <2>3. n.kind = "path" => Len(n.points) > 1
    BY <1>7 DEF Meaningful
  <2>4. added' \in [what : Elements, track : Seq(Places)]
    BY <1>5, <2>1, <2>2
  <2> QED BY <1>1, <1>2, <1>5, <2>2, <2>3, <2>4 DEF StrokeInv
<1>8. CASE ~Meaningful(n)
  BY <1>1, <1>2, <1>6, <1>8 DEF StrokeInv
<1> QED BY <1>7, <1>8

LEMMA CanvasStep == StrokeInv /\ [CanvasNext]_canvasVars => StrokeInv'
<1> SUFFICES ASSUME StrokeInv, [CanvasNext]_canvasVars PROVE StrokeInv'
  OBVIOUS
<1>1. Nothing \in Elements /\ <<>> \in Seq(Places)
  BY DEF Nothing, Elements
<1>2. CASE PointerCancel
  BY <1>1, <1>2 DEF PointerCancel, StrokeInv
<1>3. CASE PermissionChanges \/ UNCHANGED canvasVars
  <2>1. UNCHANGED <<draft, track, added>>
    BY <1>3 DEF PermissionChanges, canvasVars
  <2> QED BY <2>1 DEF StrokeInv
<1> QED BY <1>2, <1>3, PointerDownStep, StampsStep, PointerMoveStep, FinishDraftStep DEF CanvasNext

LEMMA FitsDrawn == ASSUME NEW e \in Elements, NEW t, Fits(e, t) PROVE Drawn(e, t)
<1>1. e.kind = "path" => Follows(e.points, t) /\ PathLength(e.points) <= ServerLength
  <2> SUFFICES ASSUME e.kind = "path" PROVE Follows(e.points, t) /\ PathLength(e.points) <= ServerLength
    OBVIOUS
  <2>1. PICK d \in Seq(Places) : d = e.points /\ Along(d, t) /\ PathLength(d) <= MaxPathLength
    BY DEF Fits, Elements
  <2>2. PICK f : Leaves(f, d, t)
    BY <2>1 DEF Along
  <2>3. Follows(d, t)
    BY <2>2 DEF Leaves, Follows
  <2>4. PathLength(d) \in Int
    BY PathLengthIs
  <2> QED BY <2>1, <2>3, <2>4, CanvasAssumption
<1> QED BY <1>1 DEF Drawn, Fits

LEMMA InvStrokeKept == StrokeInv => StrokeKept
BY FitsDrawn DEF StrokeInv, StrokeKept

\* However long the pointer moves and however often a stroke is thinned out on the way, it
\* goes from where the pointer went down to where it is, in the order of its places, and is
\* short enough for the server (OperationBoardCanvas.jsx, operationBoardTypes.js).
THEOREM StrokesAreKept == CanvasSpec => []StrokeKept
BY CanvasStart, CanvasStep, InvStrokeKept, PTL DEF CanvasSpec

-----------------------------------------------------------------------------
(* The types: with the invariants above, every variable stays within its bounds.       *)

\* The clock.
ClockBounds ==
  /\ skew \in Skews /\ lastSkew \in Skews /\ jumps \in 0..MaxJumps /\ asOf \in -1..MaxJumps
  /\ shownState \in {"unsynced", "syncing", "synced", "failed"}
  /\ token \in 0..(2 * MaxSessions) /\ pending \in 0..token
  /\ failures \in 0..MaxFailures /\ told \in 0..MaxTold
  /\ \A s \in Syncs : sync[s].rtts # {} => sync[s].best.rtt \in sync[s].rtts

LEMMA ClockBoundsStart == ClockInit => ClockBounds
BY ClockAssumption DEF ClockInit, ClockBounds, NotSyncing

LEMMA BegunBounds ==
  ASSUME ClockInv, ClockBounds, NEW s \in Syncs, NEW k, Begun(s, k)
  PROVE  \A t \in Syncs : sync'[t].rtts # {} => sync'[t].best.rtt \in sync'[t].rtts
BY DEF Begun, NotSyncing, ClockInv, ClockTyped, ClockBounds

LEMMA CollectedBounds ==
  ASSUME ClockInv, ClockBounds, NEW s \in Syncs, NEW got, got = {} \/ (\E x \in Samples : got = {x}), Collected(s, got),
         UNCHANGED <<skew, jumps, user, token>>
  PROVE  /\ lastSkew' \in Skews /\ asOf' \in -1..MaxJumps /\ pending' \in 0..token
         /\ shownState' \in {"unsynced", "syncing", "synced", "failed"}
         /\ \A t \in Syncs : sync'[t].rtts # {} => sync'[t].best.rtt \in sync'[t].rtts
<1>1. /\ sync \in [Syncs -> SyncStates] /\ sync[s] \in SyncStates /\ sync[s].since \in 0..jumps
      /\ token \in Nat /\ jumps \in Nat
  BY DEF ClockInv, ClockTyped, ClockMeasures, SyncStates
<1>2. PICK best, rtts, taken :
        /\ best = IF got = {} THEN sync[s].best
                  ELSE LET new == CHOOSE x \in got : TRUE IN IF sync[s].rtts = {} THEN new ELSE Better(sync[s].best, new)
        /\ rtts = sync[s].rtts \cup {x.rtt : x \in got}
        /\ taken = sync[s].taken + 1
  OBVIOUS
<1>3. \/ Throws(s) \/ Succeeds(s, best)
      \/ /\ sync' = [sync EXCEPT ![s].taken = taken, ![s].best = best, ![s].from = skew,
                                 ![s].rtts = IF taken >= SampleCount THEN {best.rtt} ELSE rtts]
         /\ UNCHANGED <<offset, hasSynced, shownState, asOf, started, pending, loops, lastSkew>>
  BY <1>2, Zenon DEF Collected
<1>4. CASE Throws(s)
  BY <1>4, <1>1, NotSyncingTyped DEF Throws, ClockBounds
<1>5. CASE Succeeds(s, best)
  BY <1>5, <1>1, NotSyncingTyped, ClockAssumption DEF Succeeds, ClockBounds
<1>6. CASE /\ sync' = [sync EXCEPT ![s].taken = taken, ![s].best = best, ![s].from = skew,
                                   ![s].rtts = IF taken >= SampleCount THEN {best.rtt} ELSE rtts]
           /\ UNCHANGED <<offset, hasSynced, shownState, asOf, started, pending, loops, lastSkew>>
  <2>1. rtts # {} => best.rtt \in rtts
    <3>1. CASE got = {}
      BY <1>2, <3>1 DEF ClockBounds
    <3>2. ASSUME NEW x \in Samples, got = {x} PROVE best.rtt \in rtts
      <4>1. (CHOOSE y \in got : TRUE) = x /\ x.rtt \in rtts
        BY <1>2, <3>2
      <4>2. best = x \/ (best = sync[s].best /\ sync[s].rtts # {})
        BY <1>2, <3>2, <4>1 DEF Better
      <4>3. sync[s].rtts # {} => sync[s].best.rtt \in rtts
        BY <1>2, Zenon DEF ClockBounds
      <4> QED BY <4>1, <4>2, <4>3, Zenon
    <3> QED BY <3>1, <3>2
  <2>2. sync'[s].best = best /\ (sync'[s].rtts = rtts \/ sync'[s].rtts = {best.rtt})
    BY <1>1, <1>6 DEF SyncStates
  <2>3. \A t \in Syncs \ {s} : sync'[t] = sync[t]
    BY <1>1, <1>6
  <2>4. ASSUME NEW t \in Syncs, sync'[t].rtts # {} PROVE sync'[t].best.rtt \in sync'[t].rtts
    <3>1. CASE t = s
      BY <2>1, <2>2, <2>4, <3>1
    <3>2. CASE t # s
      BY <2>3, <2>4, <3>2 DEF ClockBounds
    <3> QED BY <3>1, <3>2
  <2> QED BY <1>6, <2>4 DEF ClockBounds
<1> QED BY <1>3, <1>4, <1>5, <1>6

LEMMA ClockBoundsStep ==
  ASSUME ClockInv, ClockBounds, [ClockNext]_clockVars
  PROVE  ClockBounds'
<1>1. MaxJumps \in Nat /\ MaxFailures \in Nat /\ MaxSessions \in Nat /\ MaxTold \in Nat /\ Skews \subseteq Int
  BY ClockAssumption
<1>2. CASE UNCHANGED clockVars
  BY <1>2 DEF clockVars, ClockBounds
<1>3. ASSUME NEW s \in Syncs, SampleArrives(s) PROVE ClockBounds'
  <2>1. PICK d \in Delays, wait \in {0, PingTimeout} : Collected(s, {Sample(sync[s].from, d, wait)})
    BY <1>3 DEF SampleArrives
  <2>2. PICK x : x = Sample(sync[s].from, d, wait)
    OBVIOUS
  <2>3. x \in Samples
    <3>1. sync[s].from \in Int /\ skew \in Int /\ wait \in Int /\ d[1] \in Int /\ d[2] \in Int
      BY ClockAssumption DEF ClockInv, ClockTyped, SyncStates
    <3> QED BY <2>2, <3>1 DEF Sample, Samples
  <2>4. Collected(s, {x})
    BY <2>1, <2>2
  <2>5. UNCHANGED <<skew, jumps, user, token, failures, told>>
    BY <1>3 DEF SampleArrives
  <2> QED BY <1>1, <2>3, <2>4, <2>5, CollectedBounds DEF ClockBounds
<1>4. ASSUME NEW s \in Syncs, SampleFails(s) PROVE ClockBounds'
  BY <1>1, <1>4, CollectedBounds DEF SampleFails, ClockBounds
<1>5. ASSUME NEW s \in Syncs, Startup(s) PROVE ClockBounds'
  BY <1>1, <1>5, BegunBounds DEF Startup, ClockBounds
<1>6. ASSUME NEW s \in Syncs, Resync(s) PROVE ClockBounds'
  BY <1>1, <1>6, BegunBounds DEF Resync, ClockBounds
<1>7. ASSUME NEW s \in Syncs, DriftCheck(s) PROVE ClockBounds'
  BY <1>1, <1>7, BegunBounds DEF DriftCheck, ClockBounds
<1>8. ASSUME NEW s \in Syncs, NEW k \in loops, Again(s, k) PROVE ClockBounds'
  BY <1>1, <1>8, BegunBounds DEF Again, ClockBounds
<1>9. CASE Shutdown
  BY <1>1, <1>9 DEF Shutdown, ClockBounds
<1>10. ASSUME NEW k \in Skews, NEW between \in SUBSET Syncs, ClockSet(k, between) PROVE ClockBounds'
  <2>1. \A s \in Syncs : sync'[s].rtts = sync[s].rtts /\ sync'[s].best = sync[s].best
    BY <1>10 DEF ClockSet, ClockInv, ClockTyped, SyncStates
  <2> QED BY <1>1, <1>10, <2>1 DEF ClockSet, ClockBounds
<1>11. ASSUME NEW k \in Skews, NEW err, OtherTab(k, err) PROVE ClockBounds'
  BY <1>1, <1>11 DEF OtherTab, ClockBounds
<1> QED BY <1>2, <1>3, <1>4, <1>5, <1>6, <1>7, <1>8, <1>9, <1>10, <1>11 DEF ClockNext, SyncSteps

LEMMA ClockTypes == ASSUME ClockInv, ClockBounds PROVE ClockTypeOK
<1>1. loops \subseteq 1..token
  BY DEF ClockInv, ClockTyped, ClockTokens
<1>2. \A s \in Syncs : sync[s].by \in 0..token
  BY DEF ClockInv, ClockTyped, ClockTokens, SyncStates
<1> QED BY <1>1, <1>2 DEF ClockInv, ClockTyped, ClockBounds, ClockTypeOK

\* The players.
PlayerBounds ==
  /\ wall \in 0..EndOfTime /\ audio \in 0..wall
  /\ shown \in 0..EndOfTime /\ clock \in ClockOffsets /\ personal \in PersonalOffsets /\ march \in Marches

LEMMA PlayerBoundsStart == ASSUME NEW k, NEW cold, PlayerInit(k, cold) PROVE PlayerBounds
BY PlayerAssumption DEF PlayerInit, PlayerBounds

LEMMA PlayerBoundsStep ==
  ASSUME PlayerBounds, [PlayerNext]_playerVars
  PROVE  PlayerBounds'
<1>1. EndOfTime \in Nat
  BY PlayerAssumption
<1>2. CASE UNCHANGED <<wall, audio, shown, clock, personal, march>>
  BY <1>2 DEF PlayerBounds
<1>3. CASE Passes
  BY <1>1, <1>3 DEF Passes, PlayerBounds
<1>4. ASSUME NEW s \in 1..EndOfTime, Shows(s) PROVE PlayerBounds'
  BY <1>1, <1>4 DEF Shows, PlayerBounds
<1>5. CASE Hides
  BY <1>1, <1>5 DEF Hides, PlayerBounds
<1>6. ASSUME NEW o \in ClockOffsets, ClockMoves(o) PROVE PlayerBounds'
  BY <1>6 DEF ClockMoves, PlayerBounds
<1>7. ASSUME NEW o \in PersonalOffsets, PersonalMoves(o) PROVE PlayerBounds'
  BY <1>7 DEF PersonalMoves, PlayerBounds
<1>8. ASSUME NEW m \in Marches, MarchMoves(m) PROVE PlayerBounds'
  BY <1>8 DEF MarchMoves, PlayerBounds
<1>9. CASE UNCHANGED playerVars
  BY <1>2, <1>9 DEF playerVars
<1>10. ASSUME NEW c \in calls, WarmedUp(c) \/ ResumeWaited(c) PROVE PlayerBounds'
  BY <1>2, <1>10, Zenon DEF WarmedUp, ResumeWaited
<1>11. ASSUME NEW w \in Words, BufferArrives(w) \/ BufferFails(w) PROVE PlayerBounds'
  BY <1>2, <1>11, Zenon DEF BufferArrives, BufferFails
<1>12. CASE Primes \/ Suspends \/ Resumes \/ SnapshotAgain
  BY <1>2, <1>12, Zenon DEF Primes, Suspends, Resumes, SnapshotAgain
<1> QED BY <1>3, <1>4, <1>5, <1>6, <1>7, <1>8, <1>9, <1>10, <1>11, <1>12, Zenon DEF PlayerNext

LEMMA PlayerTypes == ASSUME Heard, PlayerBounds PROVE PlayerTypeOK
<1>1. PlayerTyped
  BY DEF Heard
<1>2. \A s \in sources \cup waits : s.word \in Words /\ s.at \in Int
  BY <1>1, Zenon DEF PlayerTyped
<1>3. \A c \in calls : c.stage \in {"warming", "resuming"}
  BY <1>1, Zenon DEF PlayerTyped, CallRecords
<1> QED BY <1>1, <1>2, <1>3 DEF PlayerTyped, PlayerBounds, PlayerTypeOK

\* The negotiation.
NegotiationBounds == connected \in Crowds /\ authenticated \in 0..connected

LEMMA NegotiationBoundsStep ==
  ASSUME NegotiationBounds, [NegotiationNext]_negotiationVars
  PROVE  NegotiationBounds'
<1>1. UNCHANGED <<connected, authenticated>>
  BY Zenon DEF NegotiationNext, negotiationVars, Negotiates, Decides, Deadline, Acks
<1> QED BY <1>1 DEF NegotiationBounds

LEMMA NegotiationTypes == ASSUME Probed, NegotiationBounds PROVE NegotiationTypeOK
<1>1. connected \in Nat /\ authenticated \in 0..connected /\ Targets \in 0..connected
  BY NegotiationAssumption DEF NegotiationBounds, Targets
<1>2. IsFiniteSet(Outcomes) /\ \A o \in Outcomes : tally[o] \in Nat
  BY OutcomesFinite DEF Probed
<1>3. PICK sum : sum = Sum(tally, Outcomes)
  OBVIOUS
<1>4. ASSUME NEW o \in Outcomes PROVE tally[o] \in 0..sum /\ sum \in Nat
  <2>1. sum \in Nat /\ sum = tally[o] + Sum(tally, Outcomes \ {o})
    BY <1>2, <1>3, SumParts
  <2>2. Sum(tally, Outcomes \ {o}) \in Nat
    BY <1>2, SumWithin
  <2> QED BY <1>2, <2>1, <2>2
<1>5. asked \in -1..connected /\ sum \in 0..connected
  <2>1. sum \in Nat
    BY <1>2, <1>3, SumWithin
  <2>2. asked = -1 => sum = 0
    BY <1>3 DEF Probed
  <2>3. asked # -1 => asked \in Nat /\ asked + sum = Targets
    BY <1>3 DEF Probed
  <2> QED BY <1>1, <2>1, <2>2, <2>3
<1>6. grace \in -1..MaxGrace
  <2>1. Margin \in Nat /\ OutlierRtt \in Nat /\ MaxGrace \in Nat /\ 2 * OutlierRtt + Margin <= MaxGrace
    BY NegotiationAssumption
  <2>2. grace = -1 \/ grace = Margin \/ \E t \in 0..OutlierRtt : grace = 2 * t + Margin
    BY DEF Probed, SlowestOf
  <2> QED BY <2>1, <2>2
<1> QED BY <1>1, <1>4, <1>5, <1>6 DEF NegotiationBounds, NegotiationTypeOK

\* The input line.
ComposerBounds ==
  /\ typed \in Line /\ composing \in BOOLEAN /\ error \in {"none", "invalid", "offline", "rate_limit", "failed"}
  /\ edits \in 0..MaxEdits

LEMMA ComposerBoundsStart == ComposerInit => ComposerBounds
<1> SUFFICES ASSUME ComposerInit PROVE ComposerBounds
  OBVIOUS
<1>1. edits \in 0..MaxEdits
  BY ComposerAssumption DEF ComposerInit
<1>2. typed \in Line /\ composing \in BOOLEAN /\ error = "none"
  BY Zenon DEF ComposerInit, Line
<1> QED BY <1>1, <1>2 DEF ComposerBounds

LEMMA ComposerBoundsStep ==
  ASSUME ComposerBounds, [ComposerNext]_composerVars
  PROVE  ComposerBounds'
<1>1. MaxEdits \in Nat
  BY ComposerAssumption
<1>2. CASE UNCHANGED composerVars
  BY <1>2 DEF composerVars, ComposerBounds
<1>3. ASSUME NEW t \in Line, Types(t) PROVE ComposerBounds'
  BY <1>1, <1>3 DEF Types, ComposerBounds
<1>4. CASE Composes
  BY <1>4 DEF Composes, ComposerBounds
<1>5. ASSUME NEW online \in BOOLEAN, Enters(online) PROVE ComposerBounds'
  <2>1. UNCHANGED <<typed, composing, edits>> /\ error' \in {"invalid", "offline", "none"}
    BY <1>5 DEF Enters
  <2> QED BY <2>1 DEF ComposerBounds
<1>6. ASSUME NEW k \in Sends, ServerTakes(k) \/ TakenLate(k) PROVE ComposerBounds'
  <2>1. UNCHANGED <<typed, composing, edits, error>>
    BY <1>6 DEF ServerTakes, TakenLate
  <2> QED BY <2>1 DEF ComposerBounds
<1>7. ASSUME NEW k \in Sends, AckArrives(k) \/ TimesOut(k) PROVE ComposerBounds'
  <2>1. UNCHANGED <<typed, composing, edits>> /\ error' \in {"none", "rate_limit", "failed"}
    BY <1>7 DEF AckArrives, TimesOut, Finishes
  <2> QED BY <2>1 DEF ComposerBounds
<1> QED BY <1>2, <1>3, <1>4, <1>5, <1>6, <1>7, Zenon DEF ComposerNext

LEMMA ComposerTypes == ASSUME ComposerInv, input \in Line, ComposerBounds PROVE ComposerTypeOK
BY DEF ComposerInv, SendsTyped, ComposerBounds, ComposerTypeOK

\* The march time.
MarchBounds == mount <= MaxMounts /\ saves \in 0..MaxSaves /\ (panel.on => mount >= 1) /\ \A r \in request : r.mount >= 1

LEMMA MarchBoundsStart == MarchInit => MarchBounds
BY MarchAssumption DEF MarchInit, MarchBounds, NoPanel

LEMMA MarchBoundsStep ==
  ASSUME MarchInv, MarchBounds, [MarchNext]_marchVars
  PROVE  MarchBounds'
<1>1. MaxSaves \in Nat /\ MaxMounts \in Nat /\ mount \in Nat /\ request \subseteq Requests /\ panel \in Panels
  BY MarchAssumption DEF MarchInv, MarchTyped
<1>2. CASE UNCHANGED marchVars
  BY <1>2 DEF marchVars, MarchBounds
<1>3. CASE Mounts
  BY <1>1, <1>3 DEF Mounts, Asks, NoPanel, MarchBounds
<1>4. CASE Unmounts
  BY <1>4 DEF Unmounts, NoPanel, MarchBounds
<1>5. ASSUME NEW v \in Values, Saves(v) PROVE MarchBounds'
  BY <1>1, <1>5 DEF Saves, Asks, Panels, MarchBounds
<1>6. ASSUME NEW r \in request, ServerReads(r) \/ ServerWrites(r) PROVE MarchBounds'
  <2>1. PICK v : Carried(r, v) /\ UNCHANGED <<mount, panel, saves>>
    BY <1>6 DEF ServerReads, ServerWrites
  <2>2. [r EXCEPT !.value = v, !.done = TRUE].mount = r.mount
    BY <1>1 DEF Requests
  <2> QED BY <2>1, <2>2 DEF Carried, MarchBounds
<1>7. ASSUME NEW r \in request, LoadArrives(r) \/ LoadFails(r) \/ SaveArrives(r) \/ SaveFails(r) PROVE MarchBounds'
  <2>1. request' \subseteq request /\ UNCHANGED <<mount, saves>> /\ panel'.on = panel.on
    BY <1>1, <1>7 DEF LoadArrives, LoadFails, Loaded, SaveArrives, SaveFails, Waiting, Panels
  <2> QED BY <2>1 DEF MarchBounds
<1>8. ASSUME NEW v \in Values, SavedElsewhere(v) PROVE MarchBounds'
  BY <1>8 DEF SavedElsewhere, MarchBounds
<1> QED BY <1>2, <1>3, <1>4, <1>5, <1>6, <1>7, <1>8, Zenon DEF MarchNext

LEMMA MarchTypes == ASSUME MarchInv, MarchBounds PROVE MarchTypeOK
<1>1. MarchTyped
  BY DEF MarchInv
<1>2. panel.shows \in Values /\ \A r \in request : r.value \in Values /\ r.mount \in Nat
  BY <1>1 DEF MarchTyped, Panels, Requests
<1> QED BY <1>1, <1>2, MarchAssumption DEF MarchTyped, MarchBounds, MarchTypeOK

\* The page.
FormBounds == imageUrls \cup chosen \subseteq 1..changes /\ changes \in 0..MaxChanges

LEMMA FormBoundsStart == BoardPageInit => FormBounds
BY BoardPageAssumption DEF BoardPageInit, FormBounds

LEMMA FormBoundsStep ==
  ASSUME FormBounds, [FormNext]_formVars
  PROVE  FormBounds'
<1>1. MaxChanges \in Nat
  BY BoardPageAssumption
<1>2. CASE UNCHANGED <<imageUrls, chosen, changes>>
  BY <1>2 DEF FormBounds
<1>3. CASE UNCHANGED formVars \/ Chooses
  BY <1>2, <1>3, Zenon DEF Chooses, formVars
<1>4. ASSUME NEW t \in Texts \cup {NoText}, Writes(t) PROVE FormBounds'
  BY <1>1, <1>4 DEF Writes, Changed, FormBounds
<1>5. ASSUME NEW stored \in BOOLEAN, UploadEnds(stored) PROVE FormBounds'
  BY <1>1, <1>5 DEF UploadEnds, Uploaded, Changed, FormBounds
<1>6. ASSUME NEW i \in imageUrls, RemovesImage(i) PROVE FormBounds'
  BY <1>1, <1>6 DEF RemovesImage, Changed, FormBounds
<1>7. ASSUME NEW byKey \in BOOLEAN, Publishes(byKey) PROVE FormBounds'
  BY <1>2, <1>7, Zenon DEF Publishes
<1>8. ASSUME NEW k \in attempts, Accepts(k) \/ PostEnds(k) \/ PostFails(k) PROVE FormBounds'
  <2>1. imageUrls' \subseteq imageUrls /\ UNCHANGED <<chosen, changes>>
    BY <1>8 DEF Accepts, PostEnds, PostFails, Remains
  <2> QED BY <2>1 DEF FormBounds
<1> QED BY <1>3, <1>4, <1>5, <1>6, <1>7, <1>8, Zenon DEF FormNext

LEMMA BoardPageTypes == ASSUME TranslationInv, FormInv, FormBounds PROVE BoardPageTypeOK
BY DEF TranslationInv, FormInv, FormBounds, BoardPageTypeOK

\* The canvas.
CanvasBounds == canDraw \in BOOLEAN /\ Len(track) <= MaxTrack

LEMMA CanvasBoundsStart == CanvasInit => CanvasBounds
BY CanvasAssumption DEF CanvasInit, CanvasBounds

LEMMA CanvasBoundsStep ==
  ASSUME StrokeInv, CanvasBounds, [CanvasNext]_canvasVars
  PROVE  CanvasBounds'
<1>1. MaxTrack \in Nat /\ MaxTrack >= 1 /\ track \in Seq(Places) /\ Len(track) \in Nat
  BY CanvasAssumption DEF StrokeInv
<1>2. CASE UNCHANGED <<canDraw, track>>
  BY <1>2 DEF CanvasBounds
<1>3. ASSUME NEW p \in Places, NEW k \in {"path", "shape"}, PointerDown(k, p) PROVE CanvasBounds'
  BY <1>1, <1>3 DEF PointerDown, CanvasBounds
<1>4. ASSUME NEW p \in Places, Stamps(p) PROVE CanvasBounds'
  BY <1>2, <1>4, Zenon DEF Stamps
<1>5. ASSUME NEW p \in Places, PointerMove(p) PROVE CanvasBounds'
  BY <1>1, <1>5 DEF PointerMove, CanvasBounds
<1>6. CASE FinishDraft \/ PointerCancel
  BY <1>1, <1>6 DEF FinishDraft, PointerCancel, CanvasBounds
<1>7. CASE PermissionChanges
  BY <1>7 DEF PermissionChanges, CanvasBounds
<1>8. CASE UNCHANGED canvasVars
  BY <1>2, <1>8 DEF canvasVars
<1> QED BY <1>3, <1>4, <1>5, <1>6, <1>7, <1>8, Zenon DEF CanvasNext

LEMMA CanvasTypes == ASSUME StrokeInv, CanvasBounds PROVE CanvasTypeOK
<1>1. \A d \in {draft, added.what} : d \in Elements
  BY Zenon DEF StrokeInv
<1>2. \A d \in Elements : d.points \in Seq(Places) /\ d.kind \in {"none", "path", "shape", "stamp"}
  BY Zenon DEF Elements
<1> QED BY <1>1, <1>2 DEF StrokeInv, CanvasBounds, CanvasTypeOK

-----------------------------------------------------------------------------
(* All that the browser does.                                              *)

BrowserBounds ==
  ClockBounds /\ PlayerBounds /\ NegotiationBounds /\ ComposerBounds /\ MarchBounds /\ FormBounds /\ CanvasBounds

BrowserInv ==
  /\ ClockInv /\ Heard /\ Followed /\ Probed
  /\ ComposerInv /\ input \in Line
  /\ MarchInv /\ TranslationInv /\ FormInv /\ StrokeInv

LEMMA BrowserStart == Init => BrowserInv
<1> SUFFICES ASSUME Init PROVE BrowserInv
  OBVIOUS
<1>0. PICK cold : cold = IF part \in {"countdown", "rally"} THEN ColdWords ELSE {}
  OBVIOUS
<1>1. PICK k : k = IF part \in {"rally", "rally estimates"} THEN "rally" ELSE "countdown"
  BY Zenon
<1>2. Heard /\ Followed
  <2>1. k \in {"countdown", "rally"}
    BY <1>1, Zenon
  <2>2. PlayerInit(k, cold)
    BY <1>0, <1>1, Zenon DEF Init
  <2> QED BY <2>1, <2>2, PlayerStart
<1>3. input \in Line
  BY Zenon DEF Init, ComposerInit, Line
<1>4. ClockInv /\ Probed /\ ComposerInv /\ MarchInv /\ TranslationInv /\ FormInv /\ StrokeInv
  BY ClockStart, NegotiationStart, ComposerStart, MarchStart, TranslationStart, FormStart, CanvasStart, Zenon DEF Init
<1> QED BY <1>2, <1>3, <1>4 DEF BrowserInv

\* A step of one part is one of its component, and leaves the others alone.
LEMMA OneBrowserSteps ==
  ASSUME [Next]_vars
  PROVE  /\ [ClockNext]_clockVars /\ [PlayerNext]_playerVars /\ [NegotiationNext]_negotiationVars
         /\ [ComposerNext]_composerVars /\ [MarchNext]_marchVars /\ [TranslationNext]_translationVars
         /\ [FormNext]_formVars /\ [CanvasNext]_canvasVars
<1>1. CASE UNCHANGED vars
  BY <1>1 DEF vars
<1>2. CASE Next
  <2>1. [ClockNext]_clockVars
    BY <1>2, Zenon DEF Next, Keep
  <2>2. [PlayerNext]_playerVars
    BY <1>2, Zenon DEF Next, Keep
  <2>3. [NegotiationNext]_negotiationVars
    BY <1>2, Zenon DEF Next, Keep
  <2>4. [ComposerNext]_composerVars
    BY <1>2, Zenon DEF Next, Keep
  <2>5. [MarchNext]_marchVars
    BY <1>2, Zenon DEF Next, Keep
  <2>6. [TranslationNext]_translationVars
    BY <1>2, Zenon DEF Next, Keep
  <2>7. [FormNext]_formVars
    BY <1>2, Zenon DEF Next, Keep
  <2>8. [CanvasNext]_canvasVars
    BY <1>2, Zenon DEF Next, Keep
  <2> QED BY <2>1, <2>2, <2>3, <2>4, <2>5, <2>6, <2>7, <2>8
<1> QED BY <1>1, <1>2

LEMMA BrowserStep == BrowserInv /\ [Next]_vars => BrowserInv'
<1> SUFFICES ASSUME BrowserInv, [Next]_vars PROVE BrowserInv'
  OBVIOUS
<1>1. ClockInv' /\ (Heard /\ Followed)' /\ Probed'
  BY OneBrowserSteps, ClockStep, PlayerStep, NegotiationStep DEF BrowserInv
<1>2. ComposerInv' /\ (input \in Line)' /\ MarchInv'
  BY OneBrowserSteps, ComposerStep, MarchStep DEF BrowserInv
<1>3. TranslationInv' /\ FormInv' /\ StrokeInv'
  BY OneBrowserSteps, TranslationStep, FormStep, CanvasStep DEF BrowserInv
<1> QED BY <1>1, <1>2, <1>3 DEF BrowserInv

LEMMA BoundsStart == Init => BrowserBounds
<1> SUFFICES ASSUME Init PROVE BrowserBounds
  OBVIOUS
<1>1. PlayerBounds
  <2>1. PICK k, cold : PlayerInit(k, cold)
    BY Zenon DEF Init
  <2> QED BY <2>1, PlayerBoundsStart
<1>2. NegotiationBounds
  BY Zenon DEF Init, NegotiationInit, NegotiationBounds
<1>3. ClockBounds /\ ComposerBounds /\ MarchBounds /\ FormBounds /\ CanvasBounds
  BY ClockBoundsStart, ComposerBoundsStart, MarchBoundsStart, FormBoundsStart, CanvasBoundsStart, Zenon DEF Init
<1> QED BY <1>1, <1>2, <1>3 DEF BrowserBounds

LEMMA BoundsStep == BrowserInv /\ BrowserBounds /\ [Next]_vars => BrowserBounds'
<1> SUFFICES ASSUME BrowserInv, BrowserBounds, [Next]_vars PROVE BrowserBounds'
  OBVIOUS
<1>1. ClockBounds' /\ PlayerBounds' /\ NegotiationBounds'
  BY OneBrowserSteps, ClockBoundsStep, PlayerBoundsStep, NegotiationBoundsStep DEF BrowserInv, BrowserBounds
<1>2. ComposerBounds' /\ MarchBounds'
  BY OneBrowserSteps, ComposerBoundsStep, MarchBoundsStep DEF BrowserInv, BrowserBounds
<1>3. FormBounds' /\ CanvasBounds'
  BY OneBrowserSteps, FormBoundsStep, CanvasBoundsStep DEF BrowserInv, BrowserBounds
<1> QED BY <1>1, <1>2, <1>3 DEF BrowserBounds


\* The clock is near and its timers are of the session, what is spoken is what was planned,
\* in its second, the start is fair, and no message, march time, post, translation or stroke
\* is lost or mixed up, for any of their constants and in whatever part of the page
\* something happens; and every variable has its type.
THEOREM BrowserIsSound == Spec => [](TypeOK /\ BrowserSound)
<1>1. BrowserInv => BrowserSound
  <2> SUFFICES ASSUME BrowserInv PROVE BrowserSound
    OBVIOUS
  <2>1. TimersOfSession /\ ClockNear /\ SpeechInTime /\ GraceCovers /\ NobodyWaitedFor
    BY InvClock, InvSpeechInTime, InvGraceCovers, InvNobodyWaitedFor DEF BrowserInv
  <2>2. NothingVanishes /\ OneAwaited /\ MarchAgrees /\ InItsLanguage /\ DraftKept /\ StrokeKept
    BY InvMarchAgrees, InvInItsLanguage, InvDraftKept, InvStrokeKept DEF BrowserInv, ComposerInv
  <2> QED BY <2>1, <2>2 DEF BrowserSound, SpeechInTime
<1>2. BrowserInv /\ BrowserBounds => TypeOK
  <2> SUFFICES ASSUME BrowserInv, BrowserBounds PROVE TypeOK
    OBVIOUS
  <2>1. ClockTypeOK /\ PlayerTypeOK /\ NegotiationTypeOK
    BY ClockTypes, PlayerTypes, NegotiationTypes DEF BrowserInv, BrowserBounds
  <2>2. ComposerTypeOK /\ MarchTypeOK /\ BoardPageTypeOK /\ CanvasTypeOK
    BY ComposerTypes, MarchTypes, BoardPageTypes, CanvasTypes DEF BrowserInv, BrowserBounds
  <2> QED BY <2>1, <2>2 DEF TypeOK
<1> QED BY <1>1, <1>2, BrowserStart, BrowserStep, BoundsStart, BoundsStep, PTL DEF Spec
=============================================================================
