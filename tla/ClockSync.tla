----------------------------- MODULE ClockSync -----------------------------
(***************************************************************************)
(* How a browser estimates the clock of the server                         *)
(* (web/src/clockSync.js): samples over the socket or over HTTP, the one   *)
(* with the shortest round trip, adopted at once or halved into the old    *)
(* estimate; the first synchronisation with its retries, the periodic one, *)
(* the check for a device clock that jumps, and the other tabs.  Time is   *)
(* not counted: skew is what must be added to the device clock, and a jump *)
(* of the device clock changes it.                                         *)
(***************************************************************************)
EXTENDS Integers, FiniteSets, FiniteSetsExt

CONSTANTS
  Syncs,           \* calls of syncTime() under way at one time
  Skews,           \* server clock - device clock
  Delays,          \* one way delays, there and back
  PingTimeout,     \* WS_PING_TIMEOUT_MS
  SampleCount, ExtraSampleCount,
  DeviationLimit,  \* RTT_STDDEV_RESAMPLE_THRESHOLD_MS
  JumpLimit,       \* JUMP_THRESHOLD_MS
  DriftLimit,      \* DRIFT_THRESHOLD_MS
  MaxJumps, MaxFailures, MaxSessions, MaxTold

ASSUME ClockAssumption ==
  /\ Skews \subseteq Int /\ 0 \in Skews
  /\ Delays \subseteq Nat \X Nat /\ IsFiniteSet(Delays) /\ Delays # {}
  /\ {PingTimeout, JumpLimit, DriftLimit, DeviationLimit, ExtraSampleCount} \subseteq Nat
  /\ SampleCount \in Nat \ {0}
  /\ {MaxJumps, MaxFailures, MaxSessions, MaxTold} \subseteq Nat

VARIABLES
  skew, jumps,   \* the device clock, and how often it has jumped
  user,          \* somebody is logged in
  offset,        \* store.timeOffset
  hasSynced,     \* _hasSynced
  shownState,    \* store.timeSyncState
  asOf,          \* the jump after which the sync that wrote offset began, or -1
  token,         \* _lifecycleToken
  pending,       \* token of _startupPromise, or 0
  started,       \* _started: the periodic and the drift timers run, the channel is open
  loops,         \* tokens of the startup loops that wait for their next attempt
  lastSkew,      \* what _lastWallMs - _lastPerfMs amounts to
  sync,          \* per call of syncTime(): where it is
  failures, told

clockVars == <<skew, jumps, user, offset, hasSynced, shownState, asOf, token, pending, started, loops, lastSkew, sync, failures, told>>

\* by: the token of the startup that awaits it, or 0.  The sample under way has the skew
\* of its t0 (from).  Of the samples taken the best and, until their deviation has been
\* judged, the round trips are kept.
NoSample == [rtt |-> 0, off |-> 0]
NotSyncing == [on |-> FALSE, by |-> 0, from |-> 0, taken |-> 0, best |-> NoSample, rtts |-> {}, since |-> 0]

ClockInit ==
  /\ skew = 0 /\ jumps = 0 /\ user = FALSE /\ offset = 0 /\ hasSynced = FALSE /\ shownState = "unsynced"
  /\ asOf = -1 /\ token = 0 /\ pending = 0 /\ started = FALSE /\ loops = {} /\ lastSkew = 0
  /\ sync = [s \in Syncs |-> NotSyncing] /\ failures = 0 /\ told = 0

-----------------------------------------------------------------------------
(***************************************************************************)
(* Sampling                                                                *)
(***************************************************************************)
\* syncTime() begins with the t0 of its first sample.
Begun(s, by) ==
  /\ ~sync[s].on
  /\ sync' = [sync EXCEPT ![s] = [NotSyncing EXCEPT !.on = TRUE, !.by = by, !.from = skew, !.since = jumps]]

\* fetchOneSample: rtt = (t3 - t0) - (t2 - t1) and offset = ((t1 - t0) + (t2 - t3)) / 2,
\* of device clocks that stood at skews from and skew.  When the ping is not answered
\* (null, or the timeout) the request over HTTP is measured from the same t0 (wait).
Sample(from, d, wait) ==
  [rtt |-> wait + d[1] + d[2] + from - skew,
   off |-> (wait + d[1] - d[2] + from + skew) \div 2]

\* The standard deviation reaches the limit (equal round trips are kept once: while
\* SampleCount is at most two this does not change it).
Jittery(rtts) ==
  LET sum == SumSet(rtts)
      n == Cardinality(rtts)
  IN n >= 2 /\ n * MapThenSumSet(LAMBDA x : x * x, rtts) - sum * sum >= n * n * DeviationLimit * DeviationLimit

\* The one with the shortest round trip.
Better(old, new) == IF new.rtt < old.rtt THEN new ELSE old

AbsOf(n) == IF n < 0 THEN -n ELSE n

\* MUTANT of Estimate: every change is smoothed, the first and the jumps too.
EstimateSmoothed(best) == (offset + best.off) \div 2

\* The first estimate and a jump are adopted, anything else is smoothed.
Estimate(best) ==
  IF ~hasSynced \/ AbsOf(best.off - offset) >= JumpLimit THEN best.off ELSE (offset + best.off) \div 2

\* MUTANT of Starts: the timers are left to the caller.
StartsNothing(by) == FALSE

\* MUTANT of Starts: whoever comes back starts them.
StartsAnyway(by) == by # 0

\* The startup that awaited it starts the timers, unless it has been shut down since.
Starts(by) == by # 0 /\ by = token

\* All samples are in: syncTime() writes the estimate and tells the other tabs.
Succeeds(s, best) ==
  LET by == sync[s].by IN
  /\ sync' = [sync EXCEPT ![s] = NotSyncing]
  /\ offset' = Estimate(best) /\ hasSynced' = TRUE /\ shownState' = "synced" /\ asOf' = sync[s].since
  /\ started' = (started \/ Starts(by)) /\ pending' = IF pending = by THEN 0 ELSE pending
  /\ lastSkew' = IF Starts(by) THEN skew ELSE lastSkew
  /\ UNCHANGED loops

\* MUTANT of Throws: the first failure is the last attempt.
ThrowsOnce(s) ==
  /\ sync' = [sync EXCEPT ![s] = NotSyncing]
  /\ shownState' = IF sync[s].by # 0 /\ sync[s].by = token THEN "failed" ELSE shownState
  /\ UNCHANGED <<offset, hasSynced, asOf, started, pending, loops, lastSkew>>

\* None was answered: it throws, and the startup waits for its next attempt.
Throws(s) ==
  LET by == sync[s].by IN
  /\ sync' = [sync EXCEPT ![s] = NotSyncing]
  /\ loops' = IF by # 0 /\ by = token THEN loops \cup {by} ELSE loops
  /\ shownState' = IF by # 0 /\ by = token THEN "failed" ELSE shownState
  /\ UNCHANGED <<offset, hasSynced, asOf, started, pending, lastSkew>>

\* One sample, or none, has been collected; more are, once, when the round trips vary.
Collected(s, got) ==
  LET c == sync[s]
      taken == c.taken + 1
      none == c.rtts = {}
      best == IF got = {} THEN c.best
              ELSE LET new == CHOOSE x \in got : TRUE IN IF none THEN new ELSE Better(c.best, new)
      rtts == c.rtts \cup {x.rtt : x \in got}
      judged == taken >= SampleCount
  IN CASE judged /\ rtts = {} -> Throws(s)
       [] judged /\ rtts # {} /\ (taken = SampleCount + ExtraSampleCount \/ (taken = SampleCount /\ ~Jittery(rtts))) ->
            Succeeds(s, best)
       [] OTHER ->
            /\ sync' = [sync EXCEPT ![s].taken = taken, ![s].best = best, ![s].from = skew,
                                    ![s].rtts = IF judged THEN {best.rtt} ELSE rtts]
            /\ UNCHANGED <<offset, hasSynced, shownState, asOf, started, pending, loops, lastSkew>>

SampleArrives(s) ==
  /\ sync[s].on
  /\ \E d \in Delays, wait \in {0, PingTimeout} : Collected(s, {Sample(sync[s].from, d, wait)})
  /\ UNCHANGED <<skew, jumps, user, token, failures, told>>

SampleFails(s) ==
  /\ sync[s].on /\ failures < MaxFailures
  /\ Collected(s, {}) /\ failures' = failures + 1
  /\ UNCHANGED <<skew, jumps, user, token, told>>

-----------------------------------------------------------------------------
(***************************************************************************)
(* When it is done                                                         *)
(***************************************************************************)
\* startup(), by the effect on the account: once, until it is shut down.
Startup(s) ==
  /\ ~user /\ token < 2 * MaxSessions
  /\ user' = TRUE
  /\ IF started \/ pending # 0
     THEN UNCHANGED <<sync, shownState, token, pending>>
     ELSE /\ token' = token + 1 /\ pending' = token + 1
          /\ shownState' = "syncing" /\ Begun(s, token + 1)
  /\ UNCHANGED <<skew, jumps, offset, hasSynced, asOf, started, loops, lastSkew, failures, told>>

\* The loop goes on after its backoff.
Again(s, k) ==
  /\ k \in loops /\ loops' = loops \ {k}
  /\ IF k = token
     THEN shownState' = "syncing" /\ Begun(s, k)
     ELSE ~sync[s].on /\ UNCHANGED <<shownState, sync>>
  /\ UNCHANGED <<skew, jumps, user, offset, hasSynced, asOf, token, pending, started, lastSkew, failures, told>>

\* MUTANT of Shutdown: the startup under way stays the one to wait for.
ShutdownKeepsPromise ==
  /\ user /\ user' = FALSE /\ token < 2 * MaxSessions /\ token' = token + 1
  /\ started' = FALSE /\ hasSynced' = FALSE /\ shownState' = "unsynced"
  /\ UNCHANGED <<skew, jumps, offset, asOf, pending, loops, lastSkew, sync, failures, told>>

\* shutdown(): what is under way goes on.
Shutdown ==
  /\ user /\ user' = FALSE /\ token < 2 * MaxSessions /\ token' = token + 1
  /\ started' = FALSE /\ pending' = 0 /\ hasSynced' = FALSE /\ shownState' = "unsynced"
  /\ UNCHANGED <<skew, jumps, offset, asOf, loops, lastSkew, sync, failures, told>>

\* The periodic timer; the tab that comes back and the socket that reconnects do the same.
Resync(s) ==
  /\ user /\ Begun(s, 0)
  /\ UNCHANGED <<skew, jumps, user, offset, hasSynced, shownState, asOf, token, pending, started, loops, lastSkew, failures, told>>

PeriodicSync(s) == started /\ Resync(s)

\* The wall clock against the monotonic one.
DriftCheck(s) ==
  /\ started /\ lastSkew # skew /\ lastSkew' = skew
  /\ IF AbsOf(skew - lastSkew) > DriftLimit THEN Begun(s, 0) ELSE UNCHANGED sync
  /\ UNCHANGED <<skew, jumps, user, offset, hasSynced, shownState, asOf, token, pending, started, loops, failures, told>>

\* Another tab posts its estimate; the channel is open from the startup on.  It measured
\* the same device clock, since or before its last jump.
OtherTab(k, err) ==
  /\ user /\ told < MaxTold /\ told' = told + 1
  /\ offset' = k + err /\ hasSynced' = TRUE /\ shownState' = "synced"
  /\ asOf' = IF k = skew THEN jumps ELSE -1
  /\ UNCHANGED <<skew, jumps, user, token, pending, started, loops, lastSkew, sync, failures>>

\* The device clock is set; some of the calls wait between two samples just then.
ClockSet(k, between) ==
  /\ jumps < MaxJumps /\ k # skew
  /\ skew' = k /\ jumps' = jumps + 1
  /\ \A s \in between : sync[s].on
  /\ sync' = [s \in Syncs |-> IF s \in between THEN [sync[s] EXCEPT !.from = k] ELSE sync[s]]
  /\ UNCHANGED <<user, offset, hasSynced, shownState, asOf, token, pending, started, loops, lastSkew, failures, told>>

SyncSteps(s) == SampleArrives(s) \/ SampleFails(s)

\* How far a sample under one skew can be off, and an estimate made of such samples.
SampleError == Max({AbsOf(d[1] - d[2] + w) : d \in Delays, w \in {0, PingTimeout}}) \div 2
EstimateError == SampleError + JumpLimit \div 2 + 1

ClockNext ==
  \/ \E s \in Syncs : SyncSteps(s) \/ Startup(s) \/ Resync(s) \/ DriftCheck(s) \/ \E k \in loops : Again(s, k)
  \/ Shutdown
  \/ \E k \in Skews : (\E between \in SUBSET Syncs : ClockSet(k, between)) \/ \E err \in {-SampleError, SampleError} : OtherTab(k, err)

\* Requests are answered or time out, timers fire.
ClockFairness ==
  /\ \A s \in Syncs : WF_clockVars(SyncSteps(s))
  /\ WF_clockVars(\E s \in Syncs : PeriodicSync(s) \/ \E k \in loops : Again(s, k))

-----------------------------------------------------------------------------
ClockTypeOK ==
  /\ skew \in Skews /\ jumps \in 0..MaxJumps /\ user \in BOOLEAN /\ offset \in Int /\ hasSynced \in BOOLEAN
  /\ shownState \in {"unsynced", "syncing", "synced", "failed"} /\ asOf \in -1..MaxJumps
  /\ token \in 0..(2 * MaxSessions) /\ pending \in 0..token /\ started \in BOOLEAN /\ loops \subseteq 1..token
  /\ lastSkew \in Skews /\ failures \in 0..MaxFailures /\ told \in 0..MaxTold
  /\ \A s \in Syncs : sync[s].by \in 0..token /\ (sync[s].rtts # {} => sync[s].best.rtt \in sync[s].rtts)

\* The timers, which ask the server every half minute, run only while somebody is
\* logged in, however late the startup that starts them comes back.
TimersOfSession == started => user

\* An estimate made entirely since the last jump of the device clock is near: the jump is
\* adopted or halved away, whatever older synchronisations end in between.
ClockNear == asOf = jumps => AbsOf(offset - skew) <= EstimateError

\* Once the device clock is left alone the estimate comes near and stays so, even
\* when the last synchronisation to write it was measured across a jump.
ClockSettles == <>[](user => AbsOf(offset - skew) <= EstimateError)
=============================================================================
