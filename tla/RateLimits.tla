----------------------------- MODULE RateLimits -----------------------------
(***************************************************************************)
(* The sliding windows that limit how often something is done: the login   *)
(* attempts of an account (server/src/common/account-login-throttle.ts),   *)
(* the calls of a translation provider                                     *)
(* (server/src/translate/translation-rate-limit.service.ts) and the events *)
(* of a socket (server/src/realtime/ws-rate-limit.service.ts).  A window is *)
(* the list of the times at which something was let through.               *)
(***************************************************************************)
EXTENDS Lists, SequencesExt

CONSTANTS
  Accounts, Ips,            \* folded nicknames and client addresses
  AccountLimit, PairLimit,  \* ACCOUNT_ATTEMPT_LIMIT, ACCOUNT_IP_ATTEMPT_LIMIT
  SweepFloor, MaxKeys,      \* SWEEP_FLOOR, MAX_TRACKED_KEYS
  Callers,                  \* users who ask for translations
  CallerLimit, GlobalLimit, \* TRANSLATION_PROVIDER_RATE_LIMIT, ..._GLOBAL_...
  EventSockets, EventLimit,      \* sockets of one event, and its limit
  Window,                   \* the length of each window
  MaxTime,                  \* bound on the clock
  MaxEvictions              \* bound on the evictions of attempts that still count

ASSUME RateLimitsAssumption ==
  /\ AccountLimit \in Nat \ {0} /\ PairLimit \in Nat \ {0} /\ Window \in Nat \ {0}
  /\ CallerLimit \in Nat \ {0} /\ GlobalLimit \in Nat \ {0} /\ EventLimit \in Nat \ {0}
  /\ SweepFloor \in Nat \ {0} /\ MaxKeys \in Nat \ {0}
  /\ IsFiniteSet(Accounts) /\ IsFiniteSet(Ips)
  /\ Accounts \cap (Accounts \X Ips) = {}
  /\ MaxTime \in Nat \ {0} /\ MaxEvictions \in Nat

VARIABLES
  now,       \* Date.now()
  attempts,  \* per account, and per account and address: the Map of the throttle
  sweepAt,   \* the size at which the Map is swept
  tried,     \* what was let through, per account, and account and address, whatever was swept
  evicted,   \* how often a sweep dropped attempts still inside their window
  provider,  \* the providerBuckets
  total,     \* the globalProviderBucket
  promise,   \* per caller: the time at which it was told to come back, and by which limit
  events     \* the buckets of the sockets

loginVars == <<attempts, sweepAt, tried, evicted>>
providerVars == <<provider, total, promise>>
limitVars == <<now, loginVars, providerVars, events>>

Pairs == Accounts \X Ips
Keys == Accounts \cup Pairs
NoPromise == [at |-> 0, by |-> "nobody"]

LimitsInit ==
  /\ now = 1
  /\ attempts = [k \in Keys |-> <<>>] /\ sweepAt = SweepFloor
  /\ tried = [k \in Keys |-> <<>>] /\ evicted = 0
  /\ provider = [c \in Callers |-> <<>>] /\ total = <<>>
  /\ promise = [c \in Callers |-> NoPromise]
  /\ events = [s \in EventSockets |-> <<>>]

\* A moment that is a window old is outside of it ...
Recent(hits) == FromFirst(hits, {i \in DOMAIN hits : hits[i] > now - Window})
\* ... except for the events of a socket, which drop what is strictly older.
RecentEvents(hits) == FromFirst(hits, {i \in DOMAIN hits : hits[i] >= now - Window})

Tick == now < MaxTime /\ now' = now + 1

-----------------------------------------------------------------------------
(* The login throttle.                                                     *)

Size(map) == Cardinality({k \in Keys : map[k] # <<>>})
Unexpired(map) == [k \in Keys |-> IF map[k] # <<>> /\ Last(map[k]) <= now - Window THEN <<>> ELSE map[k]]

\* The keys a sweep may drop over the cap: the first so many by their last
\* attempt; the sort leaves those of one moment in the order of the Map.
Oldest(map, n) ==
  {drop \in SUBSET {k \in Keys : map[k] # <<>>} :
     /\ Cardinality(drop) = n
     /\ \A k \in drop, l \in Keys \ drop : map[l] # <<>> => Last(map[k]) <= Last(map[l])}

Larger(a, b) == IF a > b THEN a ELSE b

\* MUTANT of Sweep: the size at which the next sweep comes is not bounded by what is left.
SweepRarely(map) ==
  IF Size(map) < sweepAt
  THEN attempts' = map /\ UNCHANGED <<sweepAt, evicted>>
  ELSE /\ attempts' = Unexpired(map) /\ UNCHANGED evicted
       /\ sweepAt' = Larger(SweepFloor, Size(Unexpired(map)) * 2)

\* MUTANT of Sweep: it drops what was last seen before now, expired or not.
SweepEagerly(map) ==
  IF Size(map) < sweepAt
  THEN attempts' = map /\ UNCHANGED <<sweepAt, evicted>>
  ELSE /\ attempts' = [k \in Keys |-> IF map[k] # <<>> /\ Last(map[k]) < now THEN <<>> ELSE map[k]]
       /\ sweepAt' = SweepFloor /\ UNCHANGED evicted

\* enforceMemoryCap after the attempts of the Map became map.
Sweep(map) ==
  \/ Size(map) < sweepAt /\ attempts' = map /\ UNCHANGED <<sweepAt, evicted>>
  \/ /\ Size(map) >= sweepAt /\ Size(Unexpired(map)) <= MaxKeys
     /\ attempts' = Unexpired(map)
     /\ sweepAt' = Larger(SweepFloor, Size(Unexpired(map)) * 2)
     /\ UNCHANGED evicted
  \/ /\ Size(map) >= sweepAt /\ Size(Unexpired(map)) > MaxKeys /\ evicted < MaxEvictions
     /\ \E drop \in Oldest(Unexpired(map), Size(Unexpired(map)) - MaxKeys \div 2) :
          attempts' = [k \in Keys |-> IF k \in drop THEN <<>> ELSE Unexpired(map)[k]]
     /\ sweepAt' = Larger(SweepFloor, (MaxKeys \div 2) * 2)
     /\ evicted' = evicted + 1

Hits(k) == Len(Recent(attempts[k]))

\* MUTANT of Blocked: a busy account is closed to addresses that never failed.
BlockedForAll(a, ip) == Hits(<<a, ip>>) >= PairLimit \/ Hits(a) >= AccountLimit

\* MUTANT of Blocked: the limit is exceeded by one.
BlockedLate(a, ip) ==
  \/ Hits(<<a, ip>>) > PairLimit
  \/ Hits(a) > AccountLimit /\ Hits(<<a, ip>>) >= 1

\* An address is closed to an account when it used up its share, or when the
\* account's is used up and the address has its part in that.
Blocked(a, ip) ==
  \/ Hits(<<a, ip>>) >= PairLimit
  \/ Hits(a) >= AccountLimit /\ Hits(<<a, ip>>) >= 1

\* consume lets the attempt through: it counts for the account and the address.
LoginTried(a, ip) ==
  /\ ~Blocked(a, ip)
  /\ Sweep([attempts EXCEPT ![a] = Append(Recent(@), now),
                            ![<<a, ip>>] = Append(Recent(@), now)])
  /\ tried' = [tried EXCEPT ![a] = Append(Recent(@), now),
                           ![<<a, ip>>] = Append(Recent(@), now)]
  /\ UNCHANGED <<now, providerVars, events>>

\* MUTANT of LoginRefused: a refused attempt counts for the address as well.
RefusedCounts(a, ip) ==
  /\ Blocked(a, ip)
  /\ attempts' = [attempts EXCEPT ![a] = Recent(@), ![<<a, ip>>] = Append(Recent(@), now)]
  /\ UNCHANGED <<now, sweepAt, tried, evicted, providerVars, events>>

\* A refused attempt is not counted; the two windows were pruned all the same.
LoginRefused(a, ip) ==
  /\ Blocked(a, ip)
  /\ attempts' = [attempts EXCEPT ![a] = Recent(@), ![<<a, ip>>] = Recent(@)]
  /\ UNCHANGED <<now, sweepAt, tried, evicted, providerVars, events>>

\* recordSuccess: the account starts over, and the address with it.
LoginSucceeded(a, ip) ==
  /\ attempts[<<a, ip>>] # <<>>
  /\ attempts' = [attempts EXCEPT ![a] = <<>>, ![<<a, ip>>] = <<>>]
  /\ tried' = [tried EXCEPT ![a] = <<>>, ![<<a, ip>>] = <<>>]
  /\ UNCHANGED <<now, sweepAt, evicted, providerVars, events>>

-----------------------------------------------------------------------------
(* consumeProviderMiss.                                                    *)

\* MUTANT of ComeBack: the promise is the age of the oldest call, not its end.
ComeBackEarly(hits) == Larger(1, Head(hits) + Window - now - 1)

\* blockedResult: how long until the oldest call leaves the window.
ComeBack(hits) == Larger(1, Head(hits) + Window - now)

Called(c) ==
  LET own == Recent(provider[c])
      all == Recent(total)
  IN  /\ \/ /\ Len(own) < CallerLimit /\ Len(all) < GlobalLimit
            /\ provider' = [provider EXCEPT ![c] = Append(own, now)]
            /\ total' = Append(all, now)
            /\ promise' = [promise EXCEPT ![c] = NoPromise]
         \/ /\ Len(own) >= CallerLimit
            /\ provider' = [provider EXCEPT ![c] = own] /\ total' = all
            /\ promise' = [promise EXCEPT ![c] = [at |-> now + ComeBack(own), by |-> "caller"]]
         \/ /\ Len(own) < CallerLimit /\ Len(all) >= GlobalLimit
            /\ provider' = [provider EXCEPT ![c] = own] /\ total' = all
            /\ promise' = [promise EXCEPT ![c] = [at |-> now + ComeBack(all), by |-> "all"]]
      /\ UNCHANGED <<now, loginVars, events>>

-----------------------------------------------------------------------------
(* check and cleanup of the events of a socket.                            *)

\* MUTANT of EventPassed: what is a window old is kept but does not count.
EventPassedEarly(s) ==
  /\ Len(Recent(events[s])) < EventLimit
  /\ events' = [events EXCEPT ![s] = Append(RecentEvents(@), now)]
  /\ UNCHANGED <<now, loginVars, providerVars>>

EventPassed(s) ==
  /\ Len(RecentEvents(events[s])) < EventLimit
  /\ events' = [events EXCEPT ![s] = Append(RecentEvents(@), now)]
  /\ UNCHANGED <<now, loginVars, providerVars>>

EventRefused(s) ==
  /\ Len(RecentEvents(events[s])) >= EventLimit
  /\ events' = [events EXCEPT ![s] = RecentEvents(@)]
  /\ UNCHANGED <<now, loginVars, providerVars>>

Cleanup(s) ==
  /\ events' = [events EXCEPT ![s] = <<>>]
  /\ UNCHANGED <<now, loginVars, providerVars>>

TimePasses == Tick /\ UNCHANGED <<loginVars, providerVars, events>>

LoginNext ==
  \E a \in Accounts, ip \in Ips : LoginTried(a, ip) \/ LoginRefused(a, ip) \/ LoginSucceeded(a, ip)
ProviderNext == \E c \in Callers : Called(c)
EventNext == \E s \in EventSockets : EventPassed(s) \/ EventRefused(s) \/ Cleanup(s)

LimitsNext == TimePasses \/ LoginNext \/ ProviderNext \/ EventNext
LimitsSpec == LimitsInit /\ [][LimitsNext]_limitVars

-----------------------------------------------------------------------------
(* Properties.                                                             *)

\* Every variable of the limits has its type.
LimitsTypeOK ==
  /\ now \in 1..MaxTime /\ sweepAt \in Nat /\ evicted \in 0..MaxEvictions
  /\ \A k \in Keys : attempts[k] \in Seq(1..MaxTime) /\ tried[k] \in Seq(1..MaxTime)
  /\ \A c \in Callers : provider[c] \in Seq(1..MaxTime)
  /\ total \in Seq(1..MaxTime)
  /\ \A c \in Callers : promise[c].at \in Nat /\ promise[c].by \in {"nobody", "caller", "all"}
  /\ \A s \in EventSockets : events[s] \in Seq(1..MaxTime)

\* Unless the cap on the memory was reached, no address gets more than its share
\* of attempts at an account in a window, and all addresses together no more than
\* the share of the account and one each, whatever sweeps came between.
LoginWithinLimits ==
  evicted > 0 \/ \A a \in Accounts :
    /\ Len(Recent(tried[a])) <= AccountLimit + Cardinality(Ips)
    /\ \A ip \in Ips : Len(Recent(tried[<<a, ip>>])) <= PairLimit

\* An address is refused only while an attempt of its own that was let through is
\* inside the window: one that never tried is let in however busy the account is,
\* and knocking while refused does not make the refusal longer.
StrangerMayTry ==
  \A a \in Accounts, ip \in Ips : Blocked(a, ip) => Recent(tried[<<a, ip>>]) # <<>>

\* The Map never holds twice the number of keys it is capped at: a sweep that found
\* it just below the cap puts the next one off until then.
KeysBounded == Size(attempts) < Larger(SweepFloor, 2 * MaxKeys)

\* A caller that is refused for its own calls is told to come back at the first
\* moment at which it is let through again, no earlier and no later; one that is
\* refused for everybody's is not told a later moment than that.
PromiseExact ==
  \A c \in Callers :
    /\ promise[c].by = "caller" =>
         (now >= promise[c].at <=> Len(Recent(provider[c])) < CallerLimit)
    /\ promise[c].by = "all" /\ now < promise[c].at => Len(Recent(total)) >= GlobalLimit

\* No more events than the limit pass in a window, both ends included.
EventsWithinLimit == \A s \in EventSockets : Len(RecentEvents(events[s])) <= EventLimit

\* The limits limit, forgive when they promise, and stay small.
LimitsHold == LoginWithinLimits /\ StrangerMayTry /\ KeysBounded /\ PromiseExact /\ EventsWithinLimit
=============================================================================
