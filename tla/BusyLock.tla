------------------------------ MODULE BusyLock ------------------------------
(***************************************************************************)
(* BusyLockService (server/src/realtime/busy-lock.service.ts): the one     *)
(* in-memory lock that keeps two voice countdowns from sounding at once.   *)
(* It is held by the alliance countdown or by one rally group, and every   *)
(* holder takes it with a lease: a timer that frees the lock by itself.    *)
(*                                                                         *)
(* The methods are operators on the value of the lock, because handlers    *)
(* call several of them in one synchronous block.  Time is relative: a     *)
(* timer carries the ticks that are left, so no clock has to be bounded.   *)
(***************************************************************************)
EXTENDS Integers

CONSTANTS
  Groups,     \* identifiers of the rally groups
  EarlyFire   \* ticks a timer may fire ahead of its due time on Date.now

None == "none"
CountdownHolder == "countdown"

ASSUME GroupsAssumption == {None, CountdownHolder} \cap Groups = {}
ASSUME EarlyFireAssumption == EarlyFire \in Nat

Holders == {CountdownHolder} \cup Groups

VARIABLE lock   \* [holder, timer]: who holds the lock, and the lease on it

NoTimer == [armed |-> FALSE, left |-> 0, owner |-> None]

\* A pending setTimeout: the callback it runs is the one of `owner`.
Timer(h, ticks) == [armed |-> TRUE, left |-> ticks, owner |-> h]

FreeLock == [holder |-> None, timer |-> NoTimer]

Locks == [holder : Holders \cup {None},
          timer  : [armed : BOOLEAN, left : Nat, owner : Holders \cup {None}]]

\* MUTANT of Free: a rally may push a countdown aside.
FreeForRallies(l) == l.holder \in {None, CountdownHolder}

Free(l) == l.holder = None

-----------------------------------------------------------------------------
(* The methods.                                                            *)

\* MUTANT of Acquired: the lease is forgotten.
AcquiredForEver(l, h, lease) == IF Free(l) THEN [l EXCEPT !.holder = h] ELSE l

\* tryAcquire fails, and changes nothing, while anybody holds the lock.
Acquired(l, h, lease) ==
  IF Free(l)
  THEN [holder |-> h, timer |-> IF lease > 0 THEN Timer(h, lease) ELSE l.timer]
  ELSE l

\* MUTANT of Rescheduled: the provisional lease stays.
NotRescheduled(l, h, lease) == l

\* reschedule: only its holder may move a lease, and never to now or the past.
Rescheduled(l, h, lease) ==
  IF l.holder = h /\ lease > 0 THEN [l EXCEPT !.timer = Timer(h, lease)] ELSE l

\* MUTANT of Released: the lease is not cancelled.
ReleasedTimerLeft(l, h) == IF l.holder = h THEN [l EXCEPT !.holder = None] ELSE l

\* MUTANT of Released: no owner comparison.
ReleasedByAnyone(l, h) == FreeLock

\* release: ignored unless the caller holds the lock; cancels the lease.
Released(l, h) == IF l.holder = h THEN FreeLock ELSE l

\* The timer callback frees the lock whoever holds it at that time.
Due(l) == l.timer.armed /\ l.timer.left <= EarlyFire
Expired(l) == [holder |-> None, timer |-> NoTimer]

-----------------------------------------------------------------------------
(* Time.                                                                   *)

Minus1(n) == IF n > 0 THEN n - 1 ELSE 0

LockAged(l) == [l EXCEPT !.timer.left = Minus1(@)]

-----------------------------------------------------------------------------
(* What the lock promises whoever calls it.                                *)

\* A held lock always has a lease running, and the lease is the holder's own:
\* no holder can block the others for ever, and no leftover timer of an
\* earlier holder can take the lock from a later one.
LeaseInv(l) ==
  /\ l.holder = None <=> ~l.timer.armed
  /\ l.timer.armed => l.timer.owner = l.holder
=============================================================================
