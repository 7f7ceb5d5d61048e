--------------------------- MODULE CountdownGate ---------------------------
(***************************************************************************)
(* The alliance countdown of RealtimeGateway                               *)
(* (server/src/realtime/realtime.gateway.ts): countdown:start, which takes *)
(* the lock, waits for the readiness probe and only then starts; and       *)
(* countdown:stop; and the callback of the lock's timer.                   *)
(***************************************************************************)
EXTENDS BattleClient

CONSTANTS
  Totals,   \* totalSeconds an operator may ask for, in ticks
  Graces,   \* startup grace the readiness negotiation may come back with
  Faults    \* what the environment is allowed to do, a subset of AllFaults

\* overlap     a second call about a rally group while one is in flight
\* dbError     a database query rejects
\* slowDb      a rally start still waits for the database when its lease ends
\* clientDrop  the browser loses its socket and comes back
\* probeError  the readiness negotiation rejects
\* restart     the server process dies and starts again
AllFaults ==
  {"overlap", "dbError", "slowDb", "clientDrop", "probeError", "restart"}

ASSUME TotalsAssumption == Totals \subseteq Nat \ {0}
ASSUME GracesAssumption == Graces \subseteq Nat
ASSUME FaultsAssumption == Faults \subseteq AllFaults

VARIABLES
  countdown,   \* RealtimeGateway.countdown
  call         \* per request: what it waits for

NoCall == [stage |-> "idle", total |-> 0]

\* starting, stopping: received, the sender being looked up.
\* probing: the lock is taken, negotiateStartedAt is awaited.
Calls == [stage : {"idle", "starting", "probing", "stopping"},
          total : Totals \cup {0}]

gateVars == <<countdown, call>>

CountdownInit ==
  /\ countdown = NoCountdown
  /\ call = [c \in CdCalls |-> NoCall]

Answered(c) == call' = [call EXCEPT ![c] = NoCall]

-----------------------------------------------------------------------------
(* countdown:start                                                         *)

StartReceived(c, total) ==
  /\ call[c].stage = "idle"
  /\ call' = [call EXCEPT ![c] = [stage |-> "starting", total |-> total]]
  /\ UNCHANGED <<lock, client, countdown>>

\* The sender is gone, may not start, asks for a length that is not allowed or
\* too often, or (start) the lock is taken, or (stop) a rally holds the lock.
Refused(c) ==
  /\ call[c].stage \in {"starting", "stopping"}
  /\ Answered(c)
  /\ UNCHANGED <<lock, client, countdown>>

\* The lock is taken before the probe, with a provisional lease.
StartAcquires(c) ==
  /\ call[c].stage = "starting"
  /\ Free(lock)
  /\ lock' = Acquired(lock, CountdownHolder, call[c].total + ReleaseGrace)
  /\ call' = [call EXCEPT ![c].stage = "probing"]
  /\ UNCHANGED <<client, countdown>>

\* MUTANT of StillHeld: no look at the lock after the await.
NotRechecked == TRUE

\* The race guard after the await.
StillHeld == lock.holder = CountdownHolder

\* After the probe the countdown is started only if a countdown still holds
\* the lock; the lease is moved to the end that is now known.
ProbeAnswered(c, grace) ==
  LET end == grace + call[c].total + ReleaseGrace
      started == [active |-> TRUE, by |-> c, left |-> end]
  IN  /\ call[c].stage = "probing"
      /\ StillHeld
      /\ lock' = Rescheduled(lock, CountdownHolder, end)
      /\ countdown' = started
      /\ client' = Broadcast(SeeBusy(SeeCountdown(client, started), CountdownHolder))
      /\ Answered(c)

\* The lock went to nobody or to a rally during the probe.
ProbeAbandoned(c) ==
  /\ call[c].stage = "probing"
  /\ ~StillHeld
  /\ Answered(c)
  /\ UNCHANGED <<lock, client, countdown>>

\* The catch branch around the probe.
ProbeFails(c) ==
  /\ "probeError" \in Faults
  /\ call[c].stage = "probing"
  /\ lock' = Released(lock, CountdownHolder)
  /\ client' = Broadcast(SeeBusy(client, None))
  /\ Answered(c)
  /\ UNCHANGED countdown

-----------------------------------------------------------------------------
(* countdown:stop and the end of the lease                                 *)

StopReceived(c) ==
  /\ call[c].stage = "idle"
  /\ call' = [call EXCEPT ![c] = [stage |-> "stopping", total |-> 0]]
  /\ UNCHANGED <<lock, client, countdown>>

\* MUTANT of Stops: only the lock is reset.
StopsLockOnly(c) ==
  /\ call[c].stage = "stopping"
  /\ lock.holder \in {None, CountdownHolder}
  /\ lock' = Released(lock, CountdownHolder)
  /\ client' = Broadcast(SeeBusy(client, None))
  /\ Answered(c)
  /\ UNCHANGED countdown

Stops(c) ==
  /\ call[c].stage = "stopping"
  /\ lock.holder \in {None, CountdownHolder}
  /\ lock' = Released(lock, CountdownHolder)
  /\ countdown' = NoCountdown
  /\ client' = Broadcast(SeeBusy(SeeCountdown(client, NoCountdown), None))
  /\ Answered(c)

\* MUTANT of Remaining: the callback trusts its timer.
NothingRemains == 0

\* countdownRemainingMs
Remaining == IF countdown.active THEN countdown.left ELSE 0

\* The timer of a lease taken by a countdown: a countdown that has time left
\* gets its lock and a lease for that time back, any other ends here.
CountdownLeaseEnds ==
  LET freed == Expired(lock)
  IN  /\ Due(lock)
      /\ lock.timer.owner = CountdownHolder
      /\ IF Remaining > 0
         THEN /\ lock' = Acquired(freed, CountdownHolder, Remaining)
              /\ UNCHANGED <<countdown, client>>
         ELSE /\ lock' = freed
              /\ countdown' = NoCountdown
              /\ client' = Broadcast(SeeBusy(SeeCountdown(client, NoCountdown),
                                             freed.holder))
      /\ UNCHANGED call

CountdownNext ==
  \/ \E c \in CdCalls :
       \/ \E total \in Totals : StartReceived(c, total)
       \/ StopReceived(c)
       \/ Refused(c)
       \/ StartAcquires(c)
       \/ \E grace \in Graces : ProbeAnswered(c, grace)
       \/ ProbeAbandoned(c)
       \/ ProbeFails(c)
       \/ Stops(c)
  \/ CountdownLeaseEnds
=============================================================================
