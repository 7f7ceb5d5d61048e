---------------------------- MODULE BattleClient ----------------------------
(***************************************************************************)
(* One logged-in browser: the part of the zustand store                    *)
(* (web/src/store/index.js) that the battle tab plays voices from, and the *)
(* socket handlers that fill it (web/src/hooks/useSocket.js).  Socket.io   *)
(* delivers a connected client every broadcast in emission order, so a     *)
(* broadcast is applied to the store in the step that emits it; a client   *)
(* that is offline misses it.                                              *)
(***************************************************************************)
EXTENDS BusyLock

CONSTANTS
  CdCalls,       \* countdown:start and countdown:stop requests in flight
  ReleaseGrace   \* COUNTDOWN_AUTO_RELEASE_GRACE_MS, in ticks

ASSUME CdCallsAssumption == None \notin CdCalls
ASSUME ReleaseGraceAssumption == ReleaseGrace \in Nat \ {0}

VARIABLE client   \* the store of the browser and how far its connection is

\* `by` is the request whose startedAt the countdown carries, `left` the ticks
\* to startedAt + totalSeconds + ReleaseGrace.
NoCountdown == [active |-> FALSE, by |-> None, left |-> 0]

Countdowns == [active : BOOLEAN, by : CdCalls \cup {None}, left : Nat]

GroupStates == {"idle", "running", "gone"}

\* offline: no socket.  joining: connected, the snapshot of the realtime
\* gateway still being read from the database.  online: snapshot received.
Clients == [stage     : {"offline", "joining", "online"},
            busy      : Holders \cup {None},
            countdown : Countdowns,
            group     : [Groups -> GroupStates],
            start     : [Groups -> Nat]]   \* rallyCountdowns: ticks to the last fire

ClientInit ==
  client = [stage     |-> "online",
            busy      |-> None,
            countdown |-> NoCountdown,
            group     |-> [g \in Groups |-> "idle"],
            start     |-> [g \in Groups |-> 0]]

Connected == client.stage # "offline"

-----------------------------------------------------------------------------
(* What each event does to a store `c` that receives it.                   *)

SeeBusy(c, holder)  == [c EXCEPT !.busy = holder]
SeeCountdown(c, cd) == [c EXCEPT !.countdown = cd]
SeeGroup(c, g, s)   == [c EXCEPT !.group[g] = s]
SeeStart(c, g, n)   == [c EXCEPT !.start[g] = n]
SeeStop(c, g)       == [c EXCEPT !.start[g] = 0]
SeeRemoved(c, g)    == [c EXCEPT !.group[g] = "gone", !.start[g] = 0]

\* The store after an event sent to every socket.
Broadcast(seen) == IF Connected THEN seen ELSE client

\* Audio is scheduled locally against the clock: it runs on without a socket.
ClientAged(c) ==
  [c EXCEPT !.countdown.left = Minus1(@),
            !.start = [g \in Groups |-> Minus1(c.start[g])]]

-----------------------------------------------------------------------------
(* What the browser is speaking.                                           *)

\* Countdown.jsx speaks until startedAt + totalSeconds, the grace excluded.
PlaysCountdown(c) == c.countdown.active /\ c.countdown.left > ReleaseGrace

\* RallyGroupPanel.jsx mounts the player for a running group with a payload.
PlaysRally(c, g) == c.group[g] = "running" /\ c.start[g] > 0

Playing(c) ==
  {h \in Holders : IF h = CountdownHolder THEN PlaysCountdown(c) ELSE PlaysRally(c, h)}
=============================================================================
