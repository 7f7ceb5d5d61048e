------------------------------- MODULE Battle -------------------------------
(***************************************************************************)
(* The battle tab's countdowns as one system: the alliance countdown and   *)
(* the rally groups behind the same lock, one browser that watches them,   *)
(* the passing of time, and the server process that may die.               *)
(***************************************************************************)
EXTENDS RallyCountdown

vars == <<lock, client, gateVars, rallyVars>>

Init ==
  /\ lock = FreeLock
  /\ ClientInit
  /\ CountdownInit
  /\ RallyInit

-----------------------------------------------------------------------------
(* The browser comes and goes.                                             *)

ClientDrops ==
  /\ "clientDrop" \in Faults
  /\ Connected
  /\ client' = [client EXCEPT !.stage = "offline"]
  /\ UNCHANGED <<lock, gateVars, rallyVars>>

\* RallyGroupsGateway.handleConnection: at once, every start that still has a
\* fire ahead is sent again, after the running state broadcast with it; the
\* snapshots of the others are forgotten (a fire due within the tick counts
\* as past).
ClientConnects ==
  LET live(g) == snapshot[g].present /\ snapshot[g].left > 0
      over(g) == snapshot[g].present /\ ~live(g)
  IN  /\ ~Connected
      /\ client' = [client EXCEPT
                      !.stage = "joining",
                      !.group = [g \in Groups |-> IF live(g) /\ cached[g] THEN "running"
                                                  ELSE client.group[g]],
                      !.start = [g \in Groups |-> IF live(g) THEN snapshot[g].left
                                                  ELSE client.start[g]]]
      /\ snapshot' = [g \in Groups |-> IF over(g) THEN NoSnapshot ELSE snapshot[g]]
      /\ cached' = [g \in Groups |-> cached[g] /\ ~over(g)]
      /\ UNCHANGED <<lock, gateVars, group, job>>

\* MUTANTS of Snapshot: an event is missing.
SnapshotWithoutCountdown(c) == SeeBusy(c, lock.holder)
SnapshotWithoutBusy(c) == SeeCountdown(c, countdown)

\* What sendConnectionSnapshot tells of the countdowns.
Snapshot(c) == SeeBusy(SeeCountdown(c, countdown), lock.holder)

\* RealtimeGateway.sendConnectionSnapshot goes on after its queries.
SnapshotArrives ==
  /\ client.stage = "joining"
  /\ client' = [Snapshot(client) EXCEPT !.stage = "online"]
  /\ UNCHANGED <<lock, gateVars, rallyVars>>

-----------------------------------------------------------------------------
(* Time, and the life of the process.                                      *)

Tick ==
  /\ lock' = LockAged(lock)
  /\ client' = ClientAged(client)
  /\ countdown' = [countdown EXCEPT !.left = Minus1(@)]
  /\ job' = [j \in JobIds |-> [job[j] EXCEPT !.left = Minus1(@)]]
  /\ snapshot' = [g \in Groups |-> [snapshot[g] EXCEPT !.left = Minus1(@)]]
  /\ UNCHANGED <<call, group, cached>>

\* All memory is lost, every socket with it; RallyGroupsService.onModuleInit
\* writes the groups that were running idle before anybody can connect.
Restart ==
  /\ "restart" \in Faults
  /\ lock' = FreeLock
  /\ countdown' = NoCountdown
  /\ call' = [c \in CdCalls |-> NoCall]
  /\ job' = [j \in JobIds |-> NoJob]
  /\ snapshot' = [g \in Groups |-> NoSnapshot]
  /\ cached' = [g \in Groups |-> FALSE]
  /\ group' = [g \in Groups |-> IF group[g] = "running" THEN "idle" ELSE group[g]]
  /\ client' = [client EXCEPT !.stage = "offline"]

Next ==
  \/ CountdownNext /\ UNCHANGED rallyVars
  \/ RallyNext /\ UNCHANGED gateVars
  \/ ClientDrops \/ ClientConnects \/ SnapshotArrives
  \/ Tick
  \/ Restart

\* Timers fire, queries and probes are answered, awaits resume, a browser that
\* lost its socket reconnects (Socket.io retries for ever), and time passes.
\* Nobody has to press a button.
Fairness ==
  /\ WF_vars(Tick)
  /\ WF_vars(CountdownLeaseEnds /\ UNCHANGED rallyVars)
  /\ \A g \in Groups : WF_vars(RallyLeaseEnds(g) /\ UNCHANGED gateVars)
  /\ \A c \in CdCalls :
       WF_vars((Refused(c) \/ StartAcquires(c) \/ Stops(c) \/ ProbeAbandoned(c)
                  \/ \E grace \in Graces : ProbeAnswered(c, grace))
               /\ UNCHANGED rallyVars)
  /\ \A j \in JobIds :
       WF_vars((Loads(j) \/ Writes(j) \/ Reads(j) \/ RallyResumes(j)) /\ UNCHANGED gateVars)
  /\ WF_vars(ClientConnects)
  /\ WF_vars(SnapshotArrives)

Spec == Init /\ [][Next]_vars /\ Fairness
-----------------------------------------------------------------------------
(* Types.                                                                  *)

\* Every variable holds a value of its type, and a job that is under way is
\* about a group.
TypeOK ==
  /\ lock \in Locks
  /\ client \in Clients
  /\ countdown \in Countdowns
  /\ call \in [CdCalls -> Calls]
  /\ group \in [Groups -> GroupStates]
  /\ job \in [JobIds -> Jobs]
  /\ \A j \in JobIds : job[j].stage = "none" \/ job[j].g \in Groups
  /\ snapshot \in [Groups -> Snapshots]
  /\ cached \in [Groups -> BOOLEAN]

-----------------------------------------------------------------------------
(* The lock.                                                               *)

\* A held lock always has a lease running, and it is the holder's own: no
\* holder can block the others for ever (the dead state busy-lock.service.ts
\* arms its timer against), and the timer of an earlier holder never survives
\* to take the lock from a later one.
LeaseOfHolder == LeaseInv(lock)

\* Only two things take the lock from a rally group: its own request or idle
\* reset going on, and the end of its lease.  A stop of another group, a
\* countdown:stop or a failed start of somebody else never does.
RallyLosesLockByItself ==
  [][\A g \in Groups :
       lock.holder = g /\ lock'.holder # g =>
         \/ Due(lock)
         \/ \E j \in RallyCalls :
              job[j].g = g /\ job[j].op \in {"start", "stop"} /\ job'[j] # job[j]
         \/ Restart]_vars

\* The battle's lock is an announcement gate that always opens again.
Gate == INSTANCE AnnouncementGate
          WITH Announcements <- Holders, Nobody <- None, holder <- lock.holder

GateSpec == Gate!Spec

-----------------------------------------------------------------------------
(* The alliance countdown.                                                 *)

\* A countdown that the server calls active holds the lock: the probe's race
\* guard, stop, and the end of the lease never leave one running without it.
ActiveHoldsLock == countdown.active => lock.holder = CountdownHolder

\* The lease of an active countdown ends exactly with the countdown, however
\* long the probe took: an earlier end cuts the last numbers off for everybody,
\* a later one keeps the next start waiting.
LeaseEndsWithCountdown == countdown.active => lock.timer.left = countdown.left

\* An active countdown ends only when its time is over, when somebody's
\* countdown:stop is handled, or with the process.  A timer that fires early
\* does not end it.
EndsOnTimeOrByStop ==
  [][countdown.active /\ ~countdown'.active =>
       \/ countdown.left = 0
       \/ \E c \in CdCalls : call[c].stage = "stopping" /\ call'[c].stage = "idle"
       \/ Restart]_vars

\* Once started, a countdown keeps its startedAt until it ends: a start that
\* was still probing when its lock was released never replaces it.
NeverReplaced ==
  [][countdown.active /\ countdown'.active => countdown'.by = countdown.by]_vars

\* A browser that has its snapshot sees exactly the server's countdown.
CountdownSeen == client.stage = "online" => client.countdown = countdown

\* Without rally groups a browser's busy:state is the holder of the lock,
\* except while a start is still probing under a lock nobody was told of.
BusySeen ==
  /\ client.stage = "online"
  /\ \A c \in CdCalls : call[c].stage # "probing"
  => client.busy = lock.holder

-----------------------------------------------------------------------------
(* The rally groups.                                                       *)

\* A group that is running in the database is going to be written idle: it
\* holds the lock, so its lease will end, or a job about it is in flight.
RunningIsBacked ==
  \A g \in Groups : group[g] = "running" => lock.holder = g \/ InFlight(g) # {}

AtRest ==
  /\ \A j \in JobIds : job[j].stage = "none"
  /\ \A c \in CdCalls : call[c].stage = "idle"

\* With nothing in flight, whatever the browser is speaking holds the lock, so
\* nothing else can be started on top of it.
OnlyHolderIsHeard == AtRest => Playing(client) \subseteq {lock.holder}

-----------------------------------------------------------------------------
(* Progress.                                                               *)

\* A running group goes back to idle (or is removed) without anybody's help.
RunningEnds == \A g \in Groups : group[g] = "running" ~> group[g] # "running"

\* An active countdown becomes inactive without anybody's help, even when its
\* timer fires early and the lease has to be taken again.
CountdownEnds == countdown.active ~> ~countdown.active

\* A browser is not left blocked by a holder that has long gone.
BusyClears ==
  \A h \in Holders : client.busy = h /\ lock.holder # h ~> client.busy # h \/ lock.holder = h

\* Every request is answered: nothing waits for ever for the lock, which is
\* tried and never queued for.
JobsEnd ==
  /\ \A j \in JobIds : job[j].stage # "none" ~> job[j].stage = "none"
  /\ \A c \in CdCalls : call[c].stage # "idle" ~> call[c].stage = "idle"
=============================================================================
