--------------------------- MODULE RallyCountdown ---------------------------
(***************************************************************************)
(* Rally group countdowns: RallyGroupsService                              *)
(* (server/src/rally-groups/rally-groups.service.ts) and the snapshots of  *)
(* RallyGroupsGateway.  Every request is a job that alternates between the *)
(* database and the service: a query takes effect in one step, and the     *)
(* service goes on after its await in a later one, so that other requests  *)
(* and timers come in between.                                             *)
(***************************************************************************)
EXTENDS CountdownGate

CONSTANTS
  RallyCalls,   \* HTTP requests about rally groups in flight
  Requests,     \* what they may ask for, a subset of RallyOps
  Schedules,    \* [march, span]: slowest march, and first to last fire, in ticks
  Lead,         \* COUNTDOWN_LEAD_MS, in ticks
  IdleGrace     \* RALLY_AUTO_IDLE_GRACE_SECONDS, in ticks

\* publish: addMember, removeMember, updateMarchOverride, reorderAllForUser and
\* the tail of remove end by reading a group and broadcasting what was read.
RallyOps == {"start", "stop", "remove", "publish"}

ASSUME RequestsAssumption == Requests \subseteq RallyOps
ASSUME JobsAssumption == RallyCalls \cap Groups = {}
ASSUME SchedulesAssumption ==
  \A s \in Schedules : s.march \in Nat /\ s.span \in 0 .. s.march
ASSUME LeadAssumption == Lead \in Nat \ {0}
ASSUME IdleGraceAssumption == IdleGrace \in Nat /\ IdleGrace >= EarlyFire

VARIABLES
  group,     \* the database: rally_groups.state, or "gone"
  job,       \* requests, and per group the idle reset its lease ends with
  snapshot,  \* runningCountdowns: ticks to the last fire of a broadcast start
  cached     \* runningGroups: the last broadcast state was running

rallyVars == <<group, job, snapshot, cached>>

NoJob == [op |-> "none", stage |-> "none", g |-> None, march |-> 0, span |-> 0,
          left |-> 0, full |-> "gone", rest |-> {}]

\* load, write, read: a query is on its way.  loaded, written, readDone: it was
\* answered and the service has not gone on yet.  failed: it rejected inside
\* startCountdown's try block.
Jobs == [op    : RallyOps \cup {"none", "autoIdle"},
         stage : {"none", "load", "loaded", "write", "written", "read",
                  "readDone", "failed"},
         g     : Groups \cup {None},
         march : Nat,                \* maxMarch of the loaded members
         span  : Nat,                \* largest fire offset of the loaded members
         left  : Nat,                \* ticks to the last fire once started
         full  : GroupStates,        \* the state of the group as last read
         rest  : SUBSET Groups]      \* groups remove still has to publish

JobIds == RallyCalls \cup Groups   \* a group is the id of its own idle reset

NoSnapshot == [present |-> FALSE, left |-> 0]

Snapshots == [present : BOOLEAN, left : Nat]

RallyInit ==
  /\ group = [g \in Groups |-> "idle"]
  /\ job = [j \in JobIds |-> NoJob]
  /\ snapshot = [g \in Groups |-> NoSnapshot]
  /\ cached = [g \in Groups |-> FALSE]

Step(j, op, stage) == job[j].op = op /\ job[j].stage = stage
Goes(j, stage) == job' = [job EXCEPT ![j].stage = stage]
Finished(j) == job' = [job EXCEPT ![j] = NoJob]

InFlight(g) == {j \in JobIds : job[j].stage # "none" /\ (job[j].g = g \/ g \in job[j].rest)}

\* A start that has taken the lock and is not over.
Starting(j) == job[j].op = "start" /\ job[j].stage \notin {"load", "loaded"}

-----------------------------------------------------------------------------
(* Broadcasts of RallyGroupsGateway, with the snapshot each of them keeps. *)

EmitGroupUpdated(g, s) ==
  /\ cached' = [cached EXCEPT ![g] = s = "running"]
  /\ UNCHANGED snapshot

EmitCountdownStart(g, left) ==
  /\ snapshot' = [snapshot EXCEPT ![g] = [present |-> TRUE, left |-> left]]
  /\ client' = Broadcast(SeeStart(client, g, left))
  /\ UNCHANGED cached

EmitCountdownStop(g) ==
  /\ snapshot' = [snapshot EXCEPT ![g] = NoSnapshot]
  /\ client' = Broadcast(SeeStop(client, g))
  /\ UNCHANGED cached

EmitGroupRemoved(g) ==
  /\ snapshot' = [snapshot EXCEPT ![g] = NoSnapshot]
  /\ cached' = [cached EXCEPT ![g] = FALSE]
  /\ client' = Broadcast(SeeRemoved(client, g))

-----------------------------------------------------------------------------
(* A request arrives.                                                      *)

FirstStage(op) ==
  CASE op = "remove" -> "write" [] op = "publish" -> "read" [] OTHER -> "load"

Request(j, op, g) ==
  /\ job[j].stage = "none"
  /\ "overlap" \in Faults \/ InFlight(g) \subseteq {g}
  /\ job' = [job EXCEPT ![j] = [NoJob EXCEPT !.op = op, !.g = g, !.stage = FirstStage(op)]]
  /\ UNCHANGED <<lock, client, group, snapshot, cached>>

-----------------------------------------------------------------------------
(* The database answers.                                                   *)

\* findOne of start (after the reorder) and of stop; 404 when there is no row.
Loads(j) ==
  /\ job[j].stage = "load"
  /\ IF group[job[j].g] = "gone"
     THEN Finished(j)
     ELSE \E s \in IF job[j].op = "start" THEN Schedules ELSE {[march |-> 0, span |-> 0]} :
            job' = [job EXCEPT ![j].stage = "loaded", ![j].full = group[job[j].g],
                               ![j].march = s.march, ![j].span = s.span]
  /\ UNCHANGED <<lock, client, group, snapshot, cached>>

\* An update matches no row once the group is gone, and that is no error.
Written(op) == CASE op = "start" -> "running" [] op = "remove" -> "gone" [] OTHER -> "idle"

Writes(j) ==
  LET g == job[j].g
  IN  /\ job[j].stage = "write"
      /\ IF group[g] = "gone"
         THEN /\ IF job[j].op = "remove" THEN Finished(j) ELSE Goes(j, "written")
              /\ UNCHANGED group
         ELSE /\ group' = [group EXCEPT ![g] = Written(job[j].op)]
              /\ Goes(j, "written")
      /\ UNCHANGED <<lock, client, snapshot, cached>>

\* getFullGroup rejects for a group that is gone: start's catch block runs, the
\* idle reset ignores it, any other job ends there.
Reads(j) ==
  LET g == job[j].g
  IN  /\ job[j].stage = "read"
      /\ CASE group[g] # "gone" ->
                job' = [job EXCEPT ![j].stage = "readDone", ![j].full = group[g]]
           [] group[g] = "gone" /\ job[j].op = "start" -> Goes(j, "failed")
           [] group[g] = "gone" /\ job[j].op = "autoIdle" ->
                job' = [job EXCEPT ![j].stage = "readDone", ![j].full = "gone"]
           [] OTHER -> Finished(j)
      /\ UNCHANGED <<lock, client, group, snapshot, cached>>

\* A query rejects.  Only start has a catch block that undoes anything, and
\* only from its update on; the idle reset still publishes after a failed read.
QueryFails(j) ==
  /\ "dbError" \in Faults
  /\ job[j].stage \in {"load", "write", "read"}
  /\ CASE job[j].op = "start" /\ job[j].stage # "load" -> Goes(j, "failed")
       [] job[j].op = "autoIdle" /\ job[j].stage = "read" ->
            job' = [job EXCEPT ![j].stage = "readDone", ![j].full = "gone"]
       [] OTHER -> Finished(j)
  /\ UNCHANGED <<lock, client, group, snapshot, cached>>

-----------------------------------------------------------------------------
(* startCountdown goes on.                                                 *)

StartTakesLock(j) ==
  LET g == job[j].g
  IN  /\ Step(j, "start", "loaded")
      /\ Free(lock)
      /\ lock' = Acquired(lock, g, Lead + job[j].march + IdleGrace)
      /\ job' = [job EXCEPT ![j] = [NoJob EXCEPT !.op = "start", !.stage = "write", !.g = g,
                                                 !.left = Lead + job[j].span]]
      /\ UNCHANGED <<client, group, snapshot, cached>>

\* MUTANT of StartFindsBusy: a start waits for the lock.
StartWaits(j) == FALSE

StartFindsBusy(j) ==
  /\ Step(j, "start", "loaded")
  /\ ~Free(lock)
  /\ Finished(j)
  /\ UNCHANGED <<lock, client, group, snapshot, cached>>

StartAnnounces(j) ==
  /\ Step(j, "start", "written")
  /\ EmitCountdownStart(job[j].g, job[j].left)
  /\ job' = [job EXCEPT ![j].stage = "read", ![j].left = 0]
  /\ UNCHANGED <<lock, group>>

StartRecovers(j) ==
  /\ Step(j, "start", "failed")
  /\ lock' = Released(lock, job[j].g)
  /\ client' = Broadcast(SeeBusy(client, None))
  /\ Finished(j)
  /\ UNCHANGED <<group, snapshot, cached>>

-----------------------------------------------------------------------------
(* stopCountdown goes on, and from its write on so does the idle reset.    *)

\* MUTANT of GivenBack: the lock of whoever has it.
GivenBackByAnyone(g) == Released(lock, lock.holder)

\* The lock after a stop of `g`: untouched unless it is that group's.
GivenBack(g) == IF lock.holder = g THEN Released(lock, g) ELSE lock

\* MUTANT of StopReleases: it returns too early.
StopReleasesOnly(j) ==
  /\ Step(j, "stop", "loaded")
  /\ lock' = GivenBack(job[j].g)
  /\ Finished(j)
  /\ UNCHANGED <<client, group, snapshot, cached>>

\* A group that neither holds the lock nor runs is left alone; otherwise the
\* lock is given back before the group is written idle.
StopReleases(j) ==
  LET g == job[j].g
  IN  /\ Step(j, "stop", "loaded")
      /\ IF lock.holder # g /\ job[j].full = "idle"
         THEN Finished(j) /\ UNCHANGED lock
         ELSE /\ lock' = GivenBack(g)
              /\ job' = [job EXCEPT ![j].stage = "write", ![j].full = "gone"]
      /\ UNCHANGED <<client, group, snapshot, cached>>

IdleAnnounced(j) ==
  /\ job[j].op \in {"stop", "autoIdle"} /\ job[j].stage = "written"
  /\ EmitCountdownStop(job[j].g)
  /\ Goes(j, "read")
  /\ UNCHANGED <<lock, group>>

GroupShown(j) ==
  IF job[j].full = "gone" THEN client ELSE SeeGroup(client, job[j].g, job[j].full)

\* MUTANT of BusyShown: the idle reset does not publish the lock.
BusyShownByRequests(j) == IF job[j].op = "autoIdle" THEN client.busy ELSE lock.holder

\* The idle reset always says that nobody holds the lock.
BusyShown(j) == IF job[j].op = "autoIdle" THEN None ELSE lock.holder

\* The last broadcasts of a job: the group as it was read, then busy:state.
Publishes(j) ==
  LET g == job[j].g
  IN  /\ job[j].op \in {"start", "stop", "autoIdle"} /\ job[j].stage = "readDone"
      /\ IF job[j].full = "gone"
         THEN UNCHANGED <<snapshot, cached>>
         ELSE EmitGroupUpdated(g, job[j].full)
      /\ client' = Broadcast(SeeBusy(GroupShown(j), BusyShown(j)))
      /\ Finished(j)
      /\ UNCHANGED <<lock, group>>

-----------------------------------------------------------------------------
(* remove, and the requests that only publish.                             *)

\* The groups numbered after the removed one are published one by one.
Removed(j) ==
  /\ Step(j, "remove", "written")
  /\ EmitGroupRemoved(job[j].g)
  /\ \E later \in SUBSET {g \in Groups : group[g] # "gone"} :
       IF later = {}
       THEN Finished(j)
       ELSE \E g \in later :
              job' = [job EXCEPT ![j] = [NoJob EXCEPT !.op = "publish", !.stage = "read",
                                                      !.g = g, !.rest = later \ {g}]]
  /\ UNCHANGED <<lock, group>>

PublishesOnly(j) ==
  /\ Step(j, "publish", "readDone")
  /\ EmitGroupUpdated(job[j].g, job[j].full)
  /\ client' = Broadcast(SeeGroup(client, job[j].g, job[j].full))
  /\ IF job[j].rest = {}
     THEN Finished(j)
     ELSE \E g \in job[j].rest :
            job' = [job EXCEPT ![j] = [NoJob EXCEPT !.op = "publish", !.stage = "read",
                                                    !.g = g, !.rest = job[j].rest \ {g}]]
  /\ UNCHANGED <<lock, group>>

-----------------------------------------------------------------------------
(* The lease of a rally ends: the lock is free at once, the group is reset *)
(* by a job of its own.                                                    *)

\* MUTANTS of IdleReset: the lease ends without its callback; or handleAutoIdle itself
\* was given as the callback, and is called without the group.
NoIdleReset(g) == NoJob
IdleResetUnbound(g) == [NoJob EXCEPT !.op = "autoIdle", !.stage = "write"]

IdleReset(g) == [NoJob EXCEPT !.op = "autoIdle", !.g = g, !.stage = "write"]

RallyLeaseEnds(g) ==
  /\ Due(lock)
  /\ lock.timer.owner = g
  /\ job[g].stage = "none"
  /\ "slowDb" \in Faults \/ ~\E j \in InFlight(g) : Starting(j)
  /\ lock' = Expired(lock)
  /\ job' = [job EXCEPT ![g] = IdleReset(g)]
  /\ UNCHANGED <<client, group, snapshot, cached>>

RallyResumes(j) ==
  \/ StartTakesLock(j) \/ StartFindsBusy(j) \/ StartAnnounces(j) \/ StartRecovers(j)
  \/ StopReleases(j) \/ IdleAnnounced(j) \/ Publishes(j)
  \/ Removed(j) \/ PublishesOnly(j)

RallyNext ==
  \/ \E j \in RallyCalls, op \in Requests, g \in Groups : Request(j, op, g)
  \/ \E j \in JobIds : Loads(j) \/ Writes(j) \/ Reads(j) \/ QueryFails(j) \/ RallyResumes(j)
  \/ \E g \in Groups : RallyLeaseEnds(g)
=============================================================================
