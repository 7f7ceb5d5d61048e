---------------------------- MODULE RoomProofs ----------------------------
(***************************************************************************)
(* What members do at the same time, each with a part of the socket        *)
(* gateway's memory: the battle and the live operation board. The battle,  *)
(* for any groups, requests, schedules and graces that satisfy the         *)
(* assumptions of the modules, and any set of faults unless a theorem      *)
(* names one: first the lock and the alliance countdown, then the rally    *)
(* groups when one request at a time is about each group and the database  *)
(* answers: a running group is going to be reset, and what is heard holds  *)
(* the lock. The board, for any number of browsers, any drawings and       *)
(* limits: who is on it is connected, its byte count is what it holds,     *)
(* and every tab on it is about to show it. What recursive definitions     *)
(* compute is shown by induction over the set of the places where it is    *)
(* as claimed.                                                             *)
(***************************************************************************)
EXTENDS Battle, OperationBoard, Counting

-----------------------------------------------------------------------------
(* What the methods of BusyLock do to a lock.                              *)

\* Whatever the methods and the passing of time return is again a lock.
LEMMA LockTypes ==
  ASSUME NEW l \in Locks, NEW h \in Holders, NEW lease \in Nat
  PROVE  /\ Acquired(l, h, lease) \in Locks
         /\ Rescheduled(l, h, lease) \in Locks
         /\ Released(l, h) \in Locks
         /\ Expired(l) \in Locks
         /\ LockAged(l) \in Locks
         /\ FreeLock \in Locks
<1>1. FreeLock \in Locks /\ Expired(l) \in Locks
  BY DEF FreeLock, Expired, NoTimer, Locks
<1>2. Acquired(l, h, lease) \in Locks
  BY DEF Acquired, Timer, Locks
<1>3. Rescheduled(l, h, lease) \in Locks
  BY DEF Rescheduled, Timer, Locks
<1>4. Released(l, h) \in Locks
  BY <1>1 DEF Released
<1>5. LockAged(l) \in Locks
  BY DEF LockAged, Minus1, Locks
<1>6. QED
  BY <1>1, <1>2, <1>3, <1>4, <1>5

\* The methods and the passing of time keep the lease with the holder, provided
\* a lock is only ever taken with a lease that is not empty.
LEMMA LeaseKept ==
  ASSUME NEW l \in Locks, LeaseInv(l), NEW h \in Holders, NEW lease \in Nat
  PROVE  /\ lease > 0 => LeaseInv(Acquired(l, h, lease))
         /\ LeaseInv(Rescheduled(l, h, lease))
         /\ LeaseInv(Released(l, h))
         /\ LeaseInv(Expired(l))
         /\ LeaseInv(LockAged(l))
         /\ LeaseInv(FreeLock)
<1>0. h # None
  BY GroupsAssumption DEF Holders, None, CountdownHolder
<1>1. LeaseInv(FreeLock) /\ LeaseInv(Expired(l))
  BY DEF LeaseInv, FreeLock, Expired, NoTimer
<1>2. lease > 0 => LeaseInv(Acquired(l, h, lease))
  BY <1>0 DEF LeaseInv, Acquired, Timer, Locks
<1>3. LeaseInv(Rescheduled(l, h, lease))
  BY <1>0 DEF LeaseInv, Rescheduled, Timer, Locks
<1>4. LeaseInv(Released(l, h))
  BY <1>1 DEF Released
<1>5. LeaseInv(LockAged(l))
  BY DEF LeaseInv, LockAged, Locks
<1>6. QED
  BY <1>1, <1>2, <1>3, <1>4, <1>5

\* Nobody takes the lock from its holder: tryAcquire and reschedule never
\* change who holds a lock that is held, release only if the holder asks.
LEMMA HolderKept ==
  ASSUME NEW l \in Locks, l.holder # None, NEW h \in Holders, NEW lease \in Nat
  PROVE  /\ Acquired(l, h, lease).holder = l.holder
         /\ Rescheduled(l, h, lease).holder = l.holder
         /\ h # l.holder => Released(l, h).holder = l.holder
         /\ LockAged(l).holder = l.holder
BY DEF Acquired, Free, Rescheduled, Released, LockAged, Locks

-----------------------------------------------------------------------------
(* Types.                                                                  *)

\* The ticks that are left stay a number.
LEMMA Minus1Type == \A n \in Nat : Minus1(n) \in Nat
BY DEF Minus1

\* Whatever an event or the passing of time does to a store gives a store.
LEMMA ClientTypes ==
  ASSUME client \in Clients, NEW c \in Clients, NEW h \in Holders \cup {None},
         NEW cd \in Countdowns, NEW g \in Groups, NEW s \in GroupStates, NEW n \in Nat
  PROVE  /\ SeeBusy(c, h) \in Clients
         /\ SeeCountdown(c, cd) \in Clients
         /\ SeeGroup(c, g, s) \in Clients
         /\ SeeStart(c, g, n) \in Clients
         /\ SeeStop(c, g) \in Clients
         /\ SeeRemoved(c, g) \in Clients
         /\ Broadcast(c) \in Clients
         /\ ClientAged(c) \in Clients
<1>1. SeeBusy(c, h) \in Clients /\ SeeCountdown(c, cd) \in Clients
  BY DEF SeeBusy, SeeCountdown, Clients
<1>2. SeeGroup(c, g, s) \in Clients
  BY DEF SeeGroup, Clients
<1>3. SeeStart(c, g, n) \in Clients /\ SeeStop(c, g) \in Clients
  BY DEF SeeStart, SeeStop, Clients
<1>4. SeeRemoved(c, g) \in Clients
  BY DEF SeeRemoved, Clients, GroupStates
<1>5. Broadcast(c) \in Clients
  BY DEF Broadcast
<1>6. ClientAged(c) \in Clients
  <2>1. [c.countdown EXCEPT !.left = Minus1(@)] \in Countdowns
    BY Minus1Type DEF Clients, Countdowns
  <2>2. [k \in Groups |-> Minus1(c.start[k])] \in [Groups -> Nat]
    BY Minus1Type DEF Clients
  <2>3. QED
    BY <2>1, <2>2, Zenon DEF ClientAged, Clients
<1>7. QED
  BY <1>1, <1>2, <1>3, <1>4, <1>5, <1>6

\* The release grace is a positive number.
LEMMA ReleaseGraceNat == ReleaseGrace \in Nat /\ ReleaseGrace > 0
BY ReleaseGraceAssumption

\* The length a request asks for is a number.
LEMMA TotalNat ==
  ASSUME call \in [CdCalls -> Calls]
  PROVE  \A c \in CdCalls : call[c].total \in Nat
<1> TAKE c \in CdCalls
<1>1. call[c].total \in Totals \cup {0}
  BY DEF Calls
<1>2. CASE call[c].total = 0
  BY <1>2
<1>3. CASE call[c].total \in Totals
  BY <1>3, TotalsAssumption
<1>4. QED
  BY <1>1, <1>2, <1>3

\* A freshly started server and an idle browser are well typed.
LEMMA InitTypes == Init => TypeOK
<1> SUFFICES ASSUME Init PROVE TypeOK
  OBVIOUS
<1> USE DEF Init
<1>1. lock \in Locks
  BY DEF FreeLock, NoTimer, Locks
<1>2. client \in Clients
  BY DEF ClientInit, Clients, NoCountdown, Countdowns, GroupStates
<1>3. countdown \in Countdowns /\ call \in [CdCalls -> Calls]
  BY DEF CountdownInit, NoCountdown, Countdowns, NoCall, Calls
<1>4. group \in [Groups -> GroupStates] /\ cached \in [Groups -> BOOLEAN]
  BY DEF RallyInit, GroupStates
<1>5. /\ job \in [JobIds -> Jobs]
      /\ \A j \in JobIds : job[j].stage = "none" \/ job[j].g \in Groups
  BY DEF RallyInit, NoJob, Jobs, GroupStates
<1>6. snapshot \in [Groups -> Snapshots]
  BY DEF RallyInit, NoSnapshot, Snapshots
<1>7. QED
  BY <1>1, <1>2, <1>3, <1>4, <1>5, <1>6 DEF TypeOK

\* The steps of the alliance countdown keep the types.
LEMMA CountdownTypes ==
  ASSUME TypeOK, CountdownNext, UNCHANGED rallyVars
  PROVE  TypeOK'
<1> USE DEF TypeOK, rallyVars
<1>0. /\ CountdownHolder \in Holders
      /\ NoCountdown \in Countdowns /\ NoCall \in Calls
      /\ None \in Holders \cup {None}
  BY DEF Holders, NoCountdown, Countdowns, NoCall, Calls
<1> DEFINE Rest == /\ group' \in [Groups -> GroupStates] /\ job' \in [JobIds -> Jobs]
                   /\ \A j \in JobIds : job'[j].stage = "none" \/ job'[j].g \in Groups
                   /\ snapshot' \in [Groups -> Snapshots] /\ cached' \in [Groups -> BOOLEAN]
<1>00. Rest
  OBVIOUS
<1> SUFFICES /\ lock' \in Locks /\ client' \in Clients
             /\ countdown' \in Countdowns /\ call' \in [CdCalls -> Calls]
  BY <1>00
<1> HIDE DEF Rest
<1>1. ASSUME NEW c \in CdCalls, NEW total \in Totals, StartReceived(c, total)
      PROVE  /\ lock' \in Locks /\ client' \in Clients
             /\ countdown' \in Countdowns /\ call' \in [CdCalls -> Calls]
  BY <1>1 DEF StartReceived, Calls
<1>2. ASSUME NEW c \in CdCalls, StopReceived(c) \/ Refused(c) \/ ProbeAbandoned(c)
      PROVE  /\ lock' \in Locks /\ client' \in Clients
             /\ countdown' \in Countdowns /\ call' \in [CdCalls -> Calls]
  BY <1>0, <1>2 DEF StopReceived, Refused, ProbeAbandoned, Answered, Calls
<1>3. ASSUME NEW c \in CdCalls, StartAcquires(c)
      PROVE  /\ lock' \in Locks /\ client' \in Clients
             /\ countdown' \in Countdowns /\ call' \in [CdCalls -> Calls]
  <2>1. call[c].total + ReleaseGrace \in Nat
    BY TotalNat, ReleaseGraceNat
  <2>2. lock' \in Locks
    BY <1>0, <1>3, <2>1, LockTypes DEF StartAcquires
  <2>3. client' \in Clients /\ countdown' \in Countdowns
    BY <1>3 DEF StartAcquires
  <2>4. call' \in [CdCalls -> Calls]
    BY <1>3 DEF StartAcquires, Calls
  <2>5. QED
    BY <2>2, <2>3, <2>4
<1>4. ASSUME NEW c \in CdCalls, NEW grace \in Graces, ProbeAnswered(c, grace)
      PROVE  /\ lock' \in Locks /\ client' \in Clients
             /\ countdown' \in Countdowns /\ call' \in [CdCalls -> Calls]
  <2> DEFINE end == grace + call[c].total + ReleaseGrace
  <2>1. end \in Nat
    <3>1. grace \in Nat
      BY GracesAssumption
    <3>2. QED
      BY <3>1, TotalNat, ReleaseGraceNat
  <2>2. [active |-> TRUE, by |-> c, left |-> end] \in Countdowns
    BY <2>1 DEF Countdowns
  <2>3. lock' \in Locks
    BY <1>0, <1>4, <2>1, LockTypes DEF ProbeAnswered
  <2>4. SeeCountdown(client, [active |-> TRUE, by |-> c, left |-> end]) \in Clients
    BY <2>2 DEF SeeCountdown, Clients
  <2>5. client' \in Clients
    BY <1>0, <1>4, <2>4 DEF ProbeAnswered, Broadcast, SeeBusy, Clients
  <2>6. QED
    BY <1>0, <1>4, <2>2, <2>3, <2>5 DEF ProbeAnswered, Answered
<1>5. ASSUME NEW c \in CdCalls, ProbeFails(c)
      PROVE  /\ lock' \in Locks /\ client' \in Clients
             /\ countdown' \in Countdowns /\ call' \in [CdCalls -> Calls]
  <2>1. lock' \in Locks
    BY <1>0, <1>5, LockTypes DEF ProbeFails
  <2>2. QED
    BY <1>0, <1>5, <2>1 DEF ProbeFails, Answered, Broadcast, SeeBusy, Clients
<1>6. ASSUME NEW c \in CdCalls, Stops(c)
      PROVE  /\ lock' \in Locks /\ client' \in Clients
             /\ countdown' \in Countdowns /\ call' \in [CdCalls -> Calls]
  <2>1. lock' \in Locks
    BY <1>0, <1>6, LockTypes DEF Stops
  <2>2. QED
    BY <1>0, <1>6, <2>1 DEF Stops, Answered, Broadcast, SeeBusy, SeeCountdown, Clients
<1>7. ASSUME CountdownLeaseEnds
      PROVE  /\ lock' \in Locks /\ client' \in Clients
             /\ countdown' \in Countdowns /\ call' \in [CdCalls -> Calls]
  <2>1. Expired(lock) \in Locks /\ Expired(lock).holder = None
    BY DEF Expired, NoTimer, Locks
  <2>2. Remaining \in Nat
    BY DEF Remaining, Countdowns
  <2>3. lock' \in Locks
    BY <1>0, <1>7, <2>1, <2>2, LockTypes DEF CountdownLeaseEnds
  <2>4. countdown' \in Countdowns /\ call' \in [CdCalls -> Calls]
    BY <1>0, <1>7 DEF CountdownLeaseEnds
  <2>5. client' \in Clients
    BY <1>0, <1>7, <2>1 DEF CountdownLeaseEnds, Broadcast, SeeBusy, SeeCountdown, Clients
  <2>6. QED
    BY <2>3, <2>4, <2>5
<1>8. QED
  BY <1>1, <1>2, <1>3, <1>4, <1>5, <1>6, <1>7 DEF CountdownNext

\* A record of jobs in which one job is another well-formed one is well formed.
LEMMA JobChanged ==
  ASSUME TypeOK, NEW j \in JobIds, NEW r \in Jobs, r.stage = "none" \/ r.g \in Groups,
         job' = [job EXCEPT ![j] = r]
  PROVE  /\ job' \in [JobIds -> Jobs]
         /\ \A i \in JobIds : job'[i].stage = "none" \/ job'[i].g \in Groups
BY DEF TypeOK

\* The stages of a job that is under way.
StagesOfJobs == {"load", "loaded", "write", "written", "read", "readDone", "failed"}

\* A job that goes to another stage, with the state of its group and the
\* schedule of its members as they were read, stays well formed.
LEMMA JobEdited ==
  ASSUME TypeOK, NEW j \in JobIds, job[j].stage # "none", NEW stage \in StagesOfJobs,
         NEW full \in GroupStates, NEW march \in Nat, NEW span \in Nat,
         job' = [job EXCEPT ![j] = [job[j] EXCEPT !.stage = stage, !.full = full,
                                                  !.march = march, !.span = span]]
  PROVE  /\ job' \in [JobIds -> Jobs]
         /\ \A i \in JobIds : job'[i].stage = "none" \/ job'[i].g \in Groups
<1> DEFINE r == [job[j] EXCEPT !.stage = stage, !.full = full,
                               !.march = march, !.span = span]
<1>1. job[j] \in Jobs /\ job[j].g \in Groups
  BY DEF TypeOK
<1>2. r \in Jobs
  BY ONLY <1>1, stage \in StagesOfJobs, full \in GroupStates, march \in Nat, span \in Nat
     DEF Jobs, StagesOfJobs
<1>3. r.g \in Groups
  BY ONLY <1>1 DEF Jobs
<1>4. job' = [job EXCEPT ![j] = r]
  OBVIOUS
<1> HIDE DEF r
<1>5. QED
  BY <1>2, <1>3, <1>4, JobChanged

\* A job that only goes to another stage, or reads another state of its group.
LEMMA JobRestaged ==
  ASSUME TypeOK, NEW j \in JobIds, job[j].stage # "none", NEW stage \in StagesOfJobs,
         NEW full \in GroupStates,
         job' = [job EXCEPT ![j].stage = stage, ![j].full = full]
  PROVE  /\ job' \in [JobIds -> Jobs]
         /\ \A i \in JobIds : job'[i].stage = "none" \/ job'[i].g \in Groups
<1> DEFINE r == [job[j] EXCEPT !.stage = stage, !.full = full]
<1>1. job \in [JobIds -> Jobs] /\ job[j] \in Jobs /\ job[j].g \in Groups
  BY DEF TypeOK
<1>2. r \in Jobs
  BY ONLY <1>1, stage \in StagesOfJobs, full \in GroupStates DEF Jobs, StagesOfJobs
<1>3. r.g \in Groups
  BY ONLY <1>1 DEF Jobs
<1>4. job' = [job EXCEPT ![j] = r]
  BY ONLY <1>1, job' = [job EXCEPT ![j].stage = stage, ![j].full = full], j \in JobIds
<1> HIDE DEF r
<1>5. QED
  BY <1>2, <1>3, <1>4, JobChanged

\* The moves of a job between its stages.
LEMMA JobMoves ==
  ASSUME TypeOK, NEW j \in JobIds, job[j].stage # "none",
         \/ Finished(j)
         \/ \E stage \in {"written", "read", "readDone", "failed"} : Goes(j, stage)
  PROVE  /\ job' \in [JobIds -> Jobs]
         /\ \A i \in JobIds : job'[i].stage = "none" \/ job'[i].g \in Groups
<1>1. CASE Finished(j)
  <2>1. NoJob \in Jobs /\ NoJob.stage = "none"
    BY DEF NoJob, Jobs, GroupStates
  <2>2. QED
    BY <1>1, <2>1, JobChanged DEF Finished
<1>2. ASSUME NEW stage \in {"written", "read", "readDone", "failed"}, Goes(j, stage)
      PROVE  /\ job' \in [JobIds -> Jobs]
             /\ \A i \in JobIds : job'[i].stage = "none" \/ job'[i].g \in Groups
  <2> DEFINE r == [job[j] EXCEPT !.stage = stage]
  <2>1. job \in [JobIds -> Jobs] /\ job[j] \in Jobs /\ job[j].g \in Groups
    BY DEF TypeOK
  <2>2. r \in Jobs
    BY ONLY <2>1, stage \in {"written", "read", "readDone", "failed"} DEF Jobs
  <2>3. r.g \in Groups
    BY ONLY <2>1 DEF Jobs
  <2>4. job' = [job EXCEPT ![j] = r]
    BY <1>2 DEF Goes
  <2> HIDE DEF r
  <2>5. QED
    BY <2>2, <2>3, <2>4, JobChanged
<1>3. QED
  BY <1>1, <1>2

\* The answers of the database keep the types.
LEMMA QueryTypes ==
  ASSUME TypeOK, NEW j \in JobIds, Loads(j) \/ Writes(j) \/ Reads(j) \/ QueryFails(j)
  PROVE  /\ group' \in [Groups -> GroupStates]
         /\ job' \in [JobIds -> Jobs]
         /\ \A i \in JobIds : job'[i].stage = "none" \/ job'[i].g \in Groups
<1> DEFINE Goal == /\ group' \in [Groups -> GroupStates]
                   /\ job' \in [JobIds -> Jobs]
                   /\ \A i \in JobIds : job'[i].stage = "none" \/ job'[i].g \in Groups
<1>1. CASE Loads(j)
  <2>1. job[j].stage # "none" /\ group' = group
    BY <1>1, Zenon DEF Loads
  <2>2. CASE Finished(j)
    BY <2>1, <2>2, JobMoves DEF TypeOK
  <2>3. ASSUME NEW s \in IF job[j].op = "start" THEN Schedules ELSE {[march |-> 0, span |-> 0]},
               job' = [job EXCEPT ![j].stage = "loaded", ![j].full = group[job[j].g],
                                  ![j].march = s.march, ![j].span = s.span]
        PROVE  Goal
    <3>1. s.march \in Nat /\ s.span \in Nat
      BY SchedulesAssumption
    <3>2. job[j].g \in Groups /\ group[job[j].g] \in GroupStates
      BY <2>1 DEF TypeOK
    <3>3. job \in [JobIds -> Jobs] /\ "loaded" \in StagesOfJobs
      BY DEF TypeOK, StagesOfJobs
    <3>4. job' = [job EXCEPT ![j] = [job[j] EXCEPT !.stage = "loaded", !.full = group[job[j].g],
                                                   !.march = s.march, !.span = s.span]]
      BY ONLY <2>3, <3>3
    <3>5. group' \in [Groups -> GroupStates]
      BY <2>1 DEF TypeOK
    <3>6. QED
      BY <2>1, <3>1, <3>2, <3>3, <3>4, <3>5, JobEdited, Zenon
  <2>4. QED
    BY <1>1, <2>2, <2>3, Zenon DEF Loads
<1>2. CASE Writes(j)
  <2>1. job[j].stage # "none"
    BY <1>2 DEF Writes
  <2>2. Written(job[j].op) \in GroupStates
    BY DEF Written, GroupStates
  <2>3. group' \in [Groups -> GroupStates]
    BY <1>2, <2>2 DEF Writes, TypeOK
  <2>4. Finished(j) \/ Goes(j, "written")
    BY <1>2 DEF Writes
  <2>5. QED
    BY <2>1, <2>3, <2>4, JobMoves
<1>3. CASE Reads(j)
  <2>1. job[j].stage # "none" /\ group' = group /\ job[j].g \in Groups
    BY <1>3 DEF Reads, TypeOK
  <2>2. CASE Finished(j) \/ Goes(j, "failed")
    BY <2>1, <2>2, JobMoves DEF TypeOK
  <2>3. ASSUME NEW s \in GroupStates,
               job' = [job EXCEPT ![j].stage = "readDone", ![j].full = s]
        PROVE  Goal
    <3>1. "readDone" \in StagesOfJobs /\ group' \in [Groups -> GroupStates]
      BY <2>1 DEF TypeOK, StagesOfJobs
    <3>2. QED
      BY <2>1, <2>3, <3>1, JobRestaged
  <2>4. group[job[j].g] \in GroupStates /\ "gone" \in GroupStates
    BY <2>1 DEF TypeOK, GroupStates
  <2>5. QED
    BY <1>3, <2>2, <2>3, <2>4 DEF Reads
<1>4. CASE QueryFails(j)
  <2>1. job[j].stage # "none" /\ group' = group
    BY <1>4 DEF QueryFails
  <2>2. CASE Finished(j) \/ Goes(j, "failed")
    BY <2>1, <2>2, JobMoves DEF TypeOK
  <2>3. CASE job' = [job EXCEPT ![j].stage = "readDone", ![j].full = "gone"]
    <3>1. /\ "gone" \in GroupStates /\ "readDone" \in StagesOfJobs
          /\ group' \in [Groups -> GroupStates]
      BY <2>1 DEF TypeOK, GroupStates, StagesOfJobs
    <3>2. QED
      BY <2>1, <2>3, <3>1, JobRestaged
  <2>4. QED
    BY <1>4, <2>2, <2>3 DEF QueryFails
<1>5. QED
  BY <1>1, <1>2, <1>3, <1>4

\* The broadcasts keep the types.
LEMMA EmitTypes ==
  ASSUME TypeOK, NEW g \in Groups, NEW s \in GroupStates, NEW n \in Nat
  PROVE  /\ EmitGroupUpdated(g, s) =>
              cached' \in [Groups -> BOOLEAN] /\ snapshot' \in [Groups -> Snapshots]
         /\ EmitCountdownStart(g, n) \/ EmitCountdownStop(g) \/ EmitGroupRemoved(g) =>
              /\ cached' \in [Groups -> BOOLEAN] /\ snapshot' \in [Groups -> Snapshots]
              /\ client' \in Clients
<1>1. NoSnapshot \in Snapshots /\ [present |-> TRUE, left |-> n] \in Snapshots
  BY DEF NoSnapshot, Snapshots
<1>2. /\ Broadcast(SeeStart(client, g, n)) \in Clients
      /\ Broadcast(SeeStop(client, g)) \in Clients
      /\ Broadcast(SeeRemoved(client, g)) \in Clients
  BY DEF TypeOK, Broadcast, SeeStart, SeeStop, SeeRemoved, Clients, GroupStates
<1>3. QED
  BY <1>1, <1>2
     DEF TypeOK, EmitGroupUpdated, EmitCountdownStart, EmitCountdownStop, EmitGroupRemoved

\* What the services do between two queries keeps the types.
LEMMA ResumeTypes ==
  ASSUME TypeOK, NEW j \in JobIds, RallyResumes(j)
  PROVE  /\ lock' \in Locks /\ client' \in Clients /\ group' \in [Groups -> GroupStates]
         /\ job' \in [JobIds -> Jobs]
         /\ \A i \in JobIds : job'[i].stage = "none" \/ job'[i].g \in Groups
         /\ snapshot' \in [Groups -> Snapshots] /\ cached' \in [Groups -> BOOLEAN]
<1> DEFINE JobsOK == /\ job' \in [JobIds -> Jobs]
                     /\ \A i \in JobIds : job'[i].stage = "none" \/ job'[i].g \in Groups
           Goal == /\ lock' \in Locks /\ client' \in Clients
                   /\ group' \in [Groups -> GroupStates] /\ JobsOK
                   /\ snapshot' \in [Groups -> Snapshots] /\ cached' \in [Groups -> BOOLEAN]
           g == job[j].g
<1>a. /\ job[j] \in Jobs /\ "gone" \in GroupStates
      /\ NoJob \in Jobs
  BY DEF TypeOK, NoJob, Jobs, GroupStates
<1>b. Finished(j) /\ job[j].stage # "none" => JobsOK
  BY JobMoves
<1>c. job[j].stage # "none" => g \in Groups /\ g \in Holders
  BY DEF TypeOK, Holders
<1>d. /\ lock \in Locks /\ client \in Clients /\ group \in [Groups -> GroupStates]
      /\ snapshot \in [Groups -> Snapshots] /\ cached \in [Groups -> BOOLEAN]
      /\ lock.holder \in Holders \cup {None} /\ None \in Holders \cup {None}
  BY DEF TypeOK, Locks
<1>1. CASE StartTakesLock(j)
  <2>1. job[j].stage # "none"
    BY <1>1 DEF StartTakesLock, Step
  <2>2. Lead + job[j].march + IdleGrace \in Nat /\ Lead + job[j].span \in Nat
    BY <1>a, LeadAssumption, IdleGraceAssumption DEF Jobs
  <2>3. lock' \in Locks
    BY <1>1, <1>c, <1>d, <2>1, <2>2, LockTypes DEF StartTakesLock
  <2>4. [NoJob EXCEPT !.op = "start", !.stage = "write", !.g = g,
                      !.left = Lead + job[j].span] \in Jobs
    BY <1>c, <2>1, <2>2, <1>a DEF NoJob, Jobs, RallyOps
  <2>5. [NoJob EXCEPT !.op = "start", !.stage = "write", !.g = g,
                      !.left = Lead + job[j].span].g \in Groups
    BY <1>c, <2>1 DEF NoJob
  <2>6. JobsOK
    BY <1>1, <2>4, <2>5, JobChanged DEF StartTakesLock
  <2>7. QED
    BY <1>1, <1>d, <2>3, <2>6 DEF StartTakesLock
<1>2. CASE StartFindsBusy(j)
  BY <1>2, <1>b, <1>d DEF StartFindsBusy, Step
<1>3. CASE StartAnnounces(j)
  <2>1. job[j].stage # "none" /\ job[j].left \in Nat
    BY <1>3, <1>a DEF StartAnnounces, Step, Jobs
  <2>2. /\ client' \in Clients
        /\ snapshot' \in [Groups -> Snapshots] /\ cached' \in [Groups -> BOOLEAN]
    BY <1>3, <1>a, <1>c, <2>1, EmitTypes DEF StartAnnounces
  <2>3. JobsOK
    <3> DEFINE r == [job[j] EXCEPT !.stage = "read", !.left = 0]
    <3>1. r \in Jobs
      BY ONLY <1>a DEF Jobs
    <3>2. r.g \in Groups
      BY ONLY <1>a, <1>c, <2>1 DEF Jobs
    <3>3. job' = [job EXCEPT ![j] = r]
      BY ONLY <1>3 DEF StartAnnounces
    <3> HIDE DEF r
    <3>4. QED
      BY <3>1, <3>2, <3>3, JobChanged
  <2>4. QED
    BY <1>3, <1>d, <2>2, <2>3 DEF StartAnnounces
<1>4. CASE StartRecovers(j)
  <2>1. job[j].stage # "none"
    BY <1>4 DEF StartRecovers, Step
  <2>2. lock' \in Locks
    BY <1>4, <1>c, <1>d, <2>1, LockTypes DEF StartRecovers
  <2>3. client' \in Clients
    BY <1>4, <1>d DEF StartRecovers, Broadcast, SeeBusy, Clients
  <2>4. QED
    BY <1>4, <1>b, <1>d, <2>1, <2>2, <2>3 DEF StartRecovers
<1>5. CASE StopReleases(j)
  <2>1. job[j].stage # "none"
    BY <1>5 DEF StopReleases, Step
  <2>2. lock' \in Locks
    BY <1>5, <1>c, <1>d, <2>1, LockTypes DEF StopReleases, GivenBack
  <2>3. CASE job' = [job EXCEPT ![j].stage = "write", ![j].full = "gone"]
    <3>1. "write" \in StagesOfJobs
      BY DEF StagesOfJobs
    <3>2. JobsOK
      BY <1>a, <2>1, <2>3, <3>1, JobRestaged
    <3>3. QED
      BY <1>5, <1>d, <2>2, <3>2 DEF StopReleases
  <2>4. CASE Finished(j)
    BY <1>5, <1>b, <1>d, <2>1, <2>2, <2>4 DEF StopReleases
  <2>5. QED
    BY <1>5, <2>3, <2>4 DEF StopReleases
<1>6. CASE IdleAnnounced(j)
  <2>1. job[j].stage # "none"
    BY <1>6 DEF IdleAnnounced
  <2>2. /\ client' \in Clients
        /\ snapshot' \in [Groups -> Snapshots] /\ cached' \in [Groups -> BOOLEAN]
    BY <1>6, <1>a, <1>c, <2>1, EmitTypes DEF IdleAnnounced
  <2>3. JobsOK
    BY <1>6, <2>1, JobMoves DEF IdleAnnounced
  <2>4. QED
    BY <1>6, <1>d, <2>2, <2>3 DEF IdleAnnounced
<1>7. CASE Publishes(j)
  <2>1. job[j].stage # "none" /\ job[j].full \in GroupStates
    BY <1>7, <1>a DEF Publishes, Jobs
  <2>2. snapshot' \in [Groups -> Snapshots] /\ cached' \in [Groups -> BOOLEAN]
    BY <1>7, <1>c, <1>d, <2>1, EmitTypes DEF Publishes
  <2>3. GroupShown(j) \in Clients /\ BusyShown(j) \in Holders \cup {None}
    BY <1>c, <1>d, <2>1 DEF GroupShown, BusyShown, SeeGroup, Clients
  <2>4. client' \in Clients
    BY <1>7, <1>d, <2>3 DEF Publishes, Broadcast, SeeBusy, Clients
  <2>5. QED
    BY <1>7, <1>b, <1>d, <2>1, <2>2, <2>4 DEF Publishes
<1>e. ASSUME NEW k \in Groups, NEW rest \in SUBSET Groups,
             job' = [job EXCEPT ![j] = [NoJob EXCEPT !.op = "publish", !.stage = "read",
                                                     !.g = k, !.rest = rest]]
      PROVE  JobsOK
  <2>1. [NoJob EXCEPT !.op = "publish", !.stage = "read", !.g = k, !.rest = rest] \in Jobs
    BY <1>a DEF NoJob, Jobs, RallyOps
  <2>2. [NoJob EXCEPT !.op = "publish", !.stage = "read", !.g = k, !.rest = rest].g \in Groups
    BY DEF NoJob
  <2>3. QED
    BY <1>e, <2>1, <2>2, JobChanged
<1>8. CASE Removed(j)
  <2>1. job[j].stage # "none"
    BY <1>8, Zenon DEF Removed, Step
  <2>2. /\ client' \in Clients
        /\ snapshot' \in [Groups -> Snapshots] /\ cached' \in [Groups -> BOOLEAN]
    BY <1>8, <1>a, <1>c, <2>1, EmitTypes, Zenon DEF Removed
  <2>3. JobsOK
    <3>1. ASSUME NEW later \in SUBSET Groups, NEW k \in later,
                 job' = [job EXCEPT ![j] = [NoJob EXCEPT !.op = "publish", !.stage = "read",
                                                         !.g = k, !.rest = later \ {k}]]
          PROVE  JobsOK
      <4>1. k \in Groups /\ later \ {k} \in SUBSET Groups
        OBVIOUS
      <4>2. QED
        BY ONLY <3>1, <4>1, <1>e, Zenon
    <3>2. QED
      BY <1>8, <1>b, <2>1, <3>1, Zenon DEF Removed
  <2>4. QED
    BY <1>8, <1>d, <2>2, <2>3, Zenon DEF Removed
<1>9. CASE PublishesOnly(j)
  <2>1. job[j].stage # "none" /\ job[j].full \in GroupStates /\ job[j].rest \in SUBSET Groups
    BY <1>9, <1>a, Zenon DEF PublishesOnly, Step, Jobs
  <2>2. snapshot' \in [Groups -> Snapshots] /\ cached' \in [Groups -> BOOLEAN]
    BY <1>9, <1>c, <2>1, EmitTypes, Zenon DEF PublishesOnly
  <2>3. client' \in Clients
    BY <1>9, <1>c, <1>d, <2>1, Zenon DEF PublishesOnly, Broadcast, SeeGroup, Clients
  <2>4. JobsOK
    <3>1. ASSUME NEW k \in job[j].rest,
                 job' = [job EXCEPT ![j] = [NoJob EXCEPT !.op = "publish", !.stage = "read",
                                                         !.g = k, !.rest = job[j].rest \ {k}]]
          PROVE  JobsOK
      <4>1. k \in Groups /\ job[j].rest \ {k} \in SUBSET Groups
        BY <2>1
      <4>2. QED
        BY ONLY <3>1, <4>1, <1>e, Zenon
    <3>2. QED
      BY <1>9, <1>b, <2>1, <3>1, Zenon DEF PublishesOnly
  <2>5. QED
    BY <1>9, <1>d, <2>2, <2>3, <2>4, Zenon DEF PublishesOnly
<1>10. QED
  BY <1>1, <1>2, <1>3, <1>4, <1>5, <1>6, <1>7, <1>8, <1>9 DEF RallyResumes

\* The steps of the rally groups keep the types.
LEMMA RallyTypes ==
  ASSUME TypeOK, RallyNext, UNCHANGED gateVars
  PROVE  TypeOK'
<1>0. countdown' \in Countdowns /\ call' \in [CdCalls -> Calls]
  BY DEF TypeOK, gateVars
<1>1. ASSUME NEW j \in RallyCalls, NEW op \in Requests, NEW g \in Groups, Request(j, op, g)
      PROVE  TypeOK'
  <2>1. j \in JobIds /\ op \in RallyOps
    BY RequestsAssumption DEF JobIds
  <2>2. [NoJob EXCEPT !.op = op, !.g = g, !.stage = FirstStage(op)] \in Jobs
    BY <2>1 DEF NoJob, Jobs, FirstStage, RallyOps, GroupStates
  <2>3. [NoJob EXCEPT !.op = op, !.g = g, !.stage = FirstStage(op)].g \in Groups
    BY DEF NoJob
  <2>4. job' = [job EXCEPT ![j] = [NoJob EXCEPT !.op = op, !.g = g, !.stage = FirstStage(op)]]
    BY <1>1 DEF Request
  <2>5. /\ job' \in [JobIds -> Jobs]
        /\ \A i \in JobIds : job'[i].stage = "none" \/ job'[i].g \in Groups
    BY <2>1, <2>2, <2>3, <2>4, JobChanged
  <2>6. QED
    BY <1>0, <1>1, <2>5 DEF Request, TypeOK
<1>2. ASSUME NEW j \in JobIds, Loads(j) \/ Writes(j) \/ Reads(j) \/ QueryFails(j)
      PROVE  TypeOK'
  <2>1. UNCHANGED <<lock, client, snapshot, cached>>
    BY <1>2, Zenon DEF Loads, Writes, Reads, QueryFails
  <2>2. QED
    BY <1>0, <1>2, <2>1, QueryTypes DEF TypeOK
<1>3. ASSUME NEW j \in JobIds, RallyResumes(j)
      PROVE  TypeOK'
  BY <1>0, <1>3, ResumeTypes DEF TypeOK
<1>4. ASSUME NEW g \in Groups, RallyLeaseEnds(g)
      PROVE  TypeOK'
  <2>1. g \in JobIds
    BY DEF JobIds
  <2>2. IdleReset(g) \in Jobs /\ IdleReset(g).g \in Groups
    BY DEF IdleReset, NoJob, Jobs, GroupStates
  <2>3. /\ job' \in [JobIds -> Jobs]
        /\ \A i \in JobIds : job'[i].stage = "none" \/ job'[i].g \in Groups
    BY <1>4, <2>1, <2>2, JobChanged DEF RallyLeaseEnds
  <2>4. lock' \in Locks
    BY <1>4 DEF RallyLeaseEnds, Expired, NoTimer, Locks
  <2>5. QED
    BY <1>0, <1>4, <2>3, <2>4 DEF RallyLeaseEnds, TypeOK
<1>5. QED
  BY <1>1, <1>2, <1>3, <1>4 DEF RallyNext

\* The browser, the passing of time and a restart keep the types.
LEMMA SurroundingsTypes ==
  ASSUME TypeOK, ClientDrops \/ ClientConnects \/ SnapshotArrives \/ Tick \/ Restart
  PROVE  TypeOK'
<1>1. CASE ClientDrops
  BY <1>1 DEF ClientDrops, TypeOK, Clients, gateVars, rallyVars
<1>2. CASE ClientConnects
  <2>1. snapshot' \in [Groups -> Snapshots] /\ cached' \in [Groups -> BOOLEAN]
    BY <1>2 DEF ClientConnects, TypeOK, NoSnapshot, Snapshots
  <2>2. "running" \in GroupStates
    BY DEF GroupStates
  <2>3. client' \in Clients
    BY <1>2, <2>2, Zenon DEF ClientConnects, TypeOK, Clients, Snapshots
  <2>4. QED
    BY <1>2, <2>1, <2>3 DEF ClientConnects, TypeOK, gateVars
<1>3. CASE SnapshotArrives
  <2>1. client' \in Clients
    BY <1>3 DEF SnapshotArrives, Snapshot, SeeBusy, SeeCountdown, TypeOK, Clients, Locks
  <2>2. QED
    BY <1>3, <2>1 DEF SnapshotArrives, TypeOK, gateVars, rallyVars
<1>4. CASE Tick
  <2>1. lock' \in Locks
    BY <1>4, Minus1Type DEF Tick, LockAged, TypeOK, Locks
  <2>2. client' \in Clients
    <3>1. [client.countdown EXCEPT !.left = Minus1(@)] \in Countdowns
      BY Minus1Type DEF TypeOK, Clients, Countdowns
    <3>2. [k \in Groups |-> Minus1(client.start[k])] \in [Groups -> Nat]
      BY Minus1Type DEF TypeOK, Clients
    <3>3. QED
      BY <1>4, <3>1, <3>2, Zenon DEF Tick, TypeOK, ClientAged, Clients
  <2>3. countdown' \in Countdowns /\ call' \in [CdCalls -> Calls]
    BY <1>4, Minus1Type DEF Tick, TypeOK, Countdowns
  <2>4. /\ job' \in [JobIds -> Jobs]
        /\ \A i \in JobIds : job'[i].stage = "none" \/ job'[i].g \in Groups
    <3>1. ASSUME NEW j \in JobIds
          PROVE  /\ [job[j] EXCEPT !.left = Minus1(@)] \in Jobs
                 /\ [job[j] EXCEPT !.left = Minus1(@)].stage = job[j].stage
                 /\ [job[j] EXCEPT !.left = Minus1(@)].g = job[j].g
      <4>1. job[j] \in Jobs /\ Minus1(job[j].left) \in Nat
        BY Minus1Type DEF TypeOK, Jobs
      <4>2. QED
        BY <4>1 DEF Jobs
    <3>2. QED
      BY <1>4, <3>1 DEF Tick, TypeOK
  <2>5. snapshot' \in [Groups -> Snapshots]
    BY <1>4, Minus1Type DEF Tick, TypeOK, Snapshots
  <2>6. QED
    BY <1>4, <2>1, <2>2, <2>3, <2>4, <2>5 DEF Tick, TypeOK
<1>5. CASE Restart
  <2>1. /\ FreeLock \in Locks /\ NoCountdown \in Countdowns /\ NoCall \in Calls
        /\ NoSnapshot \in Snapshots
    BY DEF FreeLock, NoTimer, Locks, NoCountdown, Countdowns, NoCall, Calls, NoSnapshot,
           Snapshots
  <2>2. NoJob \in Jobs /\ NoJob.stage = "none" /\ "idle" \in GroupStates
    BY DEF NoJob, Jobs, GroupStates
  <2>3. client' \in Clients
    BY <1>5 DEF Restart, TypeOK, Clients
  <2>4. QED
    BY <1>5, <2>1, <2>2, <2>3 DEF Restart, TypeOK
<1>6. QED
  BY <1>1, <1>2, <1>3, <1>4, <1>5

\* Every step keeps the types.
LEMMA StepTypes == TypeOK /\ [Next]_vars => TypeOK'
<1> SUFFICES ASSUME TypeOK, [Next]_vars PROVE TypeOK'
  OBVIOUS
<1>1. CASE CountdownNext /\ UNCHANGED rallyVars
  BY <1>1, CountdownTypes
<1>2. CASE RallyNext /\ UNCHANGED gateVars
  BY <1>2, RallyTypes
<1>3. CASE ClientDrops \/ ClientConnects \/ SnapshotArrives \/ Tick \/ Restart
  BY <1>3, SurroundingsTypes
<1>4. CASE UNCHANGED vars
  BY <1>4 DEF vars, gateVars, rallyVars, TypeOK
<1>5. QED
  BY <1>1, <1>2, <1>3, <1>4 DEF Next

\* Every variable of the battle always has its type, and a job under way is
\* always about a group.
THEOREM Typing == Spec => []TypeOK
BY InitTypes, StepTypes, PTL DEF Spec

-----------------------------------------------------------------------------
(* The lease.                                                              *)

\* What a step does to the lock is one call of a method, one timer (that may
\* take the lock again for a countdown), the passing of time, or a new process.
LEMMA LockSteps ==
  ASSUME TypeOK, [Next]_vars
  PROVE  \/ lock' = lock \/ lock' = LockAged(lock) \/ lock' = FreeLock \/ lock' = Expired(lock)
         \/ \E h \in Holders, lease \in Nat \ {0} : lock' = Acquired(lock, h, lease)
         \/ \E h \in Holders, lease \in Nat : lock' = Rescheduled(lock, h, lease)
         \/ \E h \in Holders : lock' = Released(lock, h)
         \/ \E lease \in Nat \ {0} :
              /\ lock.timer.armed /\ lock.timer.owner = CountdownHolder
              /\ lock' = Acquired(Expired(lock), CountdownHolder, lease)
<1> DEFINE Goal ==
      \/ lock' = lock \/ lock' = LockAged(lock) \/ lock' = FreeLock \/ lock' = Expired(lock)
      \/ \E h \in Holders, lease \in Nat \ {0} : lock' = Acquired(lock, h, lease)
      \/ \E h \in Holders, lease \in Nat : lock' = Rescheduled(lock, h, lease)
      \/ \E h \in Holders : lock' = Released(lock, h)
      \/ \E lease \in Nat \ {0} :
           /\ lock.timer.armed /\ lock.timer.owner = CountdownHolder
           /\ lock' = Acquired(Expired(lock), CountdownHolder, lease)
<1>0. CountdownHolder \in Holders /\ \A g \in Groups : g \in Holders
  BY DEF Holders
<1>00. \A j \in JobIds : job[j].stage # "none" => job[j].g \in Holders
  BY <1>0 DEF TypeOK
<1>1. CASE CountdownNext
  <2>1. ASSUME NEW c \in CdCalls, StartAcquires(c) PROVE Goal
    <3>1. call[c].total + ReleaseGrace \in Nat \ {0}
      BY TotalNat, ReleaseGraceNat DEF TypeOK
    <3>2. QED
      BY <1>0, <2>1, <3>1 DEF StartAcquires
  <2>2. ASSUME NEW c \in CdCalls, NEW grace \in Graces, ProbeAnswered(c, grace) PROVE Goal
    <3>1. grace + call[c].total + ReleaseGrace \in Nat
      BY TotalNat, ReleaseGraceNat, GracesAssumption DEF TypeOK
    <3>2. QED
      BY <1>0, <2>2, <3>1 DEF ProbeAnswered
  <2>3. ASSUME NEW c \in CdCalls, ProbeFails(c) \/ Stops(c) PROVE Goal
    BY <1>0, <2>3 DEF ProbeFails, Stops
  <2>4. ASSUME CountdownLeaseEnds PROVE Goal
    <3>1. Remaining \in Nat
      BY DEF Remaining, TypeOK, Countdowns
    <3>2. QED
      BY <2>4, <3>1 DEF CountdownLeaseEnds, Due
  <2>5. ASSUME NEW c \in CdCalls,
               \/ \E total \in Totals : StartReceived(c, total)
               \/ StopReceived(c) \/ Refused(c) \/ ProbeAbandoned(c)
        PROVE  Goal
    BY <2>5 DEF StartReceived, StopReceived, Refused, ProbeAbandoned
  <2>6. QED
    BY <1>1, <2>1, <2>2, <2>3, <2>4, <2>5 DEF CountdownNext
<1>2. CASE RallyNext
  <2>1. ASSUME NEW j \in JobIds, StartTakesLock(j) PROVE Goal
    <3>1. Lead + job[j].march + IdleGrace \in Nat \ {0}
      BY LeadAssumption, IdleGraceAssumption DEF TypeOK, Jobs
    <3>2. job[j].g \in Holders
      BY <1>00, <2>1 DEF StartTakesLock, Step
    <3>3. QED
      BY <2>1, <3>1, <3>2 DEF StartTakesLock
  <2>2. ASSUME NEW j \in JobIds, StartRecovers(j) \/ StopReleases(j) PROVE Goal
    <3>1. job[j].g \in Holders
      BY <1>00, <2>2 DEF StartRecovers, StopReleases, Step
    <3>2. QED
      BY <2>2, <3>1 DEF StartRecovers, StopReleases, GivenBack
  <2>3. ASSUME NEW g \in Groups, RallyLeaseEnds(g) PROVE Goal
    BY <2>3 DEF RallyLeaseEnds
  <2>4. ASSUME NEW j \in JobIds,
               \/ Loads(j) \/ Writes(j) \/ Reads(j) \/ QueryFails(j)
               \/ StartFindsBusy(j) \/ StartAnnounces(j) \/ IdleAnnounced(j) \/ Publishes(j)
               \/ Removed(j) \/ PublishesOnly(j)
               \/ \E op \in Requests, g \in Groups : Request(j, op, g)
        PROVE  Goal
    BY <2>4, Zenon DEF Loads, Writes, Reads, QueryFails, StartFindsBusy, StartAnnounces,
                IdleAnnounced, Publishes, Removed, PublishesOnly, Request
  <2>5. QED
    BY <1>2, <2>1, <2>2, <2>3, <2>4 DEF RallyNext, RallyResumes, JobIds
<1>3. CASE ClientDrops \/ ClientConnects \/ SnapshotArrives \/ Tick \/ Restart
  BY <1>3 DEF ClientDrops, ClientConnects, SnapshotArrives, Tick, Restart
<1>4. CASE UNCHANGED vars
  BY <1>4 DEF vars
<1>5. QED
  BY <1>1, <1>2, <1>3, <1>4 DEF Next

\* Every step keeps the lease with the holder.
LEMMA StepLease == TypeOK /\ LeaseOfHolder /\ [Next]_vars => LeaseOfHolder'
<1> SUFFICES ASSUME TypeOK, LeaseOfHolder, [Next]_vars PROVE LeaseInv(lock')
  BY DEF LeaseOfHolder, LeaseInv, Minus1
<1>1. lock \in Locks /\ LeaseInv(lock) /\ CountdownHolder \in Holders /\ 0 \in Nat
  BY DEF TypeOK, LeaseOfHolder, Holders
<1>2. LeaseInv(LockAged(lock)) /\ LeaseInv(FreeLock) /\ LeaseInv(Expired(lock))
  BY <1>1, LeaseKept
<1>3. ASSUME NEW h \in Holders, NEW lease \in Nat \ {0}, lock' = Acquired(lock, h, lease)
      PROVE  LeaseInv(lock')
  <2>1. lease \in Nat /\ lease > 0
    OBVIOUS
  <2>2. QED
    BY <1>1, <1>3, <2>1, LeaseKept
<1>4. ASSUME NEW h \in Holders, NEW lease \in Nat, lock' = Rescheduled(lock, h, lease)
      PROVE  LeaseInv(lock')
  BY <1>1, <1>4, LeaseKept
<1>5. ASSUME NEW h \in Holders, lock' = Released(lock, h)
      PROVE  LeaseInv(lock')
  BY <1>1, <1>5, LeaseKept
<1>6. ASSUME NEW lease \in Nat \ {0}, lock' = Acquired(Expired(lock), CountdownHolder, lease)
      PROVE  LeaseInv(lock')
  <2>1. lease \in Nat /\ lease > 0 /\ Expired(lock) \in Locks
    BY <1>1, LockTypes
  <2>2. QED
    BY <1>1, <1>2, <1>6, <2>1, LeaseKept
<1>7. QED
  BY <1>1, <1>2, <1>3, <1>4, <1>5, <1>6, LockSteps

\* The lock of a running system is always leased to its holder: nobody blocks
\* the others for ever, and no timer outlives the one it was armed for.
THEOREM LeaseSafe == Spec => []LeaseOfHolder
<1>1. Init => LeaseOfHolder
  BY DEF Init, LeaseOfHolder, LeaseInv, FreeLock, NoTimer
<1>2. QED
  BY <1>1, Typing, StepLease, PTL DEF Spec

-----------------------------------------------------------------------------
(* The alliance countdown.                                                 *)

\* An active countdown holds the lock until it ends.  LeaseOfHolder is needed
\* where a rally's timer fires: it is not the countdown's lease that ends.
CountdownInv == ActiveHoldsLock /\ LeaseEndsWithCountdown

LEMMA StepCountdown ==
  ASSUME "probeError" \notin Faults, TypeOK, LeaseOfHolder, CountdownInv, [Next]_vars
  PROVE  CountdownInv'
<1> USE DEF CountdownInv, ActiveHoldsLock, LeaseEndsWithCountdown
<1>0. /\ CountdownHolder # None
      /\ \A g \in Groups : g # CountdownHolder /\ g # None
  BY GroupsAssumption DEF CountdownHolder, None
<1>00. lock \in Locks /\ countdown \in Countdowns
  BY DEF TypeOK
<1>1. CASE CountdownNext
  <2>1. ASSUME NEW c \in CdCalls, StartAcquires(c) PROVE CountdownInv'
    BY <1>0, <2>1 DEF StartAcquires, Free
  <2>2. ASSUME NEW c \in CdCalls, NEW grace \in Graces, ProbeAnswered(c, grace)
        PROVE  CountdownInv'
    <3> DEFINE end == grace + call[c].total + ReleaseGrace
    <3>1. end > 0
      BY TotalNat, ReleaseGraceNat, GracesAssumption DEF TypeOK
    <3>2. /\ lock.holder = CountdownHolder
          /\ lock' = Rescheduled(lock, CountdownHolder, end)
          /\ countdown' = [active |-> TRUE, by |-> c, left |-> end]
      BY <2>2 DEF ProbeAnswered, StillHeld
    <3> HIDE DEF end
    <3>3. lock' = [lock EXCEPT !.timer = Timer(CountdownHolder, end)]
      BY <3>1, <3>2 DEF Rescheduled
    <3>4. lock'.holder = CountdownHolder /\ lock'.timer.left = end
      BY <1>00, <3>2, <3>3 DEF Timer, Locks
    <3>5. QED
      BY <3>2, <3>4
  <2>3. ASSUME NEW c \in CdCalls, ProbeFails(c) PROVE CountdownInv'
    BY <2>3 DEF ProbeFails
  <2>4. ASSUME NEW c \in CdCalls, Stops(c) PROVE CountdownInv'
    BY <2>4 DEF Stops, NoCountdown
  <2>5. ASSUME CountdownLeaseEnds PROVE CountdownInv'
    <3>1. CASE Remaining > 0
      <4>1. /\ countdown.active /\ Remaining = countdown.left
            /\ countdown' = countdown
            /\ lock' = Acquired(Expired(lock), CountdownHolder, Remaining)
        BY <2>5, <3>1 DEF CountdownLeaseEnds, Remaining
      <4>2. lock' = [holder |-> CountdownHolder, timer |-> Timer(CountdownHolder, Remaining)]
        BY <3>1, <4>1 DEF Acquired, Free, Expired
      <4>3. QED
        BY <4>1, <4>2 DEF Timer
    <3>2. CASE ~(Remaining > 0)
      BY <2>5, <3>2 DEF CountdownLeaseEnds, NoCountdown
    <3>3. QED
      BY <3>1, <3>2
  <2>6. ASSUME NEW c \in CdCalls,
               \/ \E total \in Totals : StartReceived(c, total)
               \/ StopReceived(c) \/ Refused(c) \/ ProbeAbandoned(c)
        PROVE  CountdownInv'
    BY <2>6 DEF StartReceived, StopReceived, Refused, ProbeAbandoned
  <2>7. QED
    BY <1>1, <2>1, <2>2, <2>3, <2>4, <2>5, <2>6 DEF CountdownNext
<1>2. CASE RallyNext /\ UNCHANGED gateVars
  <2>0. countdown' = countdown
    BY <1>2 DEF gateVars
  <2>1. ASSUME NEW j \in JobIds, StartTakesLock(j) PROVE CountdownInv'
    BY <1>0, <2>0, <2>1 DEF StartTakesLock, Free
  <2>2. ASSUME NEW j \in JobIds, StartRecovers(j) \/ StopReleases(j) PROVE CountdownInv'
    <3>1. job[j].g \in Groups
      BY <2>2 DEF StartRecovers, StopReleases, Step, TypeOK
    <3>2. lock.holder = CountdownHolder => lock' = lock
      BY <1>0, <2>2, <3>1 DEF StartRecovers, StopReleases, GivenBack, Released
    <3>3. QED
      BY <2>0, <3>2
  <2>3. ASSUME NEW g \in Groups, RallyLeaseEnds(g) PROVE CountdownInv'
    BY <1>0, <2>0, <2>3 DEF RallyLeaseEnds, Due, LeaseOfHolder, LeaseInv
  <2>4. ASSUME NEW j \in JobIds,
               \/ Loads(j) \/ Writes(j) \/ Reads(j) \/ QueryFails(j)
               \/ StartFindsBusy(j) \/ StartAnnounces(j) \/ IdleAnnounced(j) \/ Publishes(j)
               \/ Removed(j) \/ PublishesOnly(j)
               \/ \E op \in Requests, g \in Groups : Request(j, op, g)
        PROVE  CountdownInv'
    BY <2>0, <2>4, Zenon DEF Loads, Writes, Reads, QueryFails, StartFindsBusy, StartAnnounces,
                      IdleAnnounced, Publishes, Removed, PublishesOnly, Request
  <2>5. QED
    BY <1>2, <2>1, <2>2, <2>3, <2>4 DEF RallyNext, RallyResumes, JobIds
<1>3. CASE Tick
  BY <1>3, <1>00 DEF Tick, LockAged, Locks, Countdowns
<1>4. CASE Restart
  BY <1>4 DEF Restart, NoCountdown
<1>5. CASE ClientDrops \/ ClientConnects \/ SnapshotArrives
  BY <1>5 DEF ClientDrops, ClientConnects, SnapshotArrives, gateVars
<1>6. CASE UNCHANGED vars
  BY <1>6 DEF vars, gateVars
<1>7. QED
  BY <1>1, <1>2, <1>3, <1>4, <1>5, <1>6 DEF Next

\* Unless a probe is rejected, a countdown that the server calls active holds
\* the lock, whatever rally groups, browsers and the database do.
THEOREM CountdownHoldsLock ==
  ASSUME "probeError" \notin Faults
  PROVE  Spec => []ActiveHoldsLock
<1>1. Init => CountdownInv
  BY DEF Init, CountdownInit, NoCountdown, CountdownInv, ActiveHoldsLock, LeaseEndsWithCountdown
<1>2. TypeOK /\ LeaseOfHolder /\ CountdownInv /\ [Next]_vars => CountdownInv'
  BY StepCountdown
<1>3. CountdownInv => ActiveHoldsLock
  BY DEF CountdownInv
<1>4. QED
  BY <1>1, <1>2, <1>3, Typing, LeaseSafe, PTL DEF Spec

\* Unless a probe is rejected, the lease of an active countdown ends neither
\* before nor after the countdown itself.
THEOREM LeaseMeetsCountdown ==
  ASSUME "probeError" \notin Faults
  PROVE  Spec => []LeaseEndsWithCountdown
<1>1. Init => CountdownInv
  BY DEF Init, CountdownInit, NoCountdown, CountdownInv, ActiveHoldsLock, LeaseEndsWithCountdown
<1>2. TypeOK /\ LeaseOfHolder /\ CountdownInv /\ [Next]_vars => CountdownInv'
  BY StepCountdown
<1>3. CountdownInv => LeaseEndsWithCountdown
  BY DEF CountdownInv
<1>4. QED
  BY <1>1, <1>2, <1>3, Typing, LeaseSafe, PTL DEF Spec

\* A browser that has its snapshot sees the countdown of the server: the
\* snapshot closes every gap that an absence left, and no broadcast is missed
\* afterwards.
LEMMA StepSeen == TypeOK /\ CountdownSeen /\ [Next]_vars => CountdownSeen'
<1> SUFFICES ASSUME TypeOK, CountdownSeen, [Next]_vars PROVE CountdownSeen'
  OBVIOUS
<1> USE DEF CountdownSeen
<1>0. client \in Clients
  BY DEF TypeOK
<1> DEFINE Kept == client'.stage = client.stage /\ client'.countdown = client.countdown
<1>1. CASE CountdownNext
  <2>1. ASSUME NEW cd \in Countdowns, NEW h \in Holders \cup {None},
               client' = Broadcast(SeeBusy(SeeCountdown(client, cd), h)), countdown' = cd
        PROVE  CountdownSeen'
    BY <1>0, <2>1 DEF Broadcast, Connected, SeeBusy, SeeCountdown, Clients
  <2>2. /\ NoCountdown \in Countdowns
        /\ CountdownHolder \in Holders \cup {None} /\ None \in Holders \cup {None}
    BY DEF NoCountdown, Countdowns, Holders
  <2>3. ASSUME NEW c \in CdCalls, NEW grace \in Graces, ProbeAnswered(c, grace)
        PROVE  CountdownSeen'
    <3>1. grace + call[c].total + ReleaseGrace \in Nat
      BY TotalNat, ReleaseGraceNat, GracesAssumption DEF TypeOK
    <3>2. countdown' \in Countdowns
      BY <2>3, <3>1 DEF ProbeAnswered, Countdowns
    <3>3. client' = Broadcast(SeeBusy(SeeCountdown(client, countdown'), CountdownHolder))
      BY <2>3 DEF ProbeAnswered
    <3>4. QED
      BY <2>1, <2>2, <3>2, <3>3
  <2>4. ASSUME NEW c \in CdCalls, Stops(c) PROVE CountdownSeen'
    BY <2>1, <2>2, <2>4 DEF Stops
  <2>5. ASSUME CountdownLeaseEnds PROVE CountdownSeen'
    <3>1. CASE Remaining > 0
      BY <2>5, <3>1 DEF CountdownLeaseEnds
    <3>2. CASE ~(Remaining > 0)
      <4>1. client' = Broadcast(SeeBusy(SeeCountdown(client, NoCountdown), None))
        BY <2>5, <3>2 DEF CountdownLeaseEnds, Expired
      <4>2. countdown' = NoCountdown
        BY <2>5, <3>2 DEF CountdownLeaseEnds
      <4>3. QED
        BY <2>1, <2>2, <4>1, <4>2
    <3>3. QED
      BY <3>1, <3>2
  <2>6. ASSUME NEW c \in CdCalls, ProbeFails(c) PROVE CountdownSeen'
    BY <1>0, <2>6 DEF ProbeFails, Broadcast, SeeBusy, Clients
  <2>7. ASSUME NEW c \in CdCalls,
               \/ \E total \in Totals : StartReceived(c, total)
               \/ StopReceived(c) \/ Refused(c) \/ StartAcquires(c) \/ ProbeAbandoned(c)
        PROVE  CountdownSeen'
    BY <2>7 DEF StartReceived, StopReceived, Refused, StartAcquires, ProbeAbandoned
  <2>8. QED
    BY <1>1, <2>3, <2>4, <2>5, <2>6, <2>7 DEF CountdownNext
<1>2. CASE RallyNext /\ UNCHANGED gateVars
  <2>0. countdown' = countdown
    BY <1>2 DEF gateVars
  <2>1. ASSUME NEW j \in JobIds, StartAnnounces(j) \/ IdleAnnounced(j) \/ Removed(j)
        PROVE  Kept
    BY <1>0, <2>1, Zenon DEF StartAnnounces, IdleAnnounced, Removed, EmitCountdownStart,
                      EmitCountdownStop, EmitGroupRemoved, Broadcast, SeeStart, SeeStop,
                      SeeRemoved, Clients
  <2>2. ASSUME NEW j \in JobIds, StartRecovers(j) \/ Publishes(j) \/ PublishesOnly(j)
        PROVE  Kept
    BY <1>0, <2>2, Zenon DEF StartRecovers, Publishes, PublishesOnly, GroupShown, Broadcast,
                      SeeBusy, SeeGroup, Clients
  <2>3. ASSUME NEW j \in JobIds,
               \/ Loads(j) \/ Writes(j) \/ Reads(j) \/ QueryFails(j)
               \/ StartTakesLock(j) \/ StartFindsBusy(j) \/ StopReleases(j)
               \/ \E op \in Requests, g \in Groups : Request(j, op, g)
        PROVE  Kept
    BY <2>3, Zenon DEF Loads, Writes, Reads, QueryFails, StartTakesLock, StartFindsBusy,
                StopReleases, Request
  <2>4. ASSUME NEW g \in Groups, RallyLeaseEnds(g) PROVE Kept
    BY <2>4 DEF RallyLeaseEnds
  <2>5. Kept
    BY <1>2, <2>1, <2>2, <2>3, <2>4 DEF RallyNext, RallyResumes, JobIds
  <2>6. QED
    BY <2>0, <2>5
<1>3. CASE Tick
  BY <1>0, <1>3 DEF Tick, ClientAged, Clients, TypeOK
<1>4. CASE ClientDrops \/ ClientConnects \/ Restart
  BY <1>0, <1>4 DEF ClientDrops, ClientConnects, Restart, Clients
<1>5. CASE SnapshotArrives
  BY <1>0, <1>5 DEF SnapshotArrives, Snapshot, SeeBusy, SeeCountdown, gateVars, Clients
<1>6. CASE UNCHANGED vars
  BY <1>6 DEF vars, gateVars
<1>7. QED
  BY <1>1, <1>2, <1>3, <1>4, <1>5, <1>6 DEF Next

\* A browser that has received its snapshot always shows exactly the countdown
\* of the server, through drops, restarts and rejected probes.
THEOREM BrowserSeesCountdown == Spec => []CountdownSeen
<1>1. Init => CountdownSeen
  BY DEF Init, CountdownInit, ClientInit, CountdownSeen
<1>2. QED
  BY <1>1, Typing, StepSeen, PTL DEF Spec

-----------------------------------------------------------------------------
(* The lock as a gate.                                                     *)

\* The safety half of the refinement: the lock opens for one announcement at a
\* time and passes from one to the next only through being free.
THEOREM GateIsSafe == Spec => Gate!Init /\ [][Gate!Next]_(lock.holder)
<1>1. Init => Gate!Init
  BY DEF Init, FreeLock, Gate!Init
<1>2. TypeOK /\ LeaseOfHolder /\ [Next]_vars => [Gate!Next]_(lock.holder)
  <2> SUFFICES ASSUME TypeOK, LeaseOfHolder, [Next]_vars, lock'.holder # lock.holder
               PROVE  \/ lock.holder # None /\ lock'.holder = None
                      \/ \E a \in Holders : lock.holder = None /\ lock'.holder = a
    BY DEF Gate!Next, Gate!Leave, Gate!Enter
  <2>1. lock \in Locks /\ CountdownHolder \in Holders
    BY DEF TypeOK, Holders
  <2>2. CASE lock.holder = None
    <3>1. lock' # FreeLock /\ lock' # Expired(lock)
      BY <2>2 DEF FreeLock, Expired
    <3>2. lock'.holder \in Holders \cup {None}
      <4>1. lock' \in Locks
        BY StepTypes DEF TypeOK
      <4>2. QED
        BY <4>1 DEF Locks
    <3>3. QED
      BY <2>2, <3>2
  <2>3. CASE lock.holder # None
    <3>1. ASSUME NEW h \in Holders, NEW lease \in Nat,
                 lock' = Acquired(lock, h, lease) \/ lock' = Rescheduled(lock, h, lease)
          PROVE  FALSE
      BY <2>1, <2>3, <3>1, HolderKept
    <3>2. lock' # LockAged(lock)
      BY <2>1 DEF LockAged, Locks
    <3>3. ASSUME NEW h \in Holders, lock' = Released(lock, h)
          PROVE  lock'.holder = None
      BY <3>3 DEF Released, FreeLock
    <3>4. ASSUME NEW lease \in Nat \ {0}, lock.timer.armed, lock.timer.owner = CountdownHolder,
                 lock' = Acquired(Expired(lock), CountdownHolder, lease)
          PROVE  FALSE
      BY <3>4 DEF LeaseOfHolder, LeaseInv, Acquired, Expired, Free
    <3>5. lock' = FreeLock \/ lock' = Expired(lock) => lock'.holder = None
      BY DEF FreeLock, Expired
    <3>6. QED
      BY <2>3, <3>1, <3>2, <3>3, <3>4, <3>5, LockSteps
  <2>4. QED
    BY <2>2, <2>3
<1>3. QED
  BY <1>1, <1>2, Typing, LeaseSafe, PTL DEF Spec
-----------------------------------------------------------------------------
(* What blocks a browser.                                                  *)

\* BusySeen is not inductive: a probe that is abandoned must not be the one
\* for which a browser was not told.  If it was not told of a holder, then the
\* countdown holds the lock, and some start is going to tell it.
BusyInv ==
  client.stage = "online" /\ client.busy # lock.holder =>
    /\ lock.holder = CountdownHolder
    /\ \E c \in CdCalls : call[c].stage = "probing"

LEMMA StepBusy ==
  ASSUME Groups = {}, TypeOK, LeaseOfHolder, BusyInv, [Next]_vars
  PROVE  BusyInv'
<1>0. /\ lock \in Locks /\ client \in Clients /\ call \in [CdCalls -> Calls]
      /\ lock.holder \in {None, CountdownHolder}
  BY DEF TypeOK, Locks, Holders
<1>1. CASE CountdownNext
  <2>1. ASSUME NEW c \in CdCalls, StartAcquires(c) PROVE BusyInv'
    <3>1. lock'.holder = CountdownHolder
      BY <2>1 DEF StartAcquires, Acquired, Free
    <3>2. call'[c].stage = "probing"
      BY <1>0, <2>1 DEF StartAcquires, Calls
    <3>3. QED
      BY <3>1, <3>2 DEF BusyInv
  <2>2. ASSUME NEW c \in CdCalls, NEW grace \in Graces, ProbeAnswered(c, grace) PROVE BusyInv'
    <3>1. lock'.holder = CountdownHolder
      BY <1>0, <2>2 DEF ProbeAnswered, StillHeld, Rescheduled, Locks
    <3>2. client'.stage # "online" \/ client'.busy = CountdownHolder
      BY <1>0, <2>2 DEF ProbeAnswered, Broadcast, Connected, SeeBusy, SeeCountdown, Clients
    <3>3. QED
      BY <3>1, <3>2 DEF BusyInv
  <2>3. ASSUME NEW c \in CdCalls, ProbeFails(c) \/ Stops(c) PROVE BusyInv'
    <3>1. lock'.holder = None
      BY <1>0, <2>3 DEF ProbeFails, Stops, Released, FreeLock
    <3>2. client'.stage # "online" \/ client'.busy = None
      BY <1>0, <2>3 DEF ProbeFails, Stops, Broadcast, Connected, SeeBusy, SeeCountdown, Clients
    <3>3. QED
      BY <3>1, <3>2 DEF BusyInv
  <2>4. ASSUME CountdownLeaseEnds PROVE BusyInv'
    <3>0. lock.holder = CountdownHolder
      BY <2>4 DEF CountdownLeaseEnds, Due, LeaseOfHolder, LeaseInv
    <3>1. CASE Remaining > 0
      <4>1. lock'.holder = CountdownHolder /\ UNCHANGED <<client, call>>
        BY <2>4, <3>1 DEF CountdownLeaseEnds, Acquired, Expired, Free
      <4>2. QED
        BY <3>0, <4>1 DEF BusyInv
    <3>2. CASE ~(Remaining > 0)
      <4>1. lock'.holder = None
        BY <2>4, <3>2 DEF CountdownLeaseEnds, Expired
      <4>2. client' = Broadcast(SeeBusy(SeeCountdown(client, NoCountdown), None))
        BY <2>4, <3>2 DEF CountdownLeaseEnds, Expired
      <4>3. client'.stage # "online" \/ client'.busy = None
        BY <1>0, <4>2 DEF Broadcast, Connected, SeeBusy, SeeCountdown, Clients
      <4>4. QED
        BY <4>1, <4>3 DEF BusyInv
    <3>3. QED
      BY <3>1, <3>2
  <2>5. ASSUME NEW c \in CdCalls, ProbeAbandoned(c) PROVE BusyInv'
    BY <2>5 DEF ProbeAbandoned, StillHeld, BusyInv
  <2>6. ASSUME NEW c \in CdCalls,
               \/ \E total \in Totals : StartReceived(c, total)
               \/ StopReceived(c) \/ Refused(c)
        PROVE  BusyInv'
    <3>1. UNCHANGED <<lock, client>> /\ call[c].stage # "probing"
      BY <2>6 DEF StartReceived, StopReceived, Refused
    <3>2. \A d \in CdCalls : d # c => call'[d] = call[d]
      BY <1>0, <2>6 DEF StartReceived, StopReceived, Refused, Answered
    <3>3. QED
      BY <3>1, <3>2 DEF BusyInv
  <2>7. QED
    BY <1>1, <2>1, <2>2, <2>3, <2>4, <2>5, <2>6 DEF CountdownNext
<1>2. CASE RallyNext
  <2>1. \A j \in JobIds : job[j].stage = "none"
    BY DEF TypeOK
  <2>2. QED
    BY <1>2, <2>1, Zenon DEF RallyNext, Loads, Writes, Reads, QueryFails, RallyResumes, StartTakesLock,
                      StartFindsBusy, StartAnnounces, StartRecovers, StopReleases, IdleAnnounced,
                      Publishes, Removed, PublishesOnly, Step
<1>3. CASE Tick
  BY <1>0, <1>3 DEF Tick, LockAged, ClientAged, Locks, Clients, BusyInv
<1>4. CASE ClientDrops \/ ClientConnects \/ Restart
  BY <1>0, <1>4 DEF ClientDrops, ClientConnects, Restart, Clients, BusyInv
<1>5. CASE SnapshotArrives
  BY <1>0, <1>5 DEF SnapshotArrives, Snapshot, SeeBusy, SeeCountdown, Clients, BusyInv
<1>6. CASE UNCHANGED vars
  BY <1>6 DEF vars, gateVars, BusyInv
<1>7. QED
  BY <1>1, <1>2, <1>3, <1>4, <1>5, <1>6 DEF Next

\* Without rally groups, a browser with its snapshot is blocked exactly while
\* somebody holds the lock, but for a start that is still probing.
THEOREM BrowserSeesBusy ==
  ASSUME Groups = {}
  PROVE  Spec => []BusySeen
<1>1. Init => BusyInv
  BY DEF Init, ClientInit, FreeLock, BusyInv
<1>2. TypeOK /\ LeaseOfHolder /\ BusyInv /\ [Next]_vars => BusyInv'
  BY StepBusy
<1>3. BusyInv => BusySeen
  BY DEF BusyInv, BusySeen
<1>4. QED
  BY <1>1, <1>2, <1>3, Typing, LeaseSafe, PTL DEF Spec

-----------------------------------------------------------------------------
(* What ends a countdown, and who takes the lock from a group.             *)

\* A countdown ends when its time is over, by a stop, or with the process: a
\* timer that fires early finds time left and goes on.
LEMMA StepEnds ==
  ASSUME TypeOK, [Next]_vars, countdown.active, ~countdown'.active
  PROVE  \/ countdown.left = 0
         \/ \E c \in CdCalls : call[c].stage = "stopping" /\ call'[c].stage = "idle"
         \/ Restart
<1> DEFINE Goal == \/ countdown.left = 0
                   \/ \E c \in CdCalls : call[c].stage = "stopping" /\ call'[c].stage = "idle"
                   \/ Restart
<1>0. countdown \in Countdowns /\ call \in [CdCalls -> Calls]
  BY DEF TypeOK
<1>1. CASE CountdownNext
  <2>1. ASSUME NEW c \in CdCalls, Stops(c) PROVE Goal
    BY <1>0, <2>1 DEF Stops, Answered, NoCall
  <2>2. ASSUME CountdownLeaseEnds PROVE Goal
    BY <1>0, <2>2 DEF CountdownLeaseEnds, Remaining, Countdowns
  <2>3. ASSUME NEW c \in CdCalls, NEW grace \in Graces, ProbeAnswered(c, grace) PROVE FALSE
    BY <2>3 DEF ProbeAnswered
  <2>4. ASSUME NEW c \in CdCalls,
               \/ \E total \in Totals : StartReceived(c, total)
               \/ StopReceived(c) \/ Refused(c) \/ StartAcquires(c) \/ ProbeAbandoned(c)
               \/ ProbeFails(c)
        PROVE  FALSE
    BY <2>4 DEF StartReceived, StopReceived, Refused, StartAcquires, ProbeAbandoned, ProbeFails
  <2>5. QED
    BY <1>1, <2>1, <2>2, <2>3, <2>4 DEF CountdownNext
<1>2. CASE Tick
  BY <1>0, <1>2 DEF Tick, Countdowns
<1>3. CASE (RallyNext /\ UNCHANGED gateVars) \/ ClientDrops \/ ClientConnects \/ SnapshotArrives
           \/ UNCHANGED vars
  BY <1>3 DEF ClientDrops, ClientConnects, SnapshotArrives, vars, gateVars
<1>4. QED
  BY <1>1, <1>2, <1>3 DEF Next

\* An active countdown ends only on time, by somebody's countdown:stop, or with
\* the process, whatever timers, probes and rally groups do.
THEOREM CountdownEndsRightly == Spec => EndsOnTimeOrByStop
<1> DEFINE A == countdown.active /\ ~countdown'.active =>
                  \/ countdown.left = 0
                  \/ \E c \in CdCalls : call[c].stage = "stopping" /\ call'[c].stage = "idle"
                  \/ Restart
<1>1. TypeOK /\ [Next]_vars => [A]_vars
  BY StepEnds
<1>2. Spec => [][A]_vars
  BY <1>1, Typing, PTL DEF Spec
<1>3. QED
  BY <1>2 DEF EndsOnTimeOrByStop

\* The job that bears the name of a group is its idle reset and nothing else.
ResetsOnly == \A g \in Groups : job[g].op \in {"none", "autoIdle"}

LEMMA StepResets == TypeOK /\ ResetsOnly /\ [Next]_vars => ResetsOnly'
<1> SUFFICES ASSUME TypeOK, ResetsOnly, [Next]_vars, NEW g \in Groups
             PROVE  job'[g].op \in {"none", "autoIdle"}
  BY DEF ResetsOnly
<1>0. job \in [JobIds -> Jobs] /\ g \in JobIds /\ job[g] \in Jobs /\ job[g].op \in {"none", "autoIdle"}
  BY DEF TypeOK, JobIds, ResetsOnly
<1>1. CASE RallyNext
  <2> DEFINE Goal == job'[g].op \in {"none", "autoIdle"}
  <2>0. /\ \A j \in JobIds : Finished(j) => Goal
        /\ \A j \in JobIds, stage \in StagesOfJobs : Goes(j, stage) => Goal
        /\ \A j \in JobIds, stage \in StagesOfJobs, full \in GroupStates :
             job' = [job EXCEPT ![j].stage = stage, ![j].full = full] => Goal
    BY <1>0 DEF Finished, Goes, NoJob, Jobs
  <2>01. /\ {"gone"} \subseteq GroupStates
         /\ {"written", "read", "readDone", "failed", "write"} \subseteq StagesOfJobs
    BY DEF GroupStates, StagesOfJobs
  <2>1. ASSUME NEW j \in JobIds,
               \/ Loads(j) \/ Writes(j) \/ Reads(j) \/ QueryFails(j)
        PROVE  Goal
    <3>1. CASE Loads(j)
      <4>1. ASSUME NEW s,
                   job' = [job EXCEPT ![j].stage = "loaded", ![j].full = group[job[j].g],
                                      ![j].march = s.march, ![j].span = s.span]
            PROVE  Goal
        <5>1. CASE j = g
          <6>1. job' = [job EXCEPT ![g] = [job[g] EXCEPT !.stage = "loaded", !.full = group[job[g].g],
                                                         !.march = s.march, !.span = s.span]]
            BY ONLY <1>0, <4>1, <5>1
          <6>2. job'[g].op = job[g].op
            BY ONLY <1>0, <6>1 DEF Jobs
          <6>3. QED
            BY <1>0, <6>2
        <5>2. CASE j # g
          BY <1>0, <4>1, <5>2
        <5>3. QED
          BY <5>1, <5>2
      <4>2. QED
        BY <2>0, <3>1, <4>1, Zenon DEF Loads
    <3>2. CASE Writes(j)
      <4>1. Finished(j) \/ Goes(j, "written")
        BY <3>2 DEF Writes
      <4>2. QED
        BY <2>0, <2>01, <4>1
    <3>3. CASE Reads(j)
      <4>1. group[job[j].g] = "gone" \/ group[job[j].g] \in GroupStates
        BY <3>3 DEF Reads, TypeOK
      <4>2. \/ Finished(j) \/ Goes(j, "failed")
            \/ \E full \in GroupStates : job' = [job EXCEPT ![j].stage = "readDone", ![j].full = full]
        BY <2>01, <3>3, <4>1 DEF Reads
      <4>3. QED
        BY <2>0, <2>01, <4>2
    <3>4. CASE QueryFails(j)
      <4>1. \/ Finished(j) \/ Goes(j, "failed")
            \/ job' = [job EXCEPT ![j].stage = "readDone", ![j].full = "gone"]
        BY <3>4 DEF QueryFails
      <4>2. QED
        BY <2>0, <2>01, <4>1
    <3>5. QED
      BY <2>1, <3>1, <3>2, <3>3, <3>4
  <2>2. ASSUME NEW j \in JobIds,
               \/ StartFindsBusy(j) \/ StartAnnounces(j) \/ StartRecovers(j) \/ StopReleases(j)
               \/ IdleAnnounced(j) \/ Publishes(j)
        PROVE  Goal
    BY <1>0, <2>2 DEF StartFindsBusy, StartAnnounces, StartRecovers, StopReleases, IdleAnnounced,
                      Publishes, Goes, Finished, NoJob, Jobs
  <2>3. ASSUME NEW j \in JobIds, StartTakesLock(j) \/ Removed(j) \/ PublishesOnly(j)
        PROVE  Goal
    <3>1. j # g /\ \A i \in JobIds : i # j => job'[i] = job[i]
      BY <1>0, <2>3, Zenon DEF StartTakesLock, Removed, PublishesOnly, Step, Finished
    <3>2. QED
      BY <1>0, <3>1
  <2>4. ASSUME NEW j \in RallyCalls, NEW op \in Requests, NEW h \in Groups, Request(j, op, h)
        PROVE  Goal
    BY <1>0, <2>4, JobsAssumption DEF Request
  <2>5. ASSUME NEW h \in Groups, RallyLeaseEnds(h) PROVE Goal
    BY <1>0, <2>5 DEF RallyLeaseEnds, IdleReset, NoJob
  <2>6. QED
    BY <1>1, <2>1, <2>2, <2>3, <2>4, <2>5 DEF RallyNext, RallyResumes
<1>2. CASE Tick \/ Restart
  BY <1>0, <1>2 DEF Tick, Restart, NoJob, Jobs
<1>3. CASE (CountdownNext /\ UNCHANGED rallyVars) \/ ClientDrops \/ ClientConnects
           \/ SnapshotArrives \/ UNCHANGED vars
  BY <1>0, <1>3 DEF ClientDrops, ClientConnects, SnapshotArrives, vars, rallyVars
<1>4. QED
  BY <1>1, <1>2, <1>3 DEF Next

LEMMA StepLosesLock ==
  ASSUME TypeOK, ResetsOnly, [Next]_vars, NEW g \in Groups, lock.holder = g, lock'.holder # g
  PROVE  \/ Due(lock)
         \/ \E j \in RallyCalls :
              job[j].g = g /\ job[j].op \in {"start", "stop"} /\ job'[j] # job[j]
         \/ Restart
<1> DEFINE Goal == \/ Due(lock)
                   \/ \E j \in RallyCalls :
                        job[j].g = g /\ job[j].op \in {"start", "stop"} /\ job'[j] # job[j]
                   \/ Restart
<1>0. g # None /\ g # CountdownHolder
  BY GroupsAssumption DEF None, CountdownHolder
<1>00. lock \in Locks /\ job \in [JobIds -> Jobs]
  BY DEF TypeOK
<1>1. CASE CountdownNext
  <2>1. ASSUME NEW c \in CdCalls, NEW grace \in Graces, ProbeAnswered(c, grace) PROVE FALSE
    BY <1>0, <2>1 DEF ProbeAnswered, StillHeld
  <2>2. ASSUME NEW c \in CdCalls, ProbeFails(c) \/ Stops(c) \/ StartAcquires(c) PROVE FALSE
    BY <1>0, <2>2 DEF ProbeFails, Stops, StartAcquires, Released, Free
  <2>3. ASSUME CountdownLeaseEnds PROVE Goal
    BY <2>3 DEF CountdownLeaseEnds
  <2>4. ASSUME NEW c \in CdCalls,
               \/ \E total \in Totals : StartReceived(c, total)
               \/ StopReceived(c) \/ Refused(c) \/ ProbeAbandoned(c)
        PROVE  FALSE
    BY <2>4 DEF StartReceived, StopReceived, Refused, ProbeAbandoned
  <2>5. QED
    BY <1>1, <2>1, <2>2, <2>3, <2>4 DEF CountdownNext
<1>2. CASE RallyNext
  <2>1. ASSUME NEW j \in JobIds, StartRecovers(j) \/ StopReleases(j) PROVE Goal
    <3>1. job[j].op \in {"start", "stop"} /\ job[j].stage \in {"failed", "loaded"} /\ job[j].g = g
      BY <2>1 DEF StartRecovers, StopReleases, Step, GivenBack, Released
    <3>2. job'[j].stage \in {"none", "write"}
      BY <1>00, <2>1 DEF StartRecovers, StopReleases, Finished, NoJob, Jobs
    <3>3. j \in RallyCalls
      BY <3>1 DEF ResetsOnly, JobIds
    <3>4. job'[j] # job[j]
      BY <3>1, <3>2
    <3>5. QED
      BY <3>1, <3>3, <3>4
  <2>2. ASSUME NEW h \in Groups, RallyLeaseEnds(h) PROVE Goal
    BY <2>2 DEF RallyLeaseEnds
  <2>3. ASSUME NEW j \in JobIds,
               \/ StartTakesLock(j)
               \/ Loads(j) \/ Writes(j) \/ Reads(j) \/ QueryFails(j)
               \/ StartFindsBusy(j) \/ StartAnnounces(j) \/ IdleAnnounced(j) \/ Publishes(j)
               \/ Removed(j) \/ PublishesOnly(j)
               \/ \E op \in Requests, h \in Groups : Request(j, op, h)
        PROVE  FALSE
    BY <1>0, <2>3, Zenon DEF StartTakesLock, Free, Loads, Writes, Reads, QueryFails, StartFindsBusy,
                StartAnnounces, IdleAnnounced, Publishes, Removed, PublishesOnly, Request
  <2>4. QED
    BY <1>2, <2>1, <2>2, <2>3 DEF RallyNext, RallyResumes, JobIds
<1>3. CASE Tick
  BY <1>00, <1>3 DEF Tick, LockAged, Locks
<1>4. CASE ClientDrops \/ ClientConnects \/ SnapshotArrives \/ UNCHANGED vars
  BY <1>4 DEF ClientDrops, ClientConnects, SnapshotArrives, vars
<1>5. QED
  BY <1>1, <1>2, <1>3, <1>4 DEF Next

\* Only a group's own request or idle reset, its lease, or the end of the
\* process takes the lock from it, under every fault and any overlap.
THEOREM GroupKeepsLock == Spec => RallyLosesLockByItself
<1> DEFINE A == \A g \in Groups :
                  lock.holder = g /\ lock'.holder # g =>
                    \/ Due(lock)
                    \/ \E j \in RallyCalls :
                         job[j].g = g /\ job[j].op \in {"start", "stop"} /\ job'[j] # job[j]
                    \/ Restart
<1>1. TypeOK /\ ResetsOnly /\ [Next]_vars => [A]_vars
  BY StepLosesLock
<1>2. Init => ResetsOnly
  <2>1. NoJob.op = "none"
    BY DEF NoJob
  <2>2. Init => \A g \in Groups : job[g] = NoJob
    BY ONLY Zenon DEF Init, RallyInit, JobIds
  <2>3. QED
    BY <2>1, <2>2, Zenon DEF ResetsOnly
<1>3. Spec => [][A]_vars
  BY <1>1, <1>2, Typing, StepResets, PTL DEF Spec
<1>4. QED
  BY <1>3 DEF RallyLosesLockByItself

-----------------------------------------------------------------------------
(* The rally groups.                                                       *)

\* A job that is going to write its group idle.
Undoes(r, g) == r.op \in {"stop", "autoIdle"} /\ r.g = g /\ r.stage = "write"

\* A start that has found its group, and a request of which there is one per group.
Begun(r) == r.op = "start" /\ r.stage \notin {"none", "load"}
Alone(r) == r.op \in {"start", "stop", "remove"} /\ r.stage # "none"

Backed(g) == group[g] = "running" => lock.holder = g \/ \E j \in JobIds : Undoes(job[j], g)

\* A start keeps its group and, from its write on, the lock.
Kept(r) ==
  Begun(r) => /\ group[r.g] # "gone" /\ r.stage # "failed"
              /\ r.stage # "loaded" => lock.holder = r.g

Apart(r, q) == Alone(r) /\ Alone(q) => r.g # q.g

GroupInv ==
  /\ \A g \in Groups : Backed(g)
  /\ \A j \in JobIds : Kept(job[j])
  /\ \A j, k \in JobIds : j # k => Apart(job[j], job[k])

-----------------------------------------------------------------------------
(* Steps of one job.                                                       *)

\* What a job's step leaves alone, and what it does to the job itself.
LEMMA JobEdges ==
  ASSUME TypeOK, NEW j \in JobIds,
         \/ Loads(j) \/ Writes(j) \/ Reads(j) \/ RallyResumes(j)
         \/ \E op \in Requests, g \in Groups : Request(j, op, g)
  PROVE  \A i \in JobIds : i # j => job'[i] = job[i]
<1>1. job \in [JobIds -> Jobs]
  BY DEF TypeOK
<1>2. CASE Loads(j) \/ Writes(j) \/ Reads(j)
  BY <1>1, <1>2, Zenon DEF Loads, Writes, Reads, Finished, Goes
<1>3. CASE RallyResumes(j)
  BY <1>1, <1>3, Zenon DEF RallyResumes, StartTakesLock, StartFindsBusy, StartAnnounces, StartRecovers,
     StopReleases, IdleAnnounced, Publishes, Removed, PublishesOnly, Finished, Goes
<1>4. CASE \E op \in Requests, g \in Groups : Request(j, op, g)
  BY <1>1, <1>4, Zenon DEF Request
<1> QED BY <1>2, <1>3, <1>4

\* A job that neither was about to write its group idle nor takes on what it may not.
LEMMA JobStep ==
  ASSUME TypeOK, GroupInv, NEW j \in JobIds,
         \A i \in JobIds : i # j => job'[i] = job[i],
         UNCHANGED <<lock, group>>,
         \A g \in Groups : ~Undoes(job[j], g),
         Kept(job'[j]),
         \A k \in JobIds : k # j => Apart(job'[j], job[k])
  PROVE  GroupInv'
<1>1. \A g \in Groups : Backed(g)'
  BY DEF GroupInv, Backed
<1>2. ASSUME NEW i \in JobIds PROVE Kept(job[i])'
  BY DEF GroupInv, Kept
<1>3. ASSUME NEW i \in JobIds, NEW k \in JobIds, i # k PROVE Apart(job[i], job[k])'
  <2>1. CASE i # j /\ k # j
    BY <1>3, <2>1 DEF GroupInv, Apart
  <2>2. CASE i = j
    BY <1>3, <2>2 DEF Apart
  <2>3. CASE k = j
    BY <1>3, <2>3 DEF Apart
  <2> QED BY <2>1, <2>2, <2>3
<1> QED BY <1>1, <1>2, <1>3 DEF GroupInv

\* A start that is in flight has its group's lock, or the group is gone with it.
LEMMA LoadsStep == ASSUME TypeOK, GroupInv, NEW j \in JobIds, Loads(j) PROVE GroupInv'
<1>1. job \in [JobIds -> Jobs] /\ job[j] \in Jobs /\ UNCHANGED <<lock, group>> /\ job[j].stage = "load"
  BY Zenon DEF TypeOK, Loads
<1>2. \A i \in JobIds : i # j => job'[i] = job[i]
  BY JobEdges
<1>3. \/ job'[j] = NoJob
      \/ /\ job'[j].op = job[j].op /\ job'[j].g = job[j].g /\ job'[j].stage = "loaded"
         /\ group[job[j].g] # "gone"
  <2>1. CASE Finished(j)
    BY <1>1, <2>1 DEF Finished
  <2>2. ASSUME NEW s, group[job[j].g] # "gone",
               job' = [job EXCEPT ![j].stage = "loaded", ![j].full = group[job[j].g],
                                  ![j].march = s.march, ![j].span = s.span]
        PROVE  /\ job'[j].op = job[j].op /\ job'[j].g = job[j].g /\ job'[j].stage = "loaded"
               /\ group[job[j].g] # "gone"
    <3>1. job' = [job EXCEPT ![j] = [job[j] EXCEPT !.stage = "loaded", !.full = group[job[j].g],
                                                   !.march = s.march, !.span = s.span]]
      BY ONLY <1>1, <2>2
    <3> QED BY ONLY <1>1, <2>2, <3>1 DEF Jobs
  <2> QED BY <2>1, <2>2, Zenon DEF Loads
<1>4. Kept(job'[j]) /\ \A k \in JobIds : k # j => Apart(job'[j], job[k])
  BY <1>1, <1>3 DEF GroupInv, Kept, Apart, Begun, Alone, NoJob
<1>5. \A g \in Groups : ~Undoes(job[j], g)
  BY <1>1 DEF Undoes
<1> QED BY <1>1, <1>2, <1>4, <1>5, JobStep

LEMMA ReadsStep == ASSUME TypeOK, GroupInv, NEW j \in JobIds, Reads(j) PROVE GroupInv'
<1>1. job \in [JobIds -> Jobs] /\ job[j] \in Jobs /\ UNCHANGED <<lock, group>> /\ job[j].stage = "read"
  BY DEF TypeOK, Reads
<1>2. \A i \in JobIds : i # j => job'[i] = job[i]
  BY JobEdges
<1>3. \/ job'[j] = NoJob
      \/ job'[j].op = job[j].op /\ job'[j].g = job[j].g /\ job'[j].stage = "readDone"
  <2>1. ~(group[job[j].g] = "gone" /\ job[j].op = "start")
    BY <1>1 DEF GroupInv, Kept, Begun
  <2>2. \/ job' = [job EXCEPT ![j] = NoJob]
        \/ job' = [job EXCEPT ![j].stage = "readDone", ![j].full = group[job[j].g]]
        \/ job' = [job EXCEPT ![j].stage = "readDone", ![j].full = "gone"]
    BY <2>1 DEF Reads, Finished
  <2> QED BY <1>1, <2>2 DEF Jobs
<1>4. Kept(job'[j]) /\ \A k \in JobIds : k # j => Apart(job'[j], job[k])
  BY <1>1, <1>3 DEF GroupInv, Kept, Apart, Begun, Alone, NoJob
<1>5. \A g \in Groups : ~Undoes(job[j], g)
  BY <1>1 DEF Undoes
<1> QED BY <1>1, <1>2, <1>4, <1>5, JobStep

\* What a job broadcasts takes it on, or ends it.
LEMMA TellsStep ==
  ASSUME TypeOK, GroupInv, NEW j \in JobIds,
         \/ StartFindsBusy(j) \/ StartAnnounces(j) \/ IdleAnnounced(j) \/ Publishes(j)
         \/ Removed(j) \/ PublishesOnly(j)
  PROVE  GroupInv'
<1>1. job \in [JobIds -> Jobs] /\ job[j] \in Jobs /\ UNCHANGED <<lock, group>>
  BY Zenon DEF TypeOK, StartFindsBusy, StartAnnounces, IdleAnnounced, Publishes, Removed, PublishesOnly
<1>2. \A i \in JobIds : i # j => job'[i] = job[i]
  BY JobEdges DEF RallyResumes
<1>3. job[j].stage \in {"loaded", "written", "readDone"} /\ (job[j].stage = "loaded" => job[j].op = "start")
  BY Zenon DEF StartFindsBusy, StartAnnounces, IdleAnnounced, Publishes, Removed, PublishesOnly, Step
<1>4. \/ job'[j] = NoJob \/ job'[j].op = "publish"
      \/ /\ job'[j].op = job[j].op /\ job'[j].g = job[j].g /\ job'[j].stage = "read"
         /\ job[j].stage = "written"
  <2>1. CASE StartFindsBusy(j) \/ Publishes(j)
    BY <1>1, <2>1 DEF StartFindsBusy, Publishes, Finished
  <2>2. CASE StartAnnounces(j)
    <3>1. job' = [job EXCEPT ![j].stage = "read", ![j].left = 0] /\ job[j].stage = "written"
      BY <2>2 DEF StartAnnounces, Step
    <3> QED BY <1>1, <3>1 DEF Jobs
  <2>3. CASE IdleAnnounced(j)
    BY <1>1, <2>3 DEF IdleAnnounced, Goes, Jobs
  <2>4. CASE Removed(j)
    BY <1>1, <2>4, Zenon DEF Removed, Finished, NoJob
  <2>5. CASE PublishesOnly(j)
    BY <1>1, <2>5, Zenon DEF PublishesOnly, Finished, NoJob
  <2> QED BY <2>1, <2>2, <2>3, <2>4, <2>5
<1>5. Kept(job'[j]) /\ \A k \in JobIds : k # j => Apart(job'[j], job[k])
  BY <1>1, <1>3, <1>4 DEF GroupInv, Kept, Apart, Begun, Alone, NoJob
<1>6. \A g \in Groups : ~Undoes(job[j], g)
  BY <1>3 DEF Undoes
<1> QED BY <1>1, <1>2, <1>5, <1>6, JobStep

LEMMA RequestStep ==
  ASSUME "overlap" \notin Faults, TypeOK, ResetsOnly, GroupInv,
         NEW j \in RallyCalls, NEW op \in Requests, NEW g \in Groups, Request(j, op, g)
  PROVE  GroupInv'
<1>1. job \in [JobIds -> Jobs] /\ j \in JobIds /\ UNCHANGED <<lock, group>> /\ job[j].stage = "none"
  BY DEF TypeOK, Request, JobIds
<1>2. \A i \in JobIds : i # j => job'[i] = job[i]
  BY <1>1, JobEdges
<1>3. job'[j].op = op /\ job'[j].g = g /\ job'[j].stage = FirstStage(op)
  BY <1>1 DEF Request, NoJob
<1>4. ASSUME NEW k \in JobIds, k # j, job[k].g = g, Alone(job[k]) PROVE FALSE
  <2>1. k \in InFlight(g)
    BY <1>4 DEF InFlight, Alone
  <2>2. k = g
    BY <2>1 DEF Request
  <2> QED BY <1>4, <2>2 DEF ResetsOnly, Alone
<1>5. Kept(job'[j])
  BY <1>3 DEF Kept, Begun, FirstStage
<1>6. \A i \in Groups : ~Undoes(job[j], i)
  BY <1>1 DEF Undoes
<1> QED BY <1>1, <1>2, <1>3, <1>4, <1>5, <1>6, JobStep DEF Apart

-----------------------------------------------------------------------------
(* Steps that change the lock or a group.                                  *)

\* Apart from its group no other job is started, stopped or removed.
LEMMA WritesStep == ASSUME TypeOK, ResetsOnly, GroupInv, NEW j \in JobIds, Writes(j) PROVE GroupInv'
<1>1. /\ job \in [JobIds -> Jobs] /\ job[j] \in Jobs /\ group \in [Groups -> GroupStates]
      /\ lock' = lock /\ job[j].stage = "write" /\ job[j].g \in Groups
  BY DEF TypeOK, Writes
<1>2. \A i \in JobIds : i # j => job'[i] = job[i]
  BY JobEdges
<1>3. PICK g \in Groups : g = job[j].g
  BY <1>1
<1>4. \/ job'[j] = NoJob
      \/ job'[j].op = job[j].op /\ job'[j].g = g /\ job'[j].stage = "written"
  BY <1>1, <1>3 DEF Writes, Finished, Goes, Jobs
<1>5. /\ \A h \in Groups : h # g => group'[h] = group[h]
      /\ group'[g] = "running" => job[j].op = "start"
      /\ group'[g] = "gone" => group[g] = "gone" \/ job[j].op = "remove"
  BY <1>1, <1>3 DEF Writes, Written
<1>6. ASSUME NEW h \in Groups PROVE Backed(h)'
  <2>1. CASE h = g
    BY <1>1, <1>3, <1>5, <2>1 DEF GroupInv, Backed, Kept, Begun
  <2>2. CASE h # g
    <3>1. ~Undoes(job[j], h)
      BY <1>3, <2>2 DEF Undoes
    <3>2. \A i \in JobIds : Undoes(job[i], h) => Undoes(job'[i], h)
      BY <1>2, <3>1
    <3> QED BY <1>1, <1>5, <2>2, <3>2 DEF GroupInv, Backed
  <2> QED BY <2>1, <2>2
<1>7. ASSUME NEW i \in JobIds PROVE Kept(job[i])'
  <2>1. CASE i = j
    BY <1>1, <1>3, <1>4, <1>5, <2>1 DEF GroupInv, Kept, Begun, NoJob
  <2>2. CASE i # j
    <3>1. job'[i] = job[i] /\ Kept(job[i]) /\ Apart(job[i], job[j])
      BY <1>2, <2>2 DEF GroupInv
    <3>2. Begun(job[i]) => job[i].g \in Groups
      BY DEF TypeOK, Begun
    <3>3. Begun(job[i]) => group'[job[i].g] # "gone"
      BY <1>1, <1>3, <1>5, <3>1, <3>2 DEF Kept, Begun, Apart, Alone
    <3> QED BY <1>1, <3>1, <3>3 DEF Kept
  <2> QED BY <2>1, <2>2
<1>8. ASSUME NEW i \in JobIds, NEW k \in JobIds, i # k PROVE Apart(job[i], job[k])'
  <2>1. Apart(job[i], job[k])
    BY <1>8 DEF GroupInv
  <2>2. Alone(job'[i]) => Alone(job[i]) /\ job'[i].g = job[i].g
    BY <1>1, <1>2, <1>3, <1>4 DEF Alone, NoJob
  <2>3. Alone(job'[k]) => Alone(job[k]) /\ job'[k].g = job[k].g
    BY <1>1, <1>2, <1>3, <1>4 DEF Alone, NoJob
  <2> QED BY <2>1, <2>2, <2>3 DEF Apart
<1> QED BY <1>6, <1>7, <1>8 DEF GroupInv

LEMMA TakesLockStep == ASSUME TypeOK, GroupInv, NEW j \in JobIds, StartTakesLock(j) PROVE GroupInv'
<1>1. /\ job \in [JobIds -> Jobs] /\ group' = group /\ job[j].stage = "loaded" /\ job[j].op = "start"
      /\ job[j].g \in Groups /\ lock.holder = None
  BY DEF TypeOK, StartTakesLock, Step, Free
<1>2. \A i \in JobIds : i # j => job'[i] = job[i]
  BY JobEdges DEF RallyResumes
<1>3. job'[j].op = "start" /\ job'[j].stage = "write" /\ job'[j].g = job[j].g
  BY <1>1 DEF StartTakesLock, NoJob
<1>4. lock'.holder = job[j].g
  BY <1>1 DEF StartTakesLock, Acquired, Free
<1>5. \A h \in Groups : lock.holder # h
  BY <1>1, GroupsAssumption
<1>6. ASSUME NEW h \in Groups PROVE Backed(h)'
  <2>1. \A i \in JobIds : Undoes(job[i], h) => Undoes(job'[i], h)
    BY <1>1, <1>2 DEF Undoes
  <2> QED BY <1>1, <1>5, <2>1 DEF GroupInv, Backed
<1>7. ASSUME NEW i \in JobIds PROVE Kept(job[i])'
  <2>1. CASE i = j
    BY <1>1, <1>3, <1>4, <2>1 DEF GroupInv, Kept, Begun
  <2>2. CASE i # j
    <3>1. job'[i] = job[i] /\ Kept(job[i])
      BY <1>2, <2>2 DEF GroupInv
    <3>2. Begun(job[i]) => job[i].g \in Groups
      BY DEF TypeOK, Begun
    <3> QED BY <1>1, <1>5, <3>1, <3>2 DEF Kept
  <2> QED BY <2>1, <2>2
<1>8. ASSUME NEW i \in JobIds, NEW k \in JobIds, i # k PROVE Apart(job[i], job[k])'
  <2>1. Apart(job[i], job[k])
    BY <1>8 DEF GroupInv
  <2>2. /\ Alone(job'[i]) => Alone(job[i]) /\ job'[i].g = job[i].g
        /\ Alone(job'[k]) => Alone(job[k]) /\ job'[k].g = job[k].g
    BY <1>1, <1>2, <1>3 DEF Alone
  <2> QED BY <2>1, <2>2 DEF Apart
<1> QED BY <1>6, <1>7, <1>8 DEF GroupInv

\* A stop gives the lock back and is then about to write its group idle.
LEMMA StopStep == ASSUME TypeOK, GroupInv, NEW j \in JobIds, StopReleases(j) PROVE GroupInv'
<1>1. /\ job \in [JobIds -> Jobs] /\ job[j] \in Jobs /\ group' = group
      /\ job[j].stage = "loaded" /\ job[j].op = "stop" /\ job[j].g \in Groups
  BY DEF TypeOK, StopReleases, Step
<1>2. \A i \in JobIds : i # j => job'[i] = job[i]
  BY JobEdges DEF RallyResumes
<1>3. \A g \in Groups : ~Undoes(job[j], g)
  BY <1>1 DEF Undoes
<1>4. CASE Finished(j) /\ lock' = lock
  <2>1. job'[j] = NoJob
    BY <1>1, <1>4 DEF Finished
  <2> QED BY <1>1, <1>2, <1>3, <1>4, <2>1, JobStep DEF Kept, Begun, Apart, Alone, NoJob
<1>5. CASE /\ lock' = GivenBack(job[j].g)
           /\ job' = [job EXCEPT ![j].stage = "write", ![j].full = "gone"]
  <2>1. job'[j].op = "stop" /\ job'[j].stage = "write" /\ job'[j].g = job[j].g
    BY <1>1, <1>5 DEF Jobs
  <2>2. \A h : h # job[j].g /\ lock.holder = h => lock'.holder = h
    BY <1>5 DEF GivenBack, Released
  <2>3. ASSUME NEW h \in Groups PROVE Backed(h)'
    <3>1. CASE h = job[j].g
      BY <1>1, <2>1, <3>1 DEF Backed, Undoes
    <3>2. CASE h # job[j].g
      <4>1. \A i \in JobIds : Undoes(job[i], h) => Undoes(job'[i], h)
        BY <1>2, <1>3
      <4> QED BY <1>1, <2>2, <3>2, <4>1 DEF GroupInv, Backed
    <3> QED BY <3>1, <3>2
  <2>4. ASSUME NEW i \in JobIds PROVE Kept(job[i])'
    <3>1. CASE i = j
      BY <2>1, <3>1 DEF Kept, Begun
    <3>2. CASE i # j
      <4>1. job'[i] = job[i] /\ Kept(job[i]) /\ Apart(job[i], job[j])
        BY <1>2, <3>2 DEF GroupInv
      <4>2. Begun(job[i]) => job[i].g # job[j].g
        BY <1>1, <4>1 DEF Apart, Alone, Begun
      <4> QED BY <1>1, <2>2, <4>1, <4>2 DEF Kept
    <3> QED BY <3>1, <3>2
  <2>5. ASSUME NEW i \in JobIds, NEW k \in JobIds, i # k PROVE Apart(job[i], job[k])'
    <3>1. Apart(job[i], job[k])
      BY <2>5 DEF GroupInv
    <3>2. /\ Alone(job'[i]) => Alone(job[i]) /\ job'[i].g = job[i].g
          /\ Alone(job'[k]) => Alone(job[k]) /\ job'[k].g = job[k].g
      BY <1>1, <1>2, <2>1 DEF Alone
    <3> QED BY <3>1, <3>2 DEF Apart
  <2> QED BY <2>3, <2>4, <2>5 DEF GroupInv
<1> QED BY <1>4, <1>5 DEF StopReleases

\* The lease of a group ends: nobody is starting it, and its reset is on its way.
LEMMA LeaseEndsStep ==
  ASSUME "slowDb" \notin Faults, TypeOK, LeaseOfHolder, GroupInv, NEW g \in Groups, RallyLeaseEnds(g)
  PROVE  GroupInv'
<1>1. /\ job \in [JobIds -> Jobs] /\ group' = group /\ job[g].stage = "none" /\ g \in JobIds
      /\ \A i \in JobIds : i # g => job'[i] = job[i]
  BY DEF TypeOK, RallyLeaseEnds, JobIds
<1>2. job'[g].op = "autoIdle" /\ job'[g].g = g /\ job'[g].stage = "write"
  BY <1>1 DEF RallyLeaseEnds, IdleReset, NoJob
<1>3. lock.holder = g
  BY DEF RallyLeaseEnds, Due, LeaseOfHolder, LeaseInv
<1>4. ASSUME NEW h \in Groups PROVE Backed(h)'
  <2>1. CASE h = g
    BY <1>1, <1>2, <2>1 DEF Backed, Undoes
  <2>2. CASE h # g
    <3>1. \A i \in JobIds : Undoes(job[i], h) => Undoes(job'[i], h)
      BY <1>1 DEF Undoes
    <3> QED BY <1>1, <1>3, <2>2, <3>1 DEF GroupInv, Backed
  <2> QED BY <2>1, <2>2
<1>5. ASSUME NEW i \in JobIds PROVE Kept(job[i])'
  <2>1. CASE i = g
    BY <1>2, <2>1 DEF Kept, Begun
  <2>2. CASE i # g
    <3>1. job'[i] = job[i] /\ Kept(job[i])
      BY <1>1, <2>2 DEF GroupInv
    <3>2. ~(Begun(job[i]) /\ job[i].stage # "loaded")
      <4>1. SUFFICES ASSUME Begun(job[i]), job[i].stage # "loaded" PROVE FALSE
        OBVIOUS
      <4>2. job[i].g = g
        BY <1>3, <3>1, <4>1 DEF Kept
      <4>3. i \in InFlight(g) /\ Starting(i)
        BY <4>1, <4>2 DEF InFlight, Starting, Begun
      <4> QED BY <4>3 DEF RallyLeaseEnds
    <3> QED BY <1>1, <3>1, <3>2 DEF Kept
  <2> QED BY <2>1, <2>2
<1>6. ASSUME NEW i \in JobIds, NEW k \in JobIds, i # k PROVE Apart(job[i], job[k])'
  <2>1. Apart(job[i], job[k]) /\ ~Alone(job'[g])
    BY <1>2, <1>6 DEF GroupInv, Alone
  <2> QED BY <1>1, <2>1 DEF Apart
<1> QED BY <1>4, <1>5, <1>6 DEF GroupInv

\* The alliance countdown never takes the lock from a group.
LEMMA CountdownLeavesGroups ==
  ASSUME TypeOK, LeaseOfHolder, CountdownNext, NEW g \in Groups, lock.holder = g
  PROVE  lock'.holder = g
<1>0. g # None /\ g # CountdownHolder
  BY GroupsAssumption DEF None, CountdownHolder
<1>1. ASSUME NEW c \in CdCalls, NEW grace \in Graces, ProbeAnswered(c, grace) PROVE FALSE
  BY <1>0, <1>1 DEF ProbeAnswered, StillHeld
<1>2. ASSUME NEW c \in CdCalls, ProbeFails(c) \/ Stops(c) \/ StartAcquires(c) PROVE lock'.holder = g
  BY <1>0, <1>2 DEF ProbeFails, Stops, StartAcquires, Released, Free
<1>3. ASSUME CountdownLeaseEnds PROVE FALSE
  BY <1>0, <1>3 DEF CountdownLeaseEnds, Due, LeaseOfHolder, LeaseInv
<1>4. ASSUME NEW c \in CdCalls,
             \/ \E total \in Totals : StartReceived(c, total)
             \/ StopReceived(c) \/ Refused(c) \/ ProbeAbandoned(c)
      PROVE  lock'.holder = g
  BY <1>4 DEF StartReceived, StopReceived, Refused, ProbeAbandoned
<1> QED BY <1>1, <1>2, <1>3, <1>4 DEF CountdownNext

\* Steps beside the rally service leave groups and jobs alone, up to the passing of time.
LEMMA BesideStep ==
  ASSUME TypeOK, GroupInv, group' = group,
         \A j \in JobIds : job'[j].op = job[j].op /\ job'[j].g = job[j].g /\ job'[j].stage = job[j].stage,
         \A g \in Groups : lock.holder = g => lock'.holder = g
  PROVE  GroupInv'
<1>1. ASSUME NEW g \in Groups PROVE Backed(g)'
  BY DEF GroupInv, Backed, Undoes
<1>2. ASSUME NEW j \in JobIds PROVE Kept(job[j])'
  <2>1. Begun(job[j]) => job[j].g \in Groups
    BY DEF TypeOK, Begun
  <2> QED BY <2>1 DEF GroupInv, Kept, Begun
<1>3. ASSUME NEW i \in JobIds, NEW k \in JobIds, i # k PROVE Apart(job[i], job[k])'
  <2>1. Apart(job[i], job[k])
    BY <1>3 DEF GroupInv
  <2> QED BY <2>1 DEF Apart, Alone
<1> QED BY <1>1, <1>2, <1>3 DEF GroupInv

LEMMA GroupStep ==
  ASSUME {"overlap", "slowDb", "dbError"} \cap Faults = {},
         TypeOK, LeaseOfHolder, ResetsOnly, GroupInv, [Next]_vars
  PROVE  GroupInv'
<1>1. CASE CountdownNext /\ UNCHANGED rallyVars
  BY <1>1, CountdownLeavesGroups, BesideStep DEF rallyVars
<1>2. CASE RallyNext
  <2>1. ASSUME NEW j \in JobIds, Loads(j) \/ Writes(j) \/ Reads(j) \/ QueryFails(j) PROVE GroupInv'
    BY <2>1, LoadsStep, WritesStep, ReadsStep DEF QueryFails
  <2>2. ASSUME NEW j \in JobIds, RallyResumes(j) PROVE GroupInv'
    <3>1. ~StartRecovers(j)
      BY DEF StartRecovers, Step, GroupInv, Kept, Begun
    <3> QED BY <2>2, <3>1, TakesLockStep, StopStep, TellsStep DEF RallyResumes
  <2>3. ASSUME NEW j \in RallyCalls, NEW op \in Requests, NEW g \in Groups, Request(j, op, g) PROVE GroupInv'
    BY <2>3, RequestStep
  <2>4. ASSUME NEW g \in Groups, RallyLeaseEnds(g) PROVE GroupInv'
    BY <2>4, LeaseEndsStep
  <2> QED BY <1>2, <2>1, <2>2, <2>3, <2>4 DEF RallyNext
<1>3. CASE ClientDrops \/ ClientConnects \/ SnapshotArrives \/ UNCHANGED vars
  <2>1. UNCHANGED <<lock, group, job>>
    BY <1>3 DEF ClientDrops, ClientConnects, SnapshotArrives, vars, rallyVars
  <2> QED BY <2>1, BesideStep
<1>4. CASE Tick
  <2>1. \A j \in JobIds : job'[j].op = job[j].op /\ job'[j].g = job[j].g /\ job'[j].stage = job[j].stage
    BY <1>4 DEF Tick, TypeOK, Jobs
  <2>2. lock'.holder = lock.holder /\ group' = group
    BY <1>4 DEF Tick, LockAged, TypeOK, Locks
  <2> QED BY <2>1, <2>2, BesideStep
<1>5. CASE Restart
  <2>1. \A g \in Groups : group'[g] # "running"
    BY <1>5 DEF Restart
  <2>2. \A j \in JobIds : job'[j] = NoJob
    BY <1>5 DEF Restart
  <2> QED BY <2>1, <2>2 DEF GroupInv, Backed, Kept, Begun, Apart, Alone, NoJob
<1> QED BY <1>1, <1>2, <1>3, <1>4, <1>5 DEF Next

LEMMA GroupStart == Init => GroupInv /\ ResetsOnly
<1> SUFFICES ASSUME Init PROVE GroupInv /\ ResetsOnly
  OBVIOUS
<1>1. (\A j \in JobIds : job[j] = NoJob) /\ \A g \in Groups : group[g] = "idle"
  BY DEF Init, RallyInit
<1> QED BY <1>1 DEF GroupInv, Backed, Kept, Begun, Apart, Alone, ResetsOnly, NoJob, JobIds

\* Unless calls about a group overlap or the database fails or is too slow, a group that
\* is running in the database holds the lock or is about to be written idle, through
\* restarts, drops and rejected probes (rally-groups.service.ts).
THEOREM GroupsAreBacked ==
  ASSUME {"overlap", "slowDb", "dbError"} \cap Faults = {}
  PROVE  Spec => []RunningIsBacked
<1>1. TypeOK /\ LeaseOfHolder /\ ResetsOnly /\ GroupInv /\ [Next]_vars => GroupInv'
  BY GroupStep
<1>2. GroupInv => RunningIsBacked
  BY DEF GroupInv, Backed, RunningIsBacked, Undoes, InFlight
<1> QED BY <1>1, <1>2, GroupStart, StepResets, Typing, LeaseSafe, PTL DEF Spec

-----------------------------------------------------------------------------
(* What is heard.                                                          *)

\* A job that is going to tell every browser that its group is over.
Silences(r, g) == r.op \in {"stop", "autoIdle"} /\ r.g = g /\ r.stage \in {"write", "written"}

Heard(g) == client.start[g] > 0 => lock.holder = g \/ \E j \in JobIds : Silences(job[j], g)

HeardInv == client.stage = "online" /\ \A g \in Groups : Heard(g)

\* Who is heard keeps the lock or gains a job that silences it, and no such job ends
\* before it has done so.
LEMMA HeardKept ==
  ASSUME HeardInv, NEW j \in JobIds,
         \A i \in JobIds : i # j => job'[i] = job[i],
         client'.stage = "online",
         \A g \in Groups : client'.start[g] > 0 => client.start[g] > 0 \/ lock'.holder = g,
         \A g \in Groups : lock.holder = g => lock'.holder = g \/ Silences(job'[j], g),
         \A g \in Groups : Silences(job[j], g) => Silences(job'[j], g) \/ ~(client'.start[g] > 0)
  PROVE  HeardInv'
<1>1. ASSUME NEW g \in Groups, client'.start[g] > 0
      PROVE  lock'.holder = g \/ \E i \in JobIds : Silences(job'[i], g)
  <2>1. CASE lock'.holder = g
    BY <2>1
  <2>2. CASE client.start[g] > 0
    <3>1. lock.holder = g \/ \E i \in JobIds : Silences(job[i], g)
      BY <2>2 DEF HeardInv, Heard
    <3>2. ASSUME NEW i \in JobIds, Silences(job[i], g) PROVE Silences(job'[i], g)
      BY <1>1, <3>2
    <3> QED BY <3>1, <3>2
  <2> QED BY <1>1, <2>1, <2>2
<1> QED BY <1>1 DEF HeardInv, Heard

\* A browser that is connected receives every broadcast.
LEMMA HeardByAll == HeardInv => \A seen : Broadcast(seen) = seen
BY DEF HeardInv, Broadcast, Connected

LEMMA HeardQueries ==
  ASSUME TypeOK, HeardInv, NEW j \in JobIds, Loads(j) \/ Writes(j) \/ Reads(j)
  PROVE  HeardInv'
<1>1. /\ job \in [JobIds -> Jobs] /\ job[j] \in Jobs /\ UNCHANGED <<lock, client>>
      /\ job[j].stage # "write" \/ Writes(j)
  BY Zenon DEF TypeOK, Loads, Writes, Reads
<1>2. \A i \in JobIds : i # j => job'[i] = job[i]
  BY JobEdges
<1>3. ASSUME NEW g \in Groups, Silences(job[j], g) PROVE Silences(job'[j], g)
  <2>1. Writes(j) /\ job[j].op # "remove"
    BY <1>3, Zenon DEF Silences, Loads, Reads
  <2>2. job' = [job EXCEPT ![j].stage = "written"]
    BY <2>1 DEF Writes, Goes
  <2>3. job'[j].op = job[j].op /\ job'[j].g = job[j].g /\ job'[j].stage = "written"
    BY <1>1, <2>2 DEF Jobs
  <2> QED BY <1>3, <2>3 DEF Silences
<1> QED BY <1>1, <1>2, <1>3, HeardKept DEF HeardInv

LEMMA HeardResumes ==
  ASSUME TypeOK, GroupInv, HeardInv, NEW j \in JobIds, RallyResumes(j)
  PROVE  HeardInv'
<1>1. /\ job \in [JobIds -> Jobs] /\ job[j] \in Jobs /\ client \in Clients /\ client.stage = "online"
      /\ client.start \in [Groups -> Nat]
  BY DEF TypeOK, HeardInv, Clients
<1>2. \A i \in JobIds : i # j => job'[i] = job[i]
  BY JobEdges
<1>3. ~StartRecovers(j)
  BY DEF StartRecovers, Step, GroupInv, Kept, Begun
<1>4. CASE StartTakesLock(j)
  <2>1. client' = client /\ (\A g \in Groups : lock.holder # g) /\ job[j].stage = "loaded"
    BY <1>4, GroupsAssumption DEF StartTakesLock, Free, Step
  <2> QED BY <1>1, <1>2, <2>1, HeardKept DEF Silences
<1>5. CASE StartFindsBusy(j)
  <2>1. UNCHANGED <<client, lock>> /\ job[j].stage = "loaded"
    BY <1>5 DEF StartFindsBusy, Step
  <2> QED BY <1>1, <1>2, <2>1, HeardKept DEF Silences
<1>6. CASE StartAnnounces(j)
  <2>1. lock' = lock /\ job[j].stage = "written" /\ job[j].op = "start" /\ lock.holder = job[j].g
    BY <1>6 DEF StartAnnounces, Step, GroupInv, Kept, Begun
  <2>2. client' = SeeStart(client, job[j].g, job[j].left)
    BY <1>6, HeardByAll DEF StartAnnounces, EmitCountdownStart
  <2>3. client'.stage = "online" /\ \A g \in Groups : g # job[j].g => client'.start[g] = client.start[g]
    BY <1>1, <2>2 DEF SeeStart, Clients
  <2> QED BY <1>2, <2>1, <2>3, HeardKept DEF Silences
<1>7. CASE StopReleases(j)
  <2>1. client' = client /\ job[j].stage = "loaded" /\ job[j].op = "stop"
    BY <1>7 DEF StopReleases, Step
  <2>2. \/ lock' = lock
        \/ /\ lock' = GivenBack(job[j].g)
           /\ job' = [job EXCEPT ![j].stage = "write", ![j].full = "gone"]
    BY <1>7 DEF StopReleases
  <2>3. ASSUME NEW g \in Groups, lock.holder = g PROVE lock'.holder = g \/ Silences(job'[j], g)
    <3>1. CASE job' = [job EXCEPT ![j].stage = "write", ![j].full = "gone"] /\ g = job[j].g
      <4>1. job'[j].op = job[j].op /\ job'[j].g = job[j].g /\ job'[j].stage = "write"
        BY <1>1, <3>1 DEF Jobs
      <4> QED BY <2>1, <3>1, <4>1 DEF Silences
    <3>2. CASE lock' = lock
      BY <2>3, <3>2
    <3>3. CASE lock' = GivenBack(job[j].g) /\ g # job[j].g
      BY <2>3, <3>3 DEF GivenBack
    <3> QED BY <2>2, <3>1, <3>2, <3>3
  <2> QED BY <1>1, <1>2, <2>1, <2>3, HeardKept DEF Silences
<1>8. CASE IdleAnnounced(j)
  <2>1. /\ lock' = lock /\ job[j].stage = "written"
        /\ client' = SeeStop(client, job[j].g)
    BY <1>8, HeardByAll DEF IdleAnnounced, EmitCountdownStop
  <2>2. /\ client'.stage = "online" /\ \A g \in Groups : g # job[j].g => client'.start[g] = client.start[g]
        /\ job[j].g \in Groups => client'.start[job[j].g] = 0
    BY <1>1, <2>1 DEF SeeStop, Clients
  <2>3. \A g \in Groups : client'.start[g] > 0 => client.start[g] > 0
    BY <1>1, <2>2
  <2>4. \A g \in Groups : Silences(job[j], g) => ~(client'.start[g] > 0)
    BY <2>2 DEF Silences
  <2> QED BY <1>2, <2>1, <2>2, <2>3, <2>4, HeardKept
<1>9. CASE Publishes(j) \/ PublishesOnly(j)
  <2>1. lock' = lock /\ job[j].stage = "readDone"
    BY <1>9, Zenon DEF Publishes, PublishesOnly, Step
  <2>2. client'.stage = "online" /\ client'.start = client.start
    <3>1. CASE Publishes(j)
      <4>1. client' = SeeBusy(GroupShown(j), BusyShown(j))
        BY <3>1, HeardByAll DEF Publishes
      <4>2. GroupShown(j).stage = "online" /\ GroupShown(j).start = client.start
            /\ GroupShown(j) \in [stage : {"offline", "joining", "online"}, busy : Holders \cup {None},
                                  countdown : Countdowns, group : [Groups -> GroupStates], start : [Groups -> Nat]]
        BY <1>1 DEF GroupShown, SeeGroup, Clients, Jobs
      <4> QED BY <4>1, <4>2 DEF SeeBusy
    <3>2. CASE PublishesOnly(j)
      <4>1. client' = SeeGroup(client, job[j].g, job[j].full)
        BY <3>2, HeardByAll, Zenon DEF PublishesOnly
      <4> QED BY <1>1, <4>1 DEF SeeGroup, Clients
    <3> QED BY <1>9, <3>1, <3>2
  <2> QED BY <1>2, <2>1, <2>2, HeardKept DEF Silences
<1>10. CASE Removed(j)
  <2>1. lock' = lock /\ job[j].op = "remove" /\ client' = SeeRemoved(client, job[j].g)
    BY <1>10, HeardByAll, Zenon DEF Removed, Step, EmitGroupRemoved
  <2>2. /\ client'.stage = "online"
        /\ \A g \in Groups : client'.start[g] = IF g = job[j].g THEN 0 ELSE client.start[g]
    BY <1>1, <2>1 DEF SeeRemoved, Clients
  <2>3. \A g \in Groups : client'.start[g] > 0 => client.start[g] > 0
    BY <1>1, <2>2
  <2> QED BY <1>2, <2>1, <2>2, <2>3, HeardKept DEF Silences
<1> QED BY <1>3, <1>4, <1>5, <1>6, <1>7, <1>8, <1>9, <1>10 DEF RallyResumes

LEMMA HeardCountdown ==
  ASSUME TypeOK, LeaseOfHolder, HeardInv, CountdownNext, UNCHANGED rallyVars
  PROVE  HeardInv'
<1>1. client \in Clients /\ client.stage = "online" /\ job' = job
  BY DEF TypeOK, HeardInv, rallyVars
<1>2. client'.stage = "online" /\ client'.start = client.start
  <2>1. ASSUME NEW h PROVE /\ SeeBusy(client, h).stage = "online"
                          /\ SeeBusy(client, h).start = client.start
    BY <1>1 DEF SeeBusy, Clients
  <2>2. ASSUME NEW cd, NEW h PROVE /\ SeeBusy(SeeCountdown(client, cd), h).stage = "online"
                                  /\ SeeBusy(SeeCountdown(client, cd), h).start = client.start
    BY <1>1 DEF SeeBusy, SeeCountdown, Clients
  <2>3. ASSUME NEW c \in CdCalls,
               \/ \E total \in Totals : StartReceived(c, total)
               \/ StopReceived(c) \/ Refused(c) \/ StartAcquires(c) \/ ProbeAbandoned(c)
        PROVE  client' = client
    BY <2>3 DEF StartReceived, StopReceived, Refused, StartAcquires, ProbeAbandoned
  <2>4. ASSUME NEW c \in CdCalls, NEW grace \in Graces, ProbeAnswered(c, grace)
        PROVE  client'.stage = "online" /\ client'.start = client.start
    <3>1. PICK cd : client' = Broadcast(SeeBusy(SeeCountdown(client, cd), CountdownHolder))
      BY <2>4 DEF ProbeAnswered
    <3> QED BY <3>1, <2>2, HeardByAll
  <2>5. ASSUME NEW c \in CdCalls, ProbeFails(c)
        PROVE  client'.stage = "online" /\ client'.start = client.start
    <3>1. client' = SeeBusy(client, None)
      BY <2>5, HeardByAll DEF ProbeFails
    <3> QED BY <3>1, <2>1
  <2>6. ASSUME NEW c \in CdCalls, Stops(c)
        PROVE  client'.stage = "online" /\ client'.start = client.start
    <3>1. client' = SeeBusy(SeeCountdown(client, NoCountdown), None)
      BY <2>6, HeardByAll DEF Stops
    <3> QED BY <3>1, <2>2
  <2>7. CASE CountdownLeaseEnds
    <3>1. \/ client' = client
          \/ client' = SeeBusy(SeeCountdown(client, NoCountdown), Expired(lock).holder)
      BY <2>7, HeardByAll DEF CountdownLeaseEnds
    <3> QED BY <1>1, <3>1, <2>2
  <2> QED BY <1>1, <2>3, <2>4, <2>5, <2>6, <2>7 DEF CountdownNext
<1>3. \A g \in Groups : lock.holder = g => lock'.holder = g
  BY CountdownLeavesGroups
<1> QED BY <1>1, <1>2, <1>3 DEF HeardInv, Heard

LEMMA HeardStep ==
  ASSUME Faults = {}, TypeOK, LeaseOfHolder, GroupInv, HeardInv, [Next]_vars
  PROVE  HeardInv'
<1>1. CASE CountdownNext /\ UNCHANGED rallyVars
  BY <1>1, HeardCountdown
<1>2. CASE RallyNext
  <2>1. ASSUME NEW j \in JobIds, Loads(j) \/ Writes(j) \/ Reads(j) \/ QueryFails(j) PROVE HeardInv'
    BY <2>1, HeardQueries DEF QueryFails
  <2>2. ASSUME NEW j \in JobIds, RallyResumes(j) PROVE HeardInv'
    BY <2>2, HeardResumes
  <2>3. ASSUME NEW j \in RallyCalls, NEW op \in Requests, NEW g \in Groups, Request(j, op, g) PROVE HeardInv'
    <3>1. UNCHANGED <<lock, client>> /\ job[j].stage = "none" /\ j \in JobIds
      BY <2>3 DEF Request, JobIds
    <3>2. \A i \in JobIds : i # j => job'[i] = job[i]
      BY <2>3, <3>1, JobEdges
    <3> QED BY <3>1, <3>2, HeardKept DEF Silences, HeardInv
  <2>4. ASSUME NEW g \in Groups, RallyLeaseEnds(g) PROVE HeardInv'
    <3>1. /\ client' = client /\ job[g].stage = "none" /\ g \in JobIds /\ lock.holder = g
          /\ \A i \in JobIds : i # g => job'[i] = job[i]
      BY <2>4 DEF RallyLeaseEnds, JobIds, TypeOK, Due, LeaseOfHolder, LeaseInv
    <3>2. job'[g].op = "autoIdle" /\ job'[g].g = g /\ job'[g].stage = "write"
      BY <2>4, <3>1 DEF RallyLeaseEnds, IdleReset, NoJob, TypeOK
    <3> QED BY <3>1, <3>2, HeardKept DEF Silences, HeardInv
  <2> QED BY <1>2, <2>1, <2>2, <2>3, <2>4 DEF RallyNext
<1>3. CASE ClientDrops \/ ClientConnects \/ SnapshotArrives \/ Restart
  BY <1>3 DEF ClientDrops, ClientConnects, SnapshotArrives, Restart, HeardInv, Connected
<1>4. CASE Tick
  <2>1. \A j \in JobIds : job'[j].op = job[j].op /\ job'[j].g = job[j].g /\ job'[j].stage = job[j].stage
    BY <1>4 DEF Tick, TypeOK, Jobs
  <2>2. lock'.holder = lock.holder
    BY <1>4 DEF Tick, LockAged, TypeOK, Locks
  <2>3. client'.stage = client.stage /\ \A g \in Groups : client'.start[g] = Minus1(client.start[g])
    BY <1>4 DEF Tick, ClientAged, TypeOK, Clients
  <2>4. \A g \in Groups : client'.start[g] > 0 => client.start[g] > 0
    BY <2>3 DEF Minus1
  <2> QED BY <2>1, <2>2, <2>3, <2>4 DEF HeardInv, Heard, Silences
<1>5. CASE UNCHANGED vars
  BY <1>5 DEF vars, rallyVars, HeardInv, Heard
<1> QED BY <1>1, <1>2, <1>3, <1>4, <1>5 DEF Next

\* Without faults, and with one call at a time about each group, whatever the browser
\* is speaking when nothing is under way holds the lock (busy-lock.service.ts,
\* rally-groups.gateway.ts, store/index.js).
THEOREM HolderIsHeard ==
  ASSUME Faults = {}
  PROVE  Spec => []OnlyHolderIsHeard
<1>1. TypeOK /\ LeaseOfHolder /\ ResetsOnly /\ GroupInv /\ [Next]_vars => GroupInv'
  BY GroupStep
<1>2. TypeOK /\ LeaseOfHolder /\ GroupInv /\ HeardInv /\ [Next]_vars => HeardInv'
  BY HeardStep
<1>3. Init => HeardInv
  BY DEF Init, ClientInit, HeardInv, Heard
<1>4. HeardInv /\ CountdownSeen /\ ActiveHoldsLock => OnlyHolderIsHeard
  <2> SUFFICES ASSUME HeardInv, CountdownSeen, ActiveHoldsLock, AtRest, NEW h \in Playing(client)
               PROVE  h = lock.holder
    BY DEF OnlyHolderIsHeard
  <2>1. CASE h = CountdownHolder
    BY <2>1 DEF Playing, PlaysCountdown, HeardInv, CountdownSeen, ActiveHoldsLock
  <2>2. CASE h # CountdownHolder
    <3>1. h \in Groups /\ client.start[h] > 0
      BY <2>2 DEF Playing, PlaysRally, Holders
    <3> QED BY <3>1 DEF HeardInv, Heard, Silences, AtRest
  <2> QED BY <2>1, <2>2
<1>5. "probeError" \notin Faults
  OBVIOUS
<1>6. Spec => []ActiveHoldsLock
  BY <1>5, CountdownHoldsLock
<1> QED
  BY <1>1, <1>2, <1>3, <1>4, <1>6, GroupStart, StepResets, Typing, LeaseSafe, BrowserSeesCountdown, PTL DEF Spec

-----------------------------------------------------------------------------
(* The bytes of a drawing.                                                  *)

LEMMA FirstAndRest ==
    ASSUME NEW S, NEW s \in Seq(S), s # <<>>
    PROVE  /\ Head(s) \in S /\ Head(s) = s[1] /\ Tail(s) \in Seq(S) /\ Len(Tail(s)) = Len(s) - 1
           /\ \A i \in 1..Len(Tail(s)) : Tail(s)[i] = s[i+1]
OBVIOUS

LEMMA LastPart ==
    ASSUME NEW S, NEW s \in Seq(S), NEW k \in 1..Len(s)
    PROVE  SubSeq(s, k, Len(s)) \in Seq(S)
OBVIOUS

LEMMA BytesFunction ==
    ASSUME NEW es \in Seq(Strokes)
    PROVE  \E f : /\ f \in [0..Len(es) -> Nat] /\ f[0] = 0
                  /\ \A i \in 1..Len(es) : f[i] = f[i-1] + es[i].bytes
                  /\ ElementsBytes(es) = f[Len(es)]
<1> DEFINE step == [i \in 1..Len(es) |-> [n \in Nat |-> n + es[i].bytes]]
           f == CHOOSE g : g = [i \in 0..Len(es) |-> IF i = 0 THEN 0 ELSE g[i-1] + es[i].bytes]
           P == {i \in 0..Len(es) : f[i] \in Nat}
<1>1. Len(es) \in Nat /\ \A i \in 1..Len(es) : es[i].bytes \in Nat
  BY BoardAssumption
<1>2. Steps(step, Len(es), Nat)
  BY <1>1 DEF Steps
<1>3. \A i \in 1..Len(es), n \in Nat : step[i][n] = n + es[i].bytes
  OBVIOUS
<1>4. PICK g : Iterates(g, Len(es), Nat, 0, step)
  <2> HIDE DEF step
  <2> QED BY <1>1, <1>2, Recursion
<1>5. g = [i \in 0..Len(es) |-> IF i = 0 THEN 0 ELSE g[i-1] + es[i].bytes]
  <2> HIDE DEF step
  <2>1. ASSUME NEW i \in 1..Len(es) PROVE g[i] = g[i-1] + es[i].bytes
    <3>1. g[i-1] \in Nat /\ g[i] = step[i][g[i-1]]
      BY <1>1, <1>4 DEF Iterates
    <3> QED BY <1>3, <3>1
  <2> QED BY <1>1, <1>4, <2>1 DEF Iterates
<1>6. f = [i \in 0..Len(es) |-> IF i = 0 THEN 0 ELSE f[i-1] + es[i].bytes] /\ ElementsBytes(es) = f[Len(es)]
  BY <1>5 DEF ElementsBytes
<1> HIDE DEF f
<1>7. f[0] = 0 /\ \A i \in 1..Len(es) : f[i] = f[i-1] + es[i].bytes
  BY <1>1, <1>6
<1>8. 0 \in P /\ \A n \in 0..(Len(es)-1) : n \in P => n + 1 \in P
  <2>1. ASSUME NEW n \in 0..(Len(es)-1), f[n] \in Nat PROVE n + 1 \in 0..Len(es) /\ f[n+1] \in Nat
    <3>1. n + 1 \in 1..Len(es) /\ f[n+1] = f[n] + es[n+1].bytes
      BY <1>1, <1>7
    <3> QED BY <1>1, <2>1, <3>1
  <2> QED BY <1>1, <1>7, <2>1
<1>9. \A n \in 0..Len(es) : n \in P
  <2> HIDE DEF P
  <2> QED BY <1>1, <1>8, UpTo
<1> QED BY <1>1, <1>6, <1>7, <1>9

LEMMA BytesOfNone == ElementsBytes(<<>>) = 0
<1>1. <<>> \in Seq(Strokes) /\ Len(<<>>) = 0
  OBVIOUS
<1> QED BY <1>1, BytesFunction

LEMMA BytesAppend ==
    ASSUME NEW es \in Seq(Strokes), NEW e \in Strokes
    PROVE  /\ ElementsBytes(es) \in Nat
           /\ ElementsBytes(Append(es, e)) = ElementsBytes(es) + e.bytes
<1> DEFINE fs == Append(es, e)
<1>1. fs \in Seq(Strokes) /\ Len(es) \in Nat /\ Len(fs) = Len(es) + 1 /\ fs[Len(fs)] = e
      /\ \A i \in 1..Len(es) : fs[i] = es[i]
  OBVIOUS
<1> HIDE DEF fs
<1>2. PICK f : /\ f \in [0..Len(es) -> Nat] /\ f[0] = 0
               /\ \A i \in 1..Len(es) : f[i] = f[i-1] + es[i].bytes
               /\ ElementsBytes(es) = f[Len(es)]
  BY BytesFunction
<1>3. PICK g : /\ g \in [0..Len(fs) -> Nat] /\ g[0] = 0
               /\ \A i \in 1..Len(fs) : g[i] = g[i-1] + fs[i].bytes
               /\ ElementsBytes(fs) = g[Len(fs)]
  BY <1>1, BytesFunction
<1> DEFINE P == {i \in 0..Len(es) : g[i] = f[i]}
<1>4. 0 \in P /\ \A n \in 0..(Len(es)-1) : n \in P => n + 1 \in P
  <2>1. ASSUME NEW n \in 0..(Len(es)-1), g[n] = f[n] PROVE n + 1 \in 0..Len(es) /\ g[n+1] = f[n+1]
    <3>1. n + 1 \in 1..Len(es) /\ n + 1 \in 1..Len(fs)
      BY <1>1
    <3>2. f[n+1] = f[n] + es[n+1].bytes /\ g[n+1] = g[n] + fs[n+1].bytes
      BY <1>2, <1>3, <3>1
    <3> QED BY <1>1, <2>1, <3>1, <3>2
  <2> QED BY <1>1, <1>2, <1>3, <2>1
<1>5. \A n \in 0..Len(es) : n \in P
  <2> HIDE DEF P
  <2> QED BY <1>1, <1>4, UpTo
<1>6. g[Len(es)] = f[Len(es)] /\ g[Len(fs)] = g[Len(es)] + e.bytes
  BY <1>1, <1>3, <1>5
<1> QED BY <1>1, <1>2, <1>3, <1>6 DEF fs

\* Picked, element by element.
LEMMA PickedFunction ==
    ASSUME NEW es \in Seq(Strokes), NEW places
    PROVE  \E f : /\ f \in [0..Len(es) -> Seq(Strokes)] /\ f[0] = <<>>
                  /\ \A i \in 1..Len(es) : f[i] = IF i \in places THEN Append(f[i-1], es[i]) ELSE f[i-1]
                  /\ Picked(es, places) = f[Len(es)]
<1> DEFINE next(i, s) == IF i \in places THEN Append(s, es[i]) ELSE s
           step == [i \in 1..Len(es) |-> [s \in Seq(Strokes) |-> next(i, s)]]
           f == CHOOSE g : g = [i \in 0..Len(es) |->
                                  IF i = 0 THEN <<>> ELSE IF i \in places THEN Append(g[i-1], es[i]) ELSE g[i-1]]
           P == {i \in 0..Len(es) : f[i] \in Seq(Strokes)}
<1>1. Len(es) \in Nat /\ <<>> \in Seq(Strokes) /\ \A i \in 1..Len(es) : es[i] \in Strokes
  OBVIOUS
<1>2. \A i \in 1..Len(es), s \in Seq(Strokes) : next(i, s) \in Seq(Strokes)
  BY <1>1
<1>3. Picked(es, places) = f[Len(es)]
  BY DEF Picked
<1>4. f = CHOOSE g : g = [i \in 0..Len(es) |-> IF i = 0 THEN <<>> ELSE next(i, g[i-1])]
  OBVIOUS
<1> HIDE DEF next, f
<1>5. Steps(step, Len(es), Seq(Strokes)) /\ \A i \in 1..Len(es), s \in Seq(Strokes) : step[i][s] = next(i, s)
  BY <1>2 DEF Steps
<1> HIDE DEF step
<1>6. PICK g : Iterates(g, Len(es), Seq(Strokes), <<>>, step)
  BY <1>1, <1>5, Recursion
<1>7. g = [i \in 0..Len(es) |-> IF i = 0 THEN <<>> ELSE next(i, g[i-1])]
  <2>1. ASSUME NEW i \in 1..Len(es) PROVE g[i] = next(i, g[i-1])
    <3>1. g[i-1] \in Seq(Strokes) /\ g[i] = step[i][g[i-1]]
      BY <1>1, <1>6 DEF Iterates
    <3> QED BY <1>5, <3>1
  <2> QED BY <1>1, <1>6, <2>1 DEF Iterates
<1>8. f = [i \in 0..Len(es) |-> IF i = 0 THEN <<>> ELSE next(i, f[i-1])]
  BY <1>4, <1>7
<1>9. f[0] = <<>> /\ \A i \in 1..Len(es) : f[i] = next(i, f[i-1])
  BY <1>1, <1>8
<1>10. 0 \in P /\ \A n \in 0..(Len(es)-1) : n \in P => n + 1 \in P
  <2>1. ASSUME NEW n \in 0..(Len(es)-1), f[n] \in Seq(Strokes) PROVE n + 1 \in 0..Len(es) /\ f[n+1] \in Seq(Strokes)
    <3>1. n + 1 \in 1..Len(es) /\ (n + 1) - 1 = n
      BY <1>1
    <3> QED BY <1>1, <1>2, <1>9, <2>1, <3>1
  <2>2. f[0] \in Seq(Strokes)
    BY <1>1, <1>9
  <2> QED BY <1>1, <2>1, <2>2
<1>11. \A n \in 0..Len(es) : n \in P
  <2> HIDE DEF P
  <2> QED BY <1>1, <1>10, UpTo
<1>12. f \in [0..Len(es) -> Seq(Strokes)]
  BY <1>1, <1>8, <1>11
<1> QED BY <1>3, <1>9, <1>12 DEF next

\* What has the id and what has not are all there is, in bytes as in elements.
LEMMA PickedSplit ==
    ASSUME NEW es \in Seq(Strokes), NEW id
    PROVE  /\ WithoutId(es, id) \in Seq(Strokes) /\ WithId(es, id) \in Seq(Strokes)
           /\ Len(WithoutId(es, id)) <= Len(es)
           /\ ElementsBytes(WithoutId(es, id)) + ElementsBytes(WithId(es, id)) = ElementsBytes(es)
<1> DEFINE those == {i \in DOMAIN es : es[i].id = id}
           others == {i \in DOMAIN es : es[i].id # id}
<1>1. /\ Len(es) \in Nat /\ \A i \in 1..Len(es) : es[i] \in Strokes
      /\ \A i \in 1..Len(es) : i \in those <=> i \notin others
  OBVIOUS
<1>2. WithoutId(es, id) = Picked(es, others) /\ WithId(es, id) = Picked(es, those)
  BY DEF WithId, WithoutId
<1> HIDE DEF those, others
<1>3. PICK f : /\ f \in [0..Len(es) -> Nat] /\ f[0] = 0
               /\ \A i \in 1..Len(es) : f[i] = f[i-1] + es[i].bytes
               /\ ElementsBytes(es) = f[Len(es)]
  BY BytesFunction
<1>4. PICK k : /\ k \in [0..Len(es) -> Seq(Strokes)] /\ k[0] = <<>>
               /\ \A i \in 1..Len(es) : k[i] = IF i \in others THEN Append(k[i-1], es[i]) ELSE k[i-1]
               /\ Picked(es, others) = k[Len(es)]
  BY PickedFunction
<1>5. PICK g : /\ g \in [0..Len(es) -> Seq(Strokes)] /\ g[0] = <<>>
               /\ \A i \in 1..Len(es) : g[i] = IF i \in those THEN Append(g[i-1], es[i]) ELSE g[i-1]
               /\ Picked(es, those) = g[Len(es)]
  BY PickedFunction
<1> DEFINE P == {i \in 0..Len(es) : Len(k[i]) <= i /\ ElementsBytes(k[i]) + ElementsBytes(g[i]) = f[i]}
<1>6. 0 \in P
  BY <1>1, <1>3, <1>4, <1>5, BytesOfNone
<1>7. ASSUME NEW n \in 0..(Len(es)-1), n \in P PROVE n + 1 \in P
  <2>1. n + 1 \in 1..Len(es) /\ n + 1 \in 0..Len(es) /\ n \in 0..Len(es) /\ (n + 1) - 1 = n
    BY <1>1
  <2>2. es[n+1] \in Strokes /\ es[n+1].bytes \in Nat
    BY <1>1, <2>1, BoardAssumption
  <2>3. k[n] \in Seq(Strokes) /\ g[n] \in Seq(Strokes) /\ f[n] \in Nat /\ f[n+1] = f[n] + es[n+1].bytes
    BY <1>3, <1>4, <1>5, <2>1
  <2>4. ElementsBytes(k[n]) \in Nat /\ ElementsBytes(g[n]) \in Nat
    BY <2>2, <2>3, BytesAppend
  <2>5. Len(k[n]) <= n /\ ElementsBytes(k[n]) + ElementsBytes(g[n]) = f[n]
    BY <1>7
  <2>6. CASE n + 1 \in those
    <3>1. k[n+1] = k[n] /\ g[n+1] = Append(g[n], es[n+1])
      BY <1>1, <1>4, <1>5, <2>1, <2>6
    <3>2. ElementsBytes(g[n+1]) = ElementsBytes(g[n]) + es[n+1].bytes
      BY <2>2, <2>3, <3>1, BytesAppend
    <3>3. Len(k[n+1]) <= n + 1
      BY <2>3, <2>5, <3>1
    <3>4. ElementsBytes(k[n+1]) + ElementsBytes(g[n+1]) = f[n+1]
      BY <2>2, <2>3, <2>4, <2>5, <3>1, <3>2
    <3> QED BY <2>1, <3>3, <3>4
  <2>7. CASE n + 1 \notin those
    <3>1. k[n+1] = Append(k[n], es[n+1]) /\ g[n+1] = g[n]
      BY <1>1, <1>4, <1>5, <2>1, <2>7
    <3>2. ElementsBytes(k[n+1]) = ElementsBytes(k[n]) + es[n+1].bytes
      BY <2>2, <2>3, <3>1, BytesAppend
    <3>3. Len(k[n+1]) <= n + 1
      BY <2>1, <2>2, <2>3, <2>5, <3>1
    <3>4. ElementsBytes(k[n+1]) + ElementsBytes(g[n+1]) = f[n+1]
      BY <2>2, <2>3, <2>4, <2>5, <3>1, <3>2
    <3> QED BY <2>1, <3>3, <3>4
  <2> QED BY <2>6, <2>7
<1>8. \A n \in 0..Len(es) : n \in P
  <2> HIDE DEF P
  <2> QED BY <1>1, <1>6, <1>7, UpTo
<1> QED BY <1>1, <1>2, <1>3, <1>4, <1>5, <1>8

-----------------------------------------------------------------------------
(* The types of what is sent to a tab and of what it makes of it.           *)

Tabs == [open : BOOLEAN, elements : Seq(Strokes), background : Backgrounds,
         who : [Browsers -> Roles], canDraw : BOOLEAN, session : Nat]

States == [type : {"state"}, elements : Seq(Strokes), background : Backgrounds,
           who : [Browsers -> Roles], canDraw : BOOLEAN, session : Nat \ {0}]
Presences == [type : {"presence"}, who : [Browsers -> Roles]]
Additions == [type : {"add"}, element : Strokes]
Removals == [type : {"remove"}, id : {e.id : e \in Strokes}]
Clearings == [type : {"clear"}]
Changes == [type : {"background"}, background : Backgrounds]
Replacements == [type : {"replace"}, elements : Seq(Strokes), background : Backgrounds]
Edits == Additions \cup Removals \cup Clearings \cup Changes \cup Replacements
Messages == States \cup Presences \cup Edits

LEMMA LastTyped ==
    ASSUME NEW s \in Seq(Strokes)
    PROVE  LastOf(MaxElements, s) \in Seq(Strokes) /\ (Len(s) <= MaxElements => LastOf(MaxElements, s) = s)
<1>1. Len(s) \in Nat /\ MaxElements \in Nat
  BY BoardAssumption
<1>2. CASE Len(s) > MaxElements
  BY <1>1, <1>2, LastPart DEF LastOf
<1>3. CASE ~(Len(s) > MaxElements)
  <2>1. LastOf(MaxElements, s) = SubSeq(s, 1, Len(s))
    BY <1>3 DEF LastOf
  <2>2. SubSeq(s, 1, Len(s)) = s
    OBVIOUS
  <2> QED BY <2>1, <2>2
<1> QED BY <1>1, <1>2, <1>3

\* A tab that handles an event stays a tab, and open if it was.
LEMMA HandleTyped ==
    ASSUME NEW b \in Browsers, NEW t \in Tabs, NEW m \in Messages
    PROVE  Handle(b, t, m) \in Tabs /\ Handle(b, t, m).open = t.open
<1>1. CASE ~t.open
  BY <1>1 DEF Handle
<1>2. CASE t.open /\ m \in States
  <2>1. Handle(b, t, m) = HandleState(t, m)
    BY <1>2 DEF Handle, States
  <2> QED BY <1>2, <2>1 DEF HandleState, Tabs, States
<1>3. CASE t.open /\ m \in Presences
  <2>1. Handle(b, t, m) = HandlePresence(b, t, m)
    BY <1>3 DEF Handle, Presences
  <2>2. (IF m.who[b] = "out" THEN t.canDraw ELSE m.who[b] = "drawer") \in BOOLEAN
    BY DEF Tabs
  <2> QED BY <1>3, <2>1, <2>2 DEF HandlePresence, Tabs, Presences
<1>4. CASE t.open /\ m \in Additions
  <2>1. Handle(b, t, m) = HandleAdd(t, m) /\ m.element \in Strokes /\ t.elements \in Seq(Strokes)
    BY <1>4 DEF Handle, Additions, Tabs
  <2>2. Append(t.elements, m.element) \in Seq(Strokes)
    BY <2>1
  <2>3. LastOf(MaxElements, Append(t.elements, m.element)) \in Seq(Strokes)
    BY <2>2, LastTyped
  <2> QED BY <1>4, <2>1, <2>3 DEF HandleAdd, Tabs
<1>5. CASE t.open /\ m \in Removals
  <2>1. Handle(b, t, m) = HandleRemove(t, m) /\ t.elements \in Seq(Strokes)
    BY <1>5 DEF Handle, Removals, Tabs
  <2>2. WithoutId(t.elements, m.id) \in Seq(Strokes)
    BY <2>1, PickedSplit
  <2> QED BY <1>5, <2>1, <2>2 DEF HandleRemove, Tabs
<1>6. CASE t.open /\ m \in Clearings
  <2>1. Handle(b, t, m) = [t EXCEPT !.elements = <<>>] /\ <<>> \in Seq(Strokes)
    BY <1>6 DEF Handle, Clearings
  <2> QED BY <2>1 DEF Tabs
<1>7. CASE t.open /\ m \in Changes
  <2>1. Handle(b, t, m) = [t EXCEPT !.background = m.background] /\ m.background \in Backgrounds
    BY <1>7 DEF Handle, Changes
  <2> QED BY <2>1 DEF Tabs
<1>8. CASE t.open /\ m \in Replacements
  <2>1. Handle(b, t, m) = HandleBoardReplace(t, m)
    BY <1>8 DEF Handle, Replacements
  <2> QED BY <1>8, <2>1 DEF HandleBoardReplace, Tabs, Replacements
<1> QED BY <1>1, <1>2, <1>3, <1>4, <1>5, <1>6, <1>7, <1>8 DEF Messages, Edits

-----------------------------------------------------------------------------
(* Types and bounds of the live drawing.                                    *)

Drawn ==
    /\ board \in [elements : Seq(Strokes), bytes : Nat, background : Backgrounds]
    /\ BoardBounded

Typed ==
    /\ Drawn
    /\ participants \in [Browsers -> Roles]
    /\ joining \subseteq Browsers /\ armed \in BOOLEAN /\ session \in 1..MaxSessions
    /\ link \in [Browsers -> {"down", "looking", "ready"}]
    /\ sent \in [Browsers -> Seq({"join", "leave"})]
    /\ inbox \in [Browsers -> Seq(Messages)]
    /\ tab \in [Browsers -> Tabs]

LEMMA BytesTyped == ASSUME NEW es \in Seq(Strokes) PROVE ElementsBytes(es) \in Nat
<1>1. PICK f : f \in [0..Len(es) -> Nat] /\ ElementsBytes(es) = f[Len(es)]
  BY BytesFunction
<1> QED BY <1>1

LEMMA DrawnAs ==
    ASSUME NEW es \in Seq(Strokes), NEW bg \in Backgrounds, Len(es) <= MaxElements, ElementsBytes(es) <= MaxBytes,
           board' = [elements |-> es, bytes |-> ElementsBytes(es), background |-> bg]
    PROVE  Drawn'
<1>1. ElementsBytes(es) \in Nat
  BY BytesTyped
<1>2. board'.elements = es /\ board'.bytes = ElementsBytes(es)
  OBVIOUS
<1> QED BY <1>1, <1>2 DEF Drawn, BoardBounded

\* Every edit, with the event it broadcasts.
DrawsAs(m) == m \in Edits /\ BroadcastToRoom(m) /\ UNCHANGED notDrawing

LEMMA Added ==
    ASSUME Drawn, NEW b \in Browsers, NEW e \in Strokes, HandleElementAdd(b, e)
    PROVE  /\ Drawn' /\ DrawsAs([type |-> "add", element |-> e])
           /\ board'.elements = Append(board.elements, e) /\ board'.background = board.background
           /\ Len(board.elements) < MaxElements
<1> DEFINE es == Append(board.elements, e)
<1>1. board.elements \in Seq(Strokes) /\ board.background \in Backgrounds /\ board.bytes = ElementsBytes(board.elements)
  BY DEF Drawn, BoardBounded
<1>2. ElementsBytes(es) = board.bytes + e.bytes
  BY <1>1, BytesAppend
<1>3. /\ es \in Seq(Strokes) /\ Len(es) = Len(board.elements) + 1
      /\ Len(board.elements) < MaxElements /\ board.bytes + e.bytes <= MaxBytes
  BY <1>1 DEF HandleElementAdd
<1>4. board' = [elements |-> es, bytes |-> ElementsBytes(es), background |-> board.background]
  BY <1>2 DEF HandleElementAdd, Drawn
<1>5. Len(es) <= MaxElements /\ ElementsBytes(es) <= MaxBytes
  BY <1>1, <1>2, <1>3, BoardAssumption
<1>6. Drawn'
  <2> HIDE DEF es
  <2> QED BY <1>1, <1>3, <1>4, <1>5, DrawnAs
<1>7. DrawsAs([type |-> "add", element |-> e])
  BY DEF HandleElementAdd, DrawsAs, Edits, Additions
<1> QED BY <1>3, <1>4, <1>6, <1>7

LEMMA TakenOut ==
    ASSUME Drawn, NEW b \in Browsers, NEW e \in Strokes, HandleElementRemove(b, e.id)
    PROVE  /\ Drawn' /\ DrawsAs([type |-> "remove", id |-> e.id])
           /\ board'.elements = WithoutId(board.elements, e.id) /\ board'.background = board.background
<1> DEFINE es == WithoutId(board.elements, e.id)
           gone == WithId(board.elements, e.id)
<1>1. /\ board.elements \in Seq(Strokes) /\ board.background \in Backgrounds
      /\ board.bytes = ElementsBytes(board.elements) /\ board.bytes <= MaxBytes /\ board.bytes \in Nat
      /\ Len(board.elements) <= MaxElements
  BY DEF Drawn, BoardBounded
<1>2. es \in Seq(Strokes) /\ gone \in Seq(Strokes) /\ Len(es) <= Len(board.elements)
      /\ ElementsBytes(es) + ElementsBytes(gone) = board.bytes
  BY <1>1, PickedSplit
<1>3. ElementsBytes(es) \in Nat /\ ElementsBytes(gone) \in Nat
  BY <1>2, BytesTyped
<1>4. (IF board.bytes > ElementsBytes(gone) THEN board.bytes - ElementsBytes(gone) ELSE 0) = ElementsBytes(es)
  <2> HIDE DEF es, gone
  <2> QED BY <1>1, <1>2, <1>3
<1>5. board' = [elements |-> es, bytes |-> ElementsBytes(es), background |-> board.background]
  <2>1. board' = Without(e.id)
    BY DEF HandleElementRemove
  <2>2. Without(e.id) = [board EXCEPT !.elements = es,
                            !.bytes = IF board.bytes > ElementsBytes(gone) THEN board.bytes - ElementsBytes(gone) ELSE 0]
    BY DEF Without
  <2>3. board \in [elements : Seq(Strokes), bytes : Nat, background : Backgrounds]
    BY DEF Drawn
  <2> HIDE DEF es, gone
  <2> QED BY <1>4, <2>1, <2>2, <2>3
<1>6. Len(es) <= MaxElements /\ ElementsBytes(es) <= MaxBytes
  <2>1. Len(es) \in Nat /\ Len(board.elements) \in Nat
    BY <1>1, <1>2
  <2> HIDE DEF es, gone
  <2> QED BY <1>1, <1>2, <1>3, <2>1, BoardAssumption
<1>7. Drawn'
  <2> HIDE DEF es
  <2> QED BY <1>1, <1>2, <1>5, <1>6, DrawnAs
<1>8. DrawsAs([type |-> "remove", id |-> e.id])
  BY DEF HandleElementRemove, DrawsAs, Edits, Removals
<1> QED BY <1>5, <1>7, <1>8

LEMMA Cleared ==
    ASSUME Drawn, NEW b \in Browsers, HandleClear(b)
    PROVE  /\ Drawn' /\ DrawsAs([type |-> "clear"])
           /\ board'.elements = <<>> /\ board'.background = board.background
<1>1. board' = [elements |-> <<>>, bytes |-> 0, background |-> board.background] /\ board.background \in Backgrounds
  BY DEF HandleClear, Drawn
<1>2. <<>> \in Seq(Strokes) /\ Len(<<>>) <= MaxElements /\ ElementsBytes(<<>>) = 0 /\ ElementsBytes(<<>>) <= MaxBytes
  BY BytesOfNone, BoardAssumption
<1>3. Drawn'
  BY <1>1, <1>2, DrawnAs
<1>4. DrawsAs([type |-> "clear"])
  BY DEF HandleClear, DrawsAs, Edits, Clearings
<1> QED BY <1>1, <1>3, <1>4

LEMMA BackgroundSet ==
    ASSUME Drawn, NEW b \in Browsers, NEW bg \in Backgrounds, HandleBackgroundUpdate(b, bg)
    PROVE  /\ Drawn' /\ DrawsAs([type |-> "background", background |-> bg])
           /\ board'.elements = board.elements /\ board'.background = bg
<1>1. board' = [board EXCEPT !.background = bg] /\ board \in [elements : Seq(Strokes), bytes : Nat, background : Backgrounds]
  BY DEF HandleBackgroundUpdate, Drawn
<1>2. board'.elements = board.elements /\ board'.bytes = board.bytes /\ board'.background = bg
      /\ board' \in [elements : Seq(Strokes), bytes : Nat, background : Backgrounds]
  BY <1>1
<1>3. Drawn'
  BY <1>2 DEF Drawn, BoardBounded
<1>4. DrawsAs([type |-> "background", background |-> bg])
  BY DEF HandleBackgroundUpdate, DrawsAs, Edits, Changes
<1> QED BY <1>2, <1>3, <1>4

LEMMA Replaced ==
    ASSUME Drawn, NEW b \in Browsers, NEW es \in ValidElements, NEW bg \in Backgrounds, HandleReplace(b, es, bg)
    PROVE  /\ Drawn' /\ DrawsAs([type |-> "replace", elements |-> es, background |-> bg])
           /\ board'.elements = es /\ board'.background = bg
<1>1. PICK m \in 0..MaxElements : es \in [1..m -> Strokes] /\ ElementsBytes(es) <= MaxBytes
  BY DEF ValidElements, Drawings
<1>2. es \in Seq(Strokes) /\ Len(es) <= MaxElements
  BY <1>1, BoardAssumption
<1>3. board' = [elements |-> es, bytes |-> ElementsBytes(es), background |-> bg]
  BY DEF HandleReplace
<1>4. Drawn'
  BY <1>1, <1>2, <1>3, DrawnAs
<1>5. DrawsAs([type |-> "replace", elements |-> es, background |-> bg])
  BY <1>2 DEF HandleReplace, DrawsAs, Edits, Replacements
<1> QED BY <1>3, <1>4, <1>5

LEMMA SnapshotTyped ==
    ASSUME Typed, NEW b \in Browsers, NEW who \in [Browsers -> Roles]
    PROVE  SnapshotFor(b, who) \in States
<1>1. board.elements \in Seq(Strokes) /\ board.background \in Backgrounds /\ session \in Nat \ {0}
  BY BoardAssumption DEF Typed, Drawn
<1>2. (who[b] = "drawer") \in BOOLEAN
  OBVIOUS
<1> QED BY <1>1, <1>2 DEF SnapshotFor, States

LEMMA JoinTyped ==
    ASSUME Typed, NEW b \in Browsers, Join(b)
    PROVE  /\ participants' = [participants EXCEPT ![b] = JoinedBy(b)] /\ participants' \in [Browsers -> Roles]
           /\ JoinedBy(b) \in Roles /\ JoinedBy(b) # "out" /\ participants'[b] = JoinedBy(b)
           /\ inbox' = [inbox EXCEPT ![b] = Append(inbox[b], SnapshotFor(b, participants'))]
           /\ inbox' \in [Browsers -> Seq(Messages)] /\ SnapshotFor(b, participants') \in States /\ armed'
<1>1. JoinedBy(b) \in Roles /\ JoinedBy(b) # "out"
  BY DEF JoinedBy, Roles
<1>2. participants' = [participants EXCEPT ![b] = JoinedBy(b)] /\ participants \in [Browsers -> Roles]
  BY DEF Join, Typed
<1>3. participants' \in [Browsers -> Roles] /\ participants'[b] = JoinedBy(b)
  BY <1>1, <1>2
<1>4. inbox' = [inbox EXCEPT ![b] = Append(inbox[b], SnapshotFor(b, participants'))] /\ armed'
  BY DEF Join
<1>5. SnapshotFor(b, participants') \in States
  BY <1>3, SnapshotTyped
<1>6. inbox \in [Browsers -> Seq(Messages)] /\ SnapshotFor(b, participants') \in Messages
  BY <1>5 DEF Typed, Messages
<1>7. inbox' \in [Browsers -> Seq(Messages)]
  BY <1>4, <1>6
<1> QED BY <1>1, <1>2, <1>3, <1>4, <1>5, <1>7

LEMMA BroadcastTyped ==
    ASSUME inbox \in [Browsers -> Seq(Messages)], NEW m \in Messages, BroadcastToRoom(m)
    PROVE  /\ inbox' \in [Browsers -> Seq(Messages)]
           /\ \A b \in Browsers : inbox'[b] = IF participants[b] # "out" THEN Append(inbox[b], m) ELSE inbox[b]
BY DEF BroadcastToRoom, Room

\* What is left of a queue of joins and leaves once the first was received.
LEMMA ReceivedTyped ==
    ASSUME Typed, NEW b \in Browsers, NEW event, Received(b, event)
    PROVE  /\ sent' \in [Browsers -> Seq({"join", "leave"})] /\ link[b] # "down"
           /\ UNCHANGED <<board, session, link, tab>>
<1>1. sent \in [Browsers -> Seq({"join", "leave"})] /\ sent[b] # <<>> /\ sent' = [sent EXCEPT ![b] = Tail(sent[b])]
  BY DEF Typed, Received
<1>2. Tail(sent[b]) \in Seq({"join", "leave"})
  BY <1>1, FirstAndRest
<1> QED BY <1>1, <1>2 DEF Received

\* The step of every action.
LEMMA DrawTyped == ASSUME Typed, NEW b \in Browsers, Draw(b) PROVE Typed'
<1>1. ASSUME NEW m, Drawn', DrawsAs(m) PROVE Typed'
  <2>1. inbox' \in [Browsers -> Seq(Messages)]
    BY <1>1, BroadcastTyped DEF DrawsAs, Messages, Typed
  <2> QED BY <1>1, <2>1 DEF DrawsAs, notDrawing, Typed
<1>2. ASSUME NEW e \in Strokes, HandleElementAdd(b, e) \/ HandleElementRemove(b, e.id) PROVE Typed'
  BY <1>1, <1>2, Added, TakenOut DEF Typed
<1>3. ASSUME HandleClear(b) PROVE Typed'
  BY <1>1, <1>3, Cleared DEF Typed
<1>4. ASSUME NEW bg \in Backgrounds, HandleBackgroundUpdate(b, bg) PROVE Typed'
  BY <1>1, <1>4, BackgroundSet DEF Typed
<1>5. ASSUME NEW bg \in Backgrounds, NEW es \in ValidElements, HandleReplace(b, es, bg) PROVE Typed'
  BY <1>1, <1>5, Replaced DEF Typed
<1> QED BY <1>2, <1>3, <1>4, <1>5 DEF Draw

LEMMA TabTyped ==
    ASSUME Typed, NEW b \in Browsers, OpenTab(b) \/ CloseTab(b) \/ Connect(b) \/ Deliver(b)
    PROVE  Typed'
<1>1. ClosedTab \in Tabs /\ MountedTab \in Tabs
  <2>1. NoOne \in [Browsers -> Roles] /\ <<>> \in Seq(Strokes) /\ Grid \in Backgrounds
    BY DEF NoOne, Roles, Backgrounds
  <2> QED BY <2>1 DEF ClosedTab, MountedTab, Tabs
<1>2. /\ sent \in [Browsers -> Seq({"join", "leave"})] /\ tab \in [Browsers -> Tabs] /\ inbox \in [Browsers -> Seq(Messages)]
      /\ link \in [Browsers -> {"down", "looking", "ready"}]
  BY DEF Typed
<1>3. ASSUME NEW event \in {"join", "leave"} PROVE Append(sent[b], event) \in Seq({"join", "leave"})
  BY <1>2
<1>4. CASE OpenTab(b) \/ CloseTab(b)
  <2>1. tab' \in [Browsers -> Tabs] /\ sent' \in [Browsers -> Seq({"join", "leave"})]
    BY <1>1, <1>2, <1>3, <1>4 DEF OpenTab, CloseTab
  <2>2. UNCHANGED <<board, participants, joining, armed, session, link, inbox>>
    BY <1>4 DEF OpenTab, CloseTab
  <2> QED BY <2>1, <2>2 DEF Typed, Drawn, BoardBounded
<1>5. CASE Connect(b)
  <2>1. sent' \in [Browsers -> Seq({"join", "leave"})] /\ link' \in [Browsers -> {"down", "looking", "ready"}]
    BY <1>2, <1>3, <1>5 DEF Connect
  <2>2. UNCHANGED <<board, participants, joining, armed, session, inbox, tab>>
    BY <1>5 DEF Connect
  <2> QED BY <2>1, <2>2 DEF Typed, Drawn, BoardBounded
<1>6. CASE Deliver(b)
  <2>1. Head(inbox[b]) \in Messages /\ Tail(inbox[b]) \in Seq(Messages)
    BY <1>2, <1>6, FirstAndRest DEF Deliver
  <2>2. Handle(b, tab[b], Head(inbox[b])) \in Tabs
    BY <1>2, <2>1, HandleTyped
  <2>3. tab' \in [Browsers -> Tabs] /\ inbox' \in [Browsers -> Seq(Messages)]
    BY <1>2, <1>6, <2>1, <2>2 DEF Deliver
  <2>4. UNCHANGED <<board, participants, joining, armed, session, link, sent>>
    BY <1>6 DEF Deliver
  <2> QED BY <2>3, <2>4 DEF Typed, Drawn, BoardBounded
<1> QED BY <1>4, <1>5, <1>6

LEMMA GatewayTyped ==
    ASSUME Typed, NEW b \in Browsers, Drop(b) \/ LookedUp(b) \/ Receive(b) \/ HandleChatOpen(b)
    PROVE  Typed'
<1>1. /\ sent \in [Browsers -> Seq({"join", "leave"})] /\ tab \in [Browsers -> Tabs] /\ inbox \in [Browsers -> Seq(Messages)]
      /\ link \in [Browsers -> {"down", "looking", "ready"}] /\ participants \in [Browsers -> Roles]
      /\ joining \subseteq Browsers /\ armed \in BOOLEAN
  BY DEF Typed
<1>2. CASE Drop(b)
  <2>1. /\ link' \in [Browsers -> {"down", "looking", "ready"}] /\ participants' \in [Browsers -> Roles]
        /\ joining' \subseteq Browsers /\ armed' \in BOOLEAN
    BY <1>1, <1>2 DEF Drop, Roles
  <2>2. sent' \in [Browsers -> Seq({"join", "leave"})] /\ inbox' \in [Browsers -> Seq(Messages)]
    BY <1>1, <1>2 DEF Drop
  <2>3. UNCHANGED <<board, session, tab>>
    BY <1>2 DEF Drop
  <2> QED BY <2>1, <2>2, <2>3 DEF Typed, Drawn, BoardBounded
<1>3. CASE LookedUp(b)
  <2>1. link' \in [Browsers -> {"down", "looking", "ready"}] /\ joining' \subseteq Browsers
    BY <1>1, <1>3 DEF LookedUp
  <2>2. participants' \in [Browsers -> Roles] /\ inbox' \in [Browsers -> Seq(Messages)] /\ armed' \in BOOLEAN
    BY <1>1, <1>3, JoinTyped DEF LookedUp
  <2>3. UNCHANGED <<board, session, sent, tab>>
    BY <1>3 DEF LookedUp
  <2> QED BY <2>1, <2>2, <2>3 DEF Typed, Drawn, BoardBounded
<1>4. CASE HandleJoin(b)
  <2>1. sent' \in [Browsers -> Seq({"join", "leave"})] /\ UNCHANGED <<board, session, link, tab>>
    BY <1>4, ReceivedTyped DEF HandleJoin
  <2>2. /\ participants' \in [Browsers -> Roles] /\ inbox' \in [Browsers -> Seq(Messages)] /\ armed' \in BOOLEAN
        /\ joining' \subseteq Browsers
    BY <1>1, <1>4, JoinTyped DEF HandleJoin
  <2> QED BY <2>1, <2>2 DEF Typed, Drawn, BoardBounded
<1>5. CASE HandleLeave(b)
  <2>1. sent' \in [Browsers -> Seq({"join", "leave"})] /\ UNCHANGED <<board, session, link, tab>>
    BY <1>5, ReceivedTyped DEF HandleLeave
  <2>2. participants' \in [Browsers -> Roles] /\ armed' \in BOOLEAN /\ UNCHANGED <<joining, inbox>>
    BY <1>1, <1>5 DEF HandleLeave, Roles
  <2> QED BY <2>1, <2>2 DEF Typed, Drawn, BoardBounded
<1>6. CASE RateLimited(b)
  <2>1. sent' \in [Browsers -> Seq({"join", "leave"})] /\ UNCHANGED <<board, session, link, tab>>
    BY <1>6, ReceivedTyped DEF RateLimited
  <2> QED BY <1>6, <2>1 DEF RateLimited, Typed, Drawn, BoardBounded
<1>7. CASE HandleChatOpen(b)
  BY <1>7 DEF HandleChatOpen, Typed, Drawn, BoardBounded
<1> QED BY <1>2, <1>3, <1>4, <1>5, <1>6, <1>7 DEF Receive

LEMMA TypedStart == BoardInit => Typed
<1> SUFFICES ASSUME BoardInit PROVE Typed
  OBVIOUS
<1>1. /\ board = [elements |-> <<>>, bytes |-> 0, background |-> Grid] /\ <<>> \in Seq(Strokes) /\ Grid \in Backgrounds
      /\ Len(<<>>) = 0 /\ 0 <= MaxElements /\ 0 <= MaxBytes
  BY BoardAssumption DEF BoardInit, EmptyBoard, Backgrounds
<1>2. Drawn
  BY <1>1, BytesOfNone DEF Drawn, BoardBounded
<1>3. NoOne \in [Browsers -> Roles]
  BY DEF NoOne, Roles
<1>4. ClosedTab \in Tabs
  BY <1>1, <1>3 DEF ClosedTab, Tabs
<1>5. session \in 1..MaxSessions
  BY BoardAssumption DEF BoardInit
<1>6. /\ sent \in [Browsers -> Seq({"join", "leave"})] /\ inbox \in [Browsers -> Seq(Messages)]
      /\ link \in [Browsers -> {"down", "looking", "ready"}]
  BY DEF BoardInit
<1> QED BY <1>2, <1>3, <1>4, <1>5, <1>6 DEF BoardInit, Typed

LEMMA TypedStep == Typed /\ [BoardNext]_boardVars => Typed'
<1> SUFFICES ASSUME Typed, [BoardNext]_boardVars PROVE Typed'
  OBVIOUS
<1>1. ASSUME NEW b \in Browsers, NEW p \in Browsers, NEW canDraw \in BOOLEAN, HandlePermissionUpdate(b, p, canDraw)
      PROVE  Typed'
  <2> DEFINE next == IF p \in Admins \/ canDraw THEN "drawer" ELSE "viewer"
  <2>1. participants' = [participants EXCEPT ![p] = next] /\ next \in Roles /\ armed' = TRUE
        /\ UNCHANGED <<board, joining, session, link, sent, inbox, tab>>
    BY <1>1 DEF HandlePermissionUpdate, Roles
  <2> HIDE DEF next
  <2> QED BY <2>1 DEF Typed, Drawn, BoardBounded
<1>2. CASE PresenceFires
  <2>1. [type |-> "presence", who |-> participants] \in Messages
    BY DEF Typed, Presences, Messages
  <2>2. inbox' \in [Browsers -> Seq(Messages)]
    BY <1>2, <2>1, BroadcastTyped DEF PresenceFires, Typed
  <2> QED BY <1>2, <2>2 DEF PresenceFires, Typed, Drawn, BoardBounded
<1>3. CASE BoardRestart
  <2>1. board' = [elements |-> <<>>, bytes |-> 0, background |-> Grid] /\ <<>> \in Seq(Strokes) /\ Grid \in Backgrounds
        /\ Len(<<>>) = 0 /\ ElementsBytes(<<>>) = 0 /\ 0 <= MaxElements /\ 0 <= MaxBytes
    BY <1>3, BytesOfNone, BoardAssumption DEF BoardRestart, EmptyBoard, Backgrounds
  <2>2. Drawn'
    BY <2>1 DEF Drawn, BoardBounded
  <2>3. participants' \in [Browsers -> Roles] /\ link' \in [Browsers -> {"down", "looking", "ready"}]
        /\ joining' \subseteq Browsers /\ armed' \in BOOLEAN
    BY <1>3 DEF BoardRestart, NoOne, Roles
  <2>4. sent' \in [Browsers -> Seq({"join", "leave"})] /\ inbox' \in [Browsers -> Seq(Messages)] /\ tab' = tab
    BY <1>3 DEF BoardRestart, Typed
  <2>5. session' \in 1..MaxSessions
    BY <1>3, BoardAssumption DEF BoardRestart, Typed
  <2> QED BY <2>2, <2>3, <2>4, <2>5 DEF Typed
<1>4. CASE UNCHANGED boardVars
  BY <1>4 DEF boardVars, Typed, Drawn, BoardBounded
<1> QED BY <1>1, <1>2, <1>3, <1>4, DrawTyped, TabTyped, GatewayTyped DEF BoardNext

\* The live drawing keeps its limits and its byte count is what it holds, for any
\* drawings, limits and number of browsers: handleElementAdd, handleElementRemove,
\* handleClear and handleReplace lose no byte and count none twice, also when several
\* elements have one id.
THEOREM BoardCountsItsBytes == BoardSpec => [](BoardTypeOK /\ BoardBounded)
<1>1. Typed => BoardTypeOK /\ BoardBounded
  <2> SUFFICES ASSUME Typed PROVE BoardTypeOK /\ BoardBounded
    OBVIOUS
  <2>1. board.elements \in Drawings
    <3>1. board.elements \in Seq(Strokes) /\ Len(board.elements) <= MaxElements
      BY DEF Typed, Drawn, BoardBounded
    <3>2. board.elements \in [1..Len(board.elements) -> Strokes] /\ Len(board.elements) \in 0..MaxElements
      BY <3>1, BoardAssumption
    <3> QED BY <3>2 DEF Drawings
  <2>2. board \in [elements : Drawings, bytes : Nat, background : Backgrounds]
    BY <2>1 DEF Typed, Drawn
  <2>3. \A b \in Browsers : \A i \in DOMAIN sent[b] : sent[b][i] \in {"join", "leave"}
    BY DEF Typed
  <2> QED BY <2>2, <2>3 DEF Typed, Drawn, BoardTypeOK
<1>2. BoardSpec => []Typed
  BY TypedStart, TypedStep, PTL DEF BoardSpec
<1> QED BY <1>1, <1>2, PTL

-----------------------------------------------------------------------------
(* What a tab becomes as the events on their way arrive.                    *)

Handles(f, b, t, ms) ==
    /\ f \in [0..Len(ms) -> Tabs] /\ f[0] = t
    /\ \A i \in 1..Len(ms) : f[i] = Handle(b, f[i-1], ms[i])
    /\ \A i \in 0..Len(ms) : f[i].open = t.open

LEMMA AfterFunction ==
    ASSUME NEW b \in Browsers, NEW t \in Tabs, NEW ms \in Seq(Messages)
    PROVE  \E f : Handles(f, b, t, ms) /\ After(b, t, ms) = f[Len(ms)]
<1> DEFINE step == [i \in 1..Len(ms) |-> [u \in Tabs |-> Handle(b, u, ms[i])]]
           f == CHOOSE g : g = [i \in 0..Len(ms) |-> IF i = 0 THEN t ELSE Handle(b, g[i-1], ms[i])]
           P == {i \in 0..Len(ms) : f[i] \in Tabs /\ f[i].open = t.open}
<1>1. Len(ms) \in Nat /\ \A i \in 1..Len(ms) : ms[i] \in Messages
  OBVIOUS
<1>2. \A i \in 1..Len(ms), u \in Tabs : Handle(b, u, ms[i]) \in Tabs /\ Handle(b, u, ms[i]).open = u.open
  BY <1>1, HandleTyped
<1>3. After(b, t, ms) = f[Len(ms)]
  BY DEF After
<1>4. Steps(step, Len(ms), Tabs) /\ \A i \in 1..Len(ms), u \in Tabs : step[i][u] = Handle(b, u, ms[i])
  BY <1>2 DEF Steps
<1> HIDE DEF step
<1>5. PICK g : Iterates(g, Len(ms), Tabs, t, step)
  BY <1>1, <1>4, Recursion
<1>6. g = [i \in 0..Len(ms) |-> IF i = 0 THEN t ELSE Handle(b, g[i-1], ms[i])]
  <2>1. ASSUME NEW i \in 1..Len(ms) PROVE g[i] = Handle(b, g[i-1], ms[i])
    <3>1. g[i-1] \in Tabs /\ g[i] = step[i][g[i-1]]
      BY <1>1, <1>5 DEF Iterates
    <3> QED BY <1>4, <3>1
  <2> QED BY <1>1, <1>5, <2>1 DEF Iterates
<1>7. f = [i \in 0..Len(ms) |-> IF i = 0 THEN t ELSE Handle(b, f[i-1], ms[i])]
  BY <1>6
<1> HIDE DEF f
<1>8. f[0] = t /\ \A i \in 1..Len(ms) : f[i] = Handle(b, f[i-1], ms[i])
  BY <1>1, <1>7
<1>9. 0 \in P /\ \A n \in 0..(Len(ms)-1) : n \in P => n + 1 \in P
  <2>1. ASSUME NEW n \in 0..(Len(ms)-1), f[n] \in Tabs, f[n].open = t.open
        PROVE  n + 1 \in 0..Len(ms) /\ f[n+1] \in Tabs /\ f[n+1].open = t.open
    <3>1. n + 1 \in 1..Len(ms) /\ (n + 1) - 1 = n
      BY <1>1
    <3>2. f[n+1] = Handle(b, f[n], ms[n+1])
      BY <1>8, <3>1
    <3> QED BY <1>1, <1>2, <2>1, <3>1, <3>2
  <2> QED BY <1>1, <1>8, <2>1
<1>10. \A n \in 0..Len(ms) : n \in P
  <2> HIDE DEF P
  <2> QED BY <1>1, <1>9, UpTo
<1>11. f \in [0..Len(ms) -> Tabs]
  BY <1>1, <1>7, <1>10
<1> QED BY <1>3, <1>8, <1>10, <1>11 DEF Handles

\* A run over the events of a tab is what the tab becomes.
LEMMA AfterRun ==
    ASSUME NEW b \in Browsers, NEW t \in Tabs, NEW ms \in Seq(Messages), NEW g, Handles(g, b, t, ms)
    PROVE  After(b, t, ms) = g[Len(ms)]
<1>1. PICK f : Handles(f, b, t, ms) /\ After(b, t, ms) = f[Len(ms)]
  BY AfterFunction
<1>2. Len(ms) \in Nat
  OBVIOUS
<1> DEFINE P == {i \in 0..Len(ms) : g[i] = f[i]}
<1>3. 0 \in P /\ \A n \in 0..(Len(ms)-1) : n \in P => n + 1 \in P
  <2>1. ASSUME NEW n \in 0..(Len(ms)-1), g[n] = f[n] PROVE n + 1 \in 0..Len(ms) /\ g[n+1] = f[n+1]
    <3>1. n + 1 \in 1..Len(ms) /\ (n + 1) - 1 = n
      BY <1>2
    <3> QED BY <1>1, <1>2, <2>1, <3>1 DEF Handles
  <2> QED BY <1>1, <1>2, <2>1 DEF Handles
<1>4. \A n \in 0..Len(ms) : n \in P
  <2> HIDE DEF P
  <2> QED BY <1>2, <1>3, UpTo
<1> QED BY <1>1, <1>2, <1>4

LEMMA AfterTyped ==
    ASSUME NEW b \in Browsers, NEW t \in Tabs, NEW ms \in Seq(Messages)
    PROVE  After(b, t, ms) \in Tabs /\ After(b, t, ms).open = t.open
<1>1. PICK f : Handles(f, b, t, ms) /\ After(b, t, ms) = f[Len(ms)]
  BY AfterFunction
<1>2. Len(ms) \in 0..Len(ms)
  OBVIOUS
<1> QED BY <1>1, <1>2 DEF Handles

LEMMA AfterAppend ==
    ASSUME NEW b \in Browsers, NEW t \in Tabs, NEW ms \in Seq(Messages), NEW m \in Messages
    PROVE  After(b, t, Append(ms, m)) = Handle(b, After(b, t, ms), m)
<1> DEFINE ns == Append(ms, m)
<1>1. PICK f : Handles(f, b, t, ms) /\ After(b, t, ms) = f[Len(ms)]
  BY AfterFunction
<1>2. ns \in Seq(Messages) /\ Len(ms) \in Nat /\ Len(ns) = Len(ms) + 1 /\ ns[Len(ns)] = m
      /\ \A i \in 1..Len(ms) : ns[i] = ms[i]
  OBVIOUS
<1> HIDE DEF ns
<1> DEFINE last == Handle(b, f[Len(ms)], m)
           g == [i \in 0..Len(ns) |-> IF i = Len(ns) THEN last ELSE f[i]]
<1>3. last \in Tabs /\ last.open = t.open
  <2>1. f[Len(ms)] \in Tabs /\ f[Len(ms)].open = t.open
    BY <1>1, <1>2 DEF Handles
  <2>2. Handle(b, f[Len(ms)], m) \in Tabs /\ Handle(b, f[Len(ms)], m).open = f[Len(ms)].open
    BY <2>1, HandleTyped
  <2> QED BY <2>1, <2>2
<1>4. last = Handle(b, f[Len(ms)], m)
  OBVIOUS
<1> HIDE DEF last
<1>5. Handles(g, b, t, ns)
  <2>1. g \in [0..Len(ns) -> Tabs] /\ g[0] = t /\ \A i \in 0..Len(ns) : g[i].open = t.open
    BY <1>1, <1>2, <1>3 DEF Handles
  <2>2. ASSUME NEW i \in 1..Len(ns) PROVE g[i] = Handle(b, g[i-1], ns[i])
    <3>1. CASE i = Len(ns)
      BY <1>2, <1>4, <3>1
    <3>2. CASE i # Len(ns)
      <4>1. i \in 1..Len(ms) /\ g[i] = f[i] /\ g[i-1] = f[i-1] /\ ns[i] = ms[i]
        BY <1>2, <3>2
      <4> QED BY <1>1, <4>1 DEF Handles
    <3> QED BY <3>1, <3>2
  <2> QED BY <2>1, <2>2 DEF Handles
<1>6. g[Len(ns)] = last
  BY <1>2
<1> HIDE DEF g
<1>7. After(b, t, ns) = last
  BY <1>2, <1>5, <1>6, AfterRun
<1> QED BY <1>1, <1>4, <1>7 DEF ns

LEMMA AfterTail ==
    ASSUME NEW b \in Browsers, NEW t \in Tabs, NEW ms \in Seq(Messages), ms # <<>>
    PROVE  After(b, t, ms) = After(b, Handle(b, t, Head(ms)), Tail(ms))
<1> DEFINE ns == Tail(ms)
           u == Handle(b, t, Head(ms))
<1>1. PICK f : Handles(f, b, t, ms) /\ After(b, t, ms) = f[Len(ms)]
  BY AfterFunction
<1>2. /\ ns \in Seq(Messages) /\ Len(ms) \in Nat \ {0} /\ Len(ns) = Len(ms) - 1 /\ Head(ms) = ms[1] /\ Head(ms) \in Messages
      /\ \A i \in 1..Len(ns) : ns[i] = ms[i+1]
  BY FirstAndRest
<1>3. u \in Tabs /\ u.open = t.open /\ u = Handle(b, t, ms[1])
  BY <1>2, HandleTyped
<1> HIDE DEF ns, u
<1> DEFINE g == [i \in 0..Len(ns) |-> f[i+1]]
<1>4. Handles(g, b, u, ns)
  <2>1. \A i \in 0..Len(ns) : i + 1 \in 1..Len(ms) /\ i + 1 \in 0..Len(ms)
    BY <1>2
  <2>2. g \in [0..Len(ns) -> Tabs] /\ \A i \in 0..Len(ns) : g[i].open = u.open
    BY <1>1, <1>3, <2>1 DEF Handles
  <2>3. g[0] = u
    BY <1>1, <1>2, <1>3 DEF Handles
  <2>4. ASSUME NEW i \in 1..Len(ns) PROVE g[i] = Handle(b, g[i-1], ns[i])
    <3>1. i + 1 \in 1..Len(ms) /\ (i + 1) - 1 = i /\ g[i] = f[i+1] /\ g[i-1] = f[i] /\ ns[i] = ms[i+1]
      BY <1>2
    <3>2. f[i+1] = Handle(b, f[(i+1)-1], ms[i+1])
      BY <1>1, <3>1 DEF Handles
    <3> QED BY <3>1, <3>2
  <2> QED BY <2>2, <2>3, <2>4 DEF Handles
<1>5. g[Len(ns)] = f[Len(ms)]
  BY <1>2
<1> HIDE DEF g
<1>6. After(b, u, ns) = f[Len(ms)]
  BY <1>2, <1>3, <1>4, <1>5, AfterRun
<1> QED BY <1>1, <1>6 DEF ns, u

\* Two open tabs that take over one snapshot are alike.
LEMMA AlikeAfter ==
    ASSUME NEW O, NEW E, NEW B, NEW W, NEW N,
           NEW t \in [open : O, elements : E, background : B, who : W, canDraw : O, session : N],
           NEW u \in [open : O, elements : E, background : B, who : W, canDraw : O, session : N],
           t.open = u.open, NEW es \in E, NEW bg \in B, NEW who \in W, NEW may \in O, NEW s \in N
    PROVE  [t EXCEPT !.elements = es, !.background = bg, !.who = who, !.canDraw = may, !.session = s]
         = [u EXCEPT !.elements = es, !.background = bg, !.who = who, !.canDraw = may, !.session = s]
  OBVIOUS

\* Only a snapshot sets the session, and it sets all a tab shows.
LEMMA SessionSet ==
    ASSUME NEW b \in Browsers, NEW t \in Tabs, NEW u \in Tabs, NEW m \in Messages,
           t.open, u.open, t.session = 0, Handle(b, t, m).session # 0
    PROVE  Handle(b, u, m) = Handle(b, t, m)
<1>1. CASE m \in States
  <2>1. Handle(b, t, m) = HandleState(t, m) /\ Handle(b, u, m) = HandleState(u, m)
    BY <1>1 DEF Handle, States
  <2>2. t.open = u.open /\ m.elements \in Seq(Strokes) /\ m.background \in Backgrounds /\ m.who \in [Browsers -> Roles]
        /\ m.session \in Nat
    BY <1>1 DEF States
  <2>3. m.canDraw \in BOOLEAN
    BY <1>1 DEF States
  <2>4. HandleState(t, m) = HandleState(u, m)
    BY <2>2, <2>3, AlikeAfter, Zenon DEF HandleState, Tabs
  <2> QED BY <2>1, <2>4
<1>2. CASE m \in Presences
  BY <1>2 DEF Handle, Presences, HandlePresence, Tabs
<1>3. CASE m \in Additions
  BY <1>3 DEF Handle, Additions, HandleAdd, Tabs
<1>4. CASE m \in Removals
  BY <1>4 DEF Handle, Removals, HandleRemove, Tabs
<1>5. CASE m \in Clearings \cup Changes
  BY <1>5 DEF Handle, Clearings, Changes, Tabs
<1>6. CASE m \in Replacements
  BY <1>6 DEF Handle, Replacements, HandleBoardReplace, Tabs
<1> QED BY <1>1, <1>2, <1>3, <1>4, <1>5, <1>6 DEF Messages, Edits

\* Where a fresh tab has a session, the events on their way hold a snapshot, and
\* every open tab ends up as that one.
LEMMA Meets ==
    ASSUME NEW b \in Browsers, NEW t \in Tabs, NEW u \in Tabs, NEW ms \in Seq(Messages),
           t.open, u.open, t.session = 0, After(b, t, ms).session # 0
    PROVE  After(b, u, ms) = After(b, t, ms)
<1>1. PICK f : Handles(f, b, t, ms) /\ After(b, t, ms) = f[Len(ms)]
  BY AfterFunction
<1>2. PICK g : Handles(g, b, u, ms) /\ After(b, u, ms) = g[Len(ms)]
  BY AfterFunction
<1>3. Len(ms) \in Nat /\ \A i \in 1..Len(ms) : ms[i] \in Messages
  OBVIOUS
<1> DEFINE P == {i \in 0..Len(ms) : f[i].session # 0 => g[i] = f[i]}
<1>4. 0 \in P
  BY <1>1, <1>3 DEF Handles
<1>5. ASSUME NEW n \in 0..(Len(ms)-1), n \in P PROVE n + 1 \in P
  <2>1. n + 1 \in 1..Len(ms) /\ n + 1 \in 0..Len(ms) /\ n \in 0..Len(ms) /\ (n + 1) - 1 = n
    BY <1>3
  <2>2. f[n+1] = Handle(b, f[n], ms[n+1]) /\ g[n+1] = Handle(b, g[n], ms[n+1])
    BY <1>1, <1>2, <2>1 DEF Handles
  <2>3. f[n] \in Tabs /\ g[n] \in Tabs /\ f[n].open /\ g[n].open /\ ms[n+1] \in Messages
    BY <1>1, <1>2, <1>3, <2>1 DEF Handles
  <2>4. CASE f[n].session # 0
    BY <1>5, <2>1, <2>2, <2>4
  <2>5. CASE f[n].session = 0
    <3>1. f[n+1].session # 0 => g[n+1] = f[n+1]
      BY <2>2, <2>3, <2>5, SessionSet
    <3> QED BY <2>1, <3>1
  <2> QED BY <2>4, <2>5
<1>6. \A n \in 0..Len(ms) : n \in P
  <2> HIDE DEF P
  <2> QED BY <1>3, <1>4, <1>5, UpTo
<1> QED BY <1>1, <1>2, <1>3, <1>6

-----------------------------------------------------------------------------
(* What a tab on the board will show.                                       *)

\* What the tab will be once the events on their way have arrived: if it has a
\* session by then, it shows the live drawing, and with no presence broadcast
\* pending who is on the board.
Shows(b, t) ==
    LET u == After(b, t, inbox[b]) IN
    t.open /\ u.session # 0 =>
        /\ u.elements = board.elements /\ u.background = board.background /\ u.session = session
        /\ ~armed => u.who = participants /\ (u.canDraw <=> participants[b] = "drawer")

\* So it is with the tab as it is, and with one opened anew before they arrive.
WillShow == \A b \in Browsers : participants[b] # "out" => Shows(b, tab[b]) /\ Shows(b, MountedTab)

LEMMA MountedTyped == MountedTab \in Tabs /\ MountedTab.open /\ MountedTab.session = 0 /\ ClosedTab \in Tabs /\ ~ClosedTab.open
<1>1. NoOne \in [Browsers -> Roles] /\ <<>> \in Seq(Strokes) /\ Grid \in Backgrounds
  BY DEF NoOne, Roles, Backgrounds
<1> QED BY <1>1 DEF ClosedTab, MountedTab, Tabs

\* What an edit does to a tab: nothing but to its drawing.
LEMMA EditHandled ==
    ASSUME NEW b \in Browsers, NEW t \in Tabs, NEW m \in Edits, t.open
    PROVE  LET u == Handle(b, t, m) IN
           u.session = t.session /\ u.who = t.who /\ (u.canDraw <=> t.canDraw)
<1>1. CASE m \in Additions
  BY <1>1 DEF Handle, Additions, HandleAdd, Tabs
<1>2. CASE m \in Removals
  BY <1>2 DEF Handle, Removals, HandleRemove, Tabs
<1>3. CASE m \in Clearings \cup Changes
  BY <1>3 DEF Handle, Clearings, Changes, Tabs
<1>4. CASE m \in Replacements
  BY <1>4 DEF Handle, Replacements, HandleBoardReplace, Tabs
<1> QED BY <1>1, <1>2, <1>3, <1>4 DEF Edits

\* A tab that shows the drawing before the edit and handles the event shows it after.
Redraws(m) ==
    \A b \in Browsers, t \in Tabs :
        t.open /\ t.elements = board.elements /\ t.background = board.background =>
            LET u == Handle(b, t, m) IN u.elements = board'.elements /\ u.background = board'.background

LEMMA DrawRedraws ==
    ASSUME Drawn, NEW b \in Browsers, Draw(b)
    PROVE  \E m : DrawsAs(m) /\ Redraws(m)
<1>1. ASSUME NEW e \in Strokes, HandleElementAdd(b, e) PROVE \E m : DrawsAs(m) /\ Redraws(m)
  <2> DEFINE m == [type |-> "add", element |-> e]
  <2>1. /\ DrawsAs(m) /\ board'.elements = Append(board.elements, e) /\ board'.background = board.background
        /\ Len(board.elements) < MaxElements
    BY <1>1, Added
  <2>2. Append(board.elements, e) \in Seq(Strokes) /\ Len(Append(board.elements, e)) <= MaxElements
    BY <2>1, BoardAssumption DEF Drawn
  <2>3. LastOf(MaxElements, Append(board.elements, e)) = Append(board.elements, e)
    BY <2>2, LastTyped
  <2>4. ASSUME NEW c \in Browsers, NEW t \in Tabs, t.open, t.elements = board.elements, t.background = board.background
        PROVE  Handle(c, t, m).elements = board'.elements /\ Handle(c, t, m).background = board'.background
    <3>1. Handle(c, t, m) = HandleAdd(t, m) /\ m.element = e
      BY <2>4 DEF Handle
    <3> HIDE DEF m
    <3> QED BY <2>1, <2>3, <2>4, <3>1 DEF HandleAdd, Tabs
  <2>5. Redraws(m)
    <3> HIDE DEF m
    <3> QED BY <2>4 DEF Redraws
  <2> QED BY <2>1, <2>5
<1>2. ASSUME NEW e \in Strokes, HandleElementRemove(b, e.id) PROVE \E m : DrawsAs(m) /\ Redraws(m)
  <2> DEFINE m == [type |-> "remove", id |-> e.id]
  <2>1. DrawsAs(m) /\ board'.elements = WithoutId(board.elements, e.id) /\ board'.background = board.background
    BY <1>2, TakenOut
  <2>2. ASSUME NEW c \in Browsers, NEW t \in Tabs, t.open, t.elements = board.elements, t.background = board.background
        PROVE  Handle(c, t, m).elements = board'.elements /\ Handle(c, t, m).background = board'.background
    <3>1. Handle(c, t, m) = HandleRemove(t, m) /\ m.id = e.id
      BY <2>2 DEF Handle
    <3> HIDE DEF m
    <3> QED BY <2>1, <2>2, <3>1 DEF HandleRemove, Tabs
  <2>3. Redraws(m)
    <3> HIDE DEF m
    <3> QED BY <2>2 DEF Redraws
  <2> QED BY <2>1, <2>3
<1>3. ASSUME HandleClear(b) PROVE \E m : DrawsAs(m) /\ Redraws(m)
  <2> DEFINE m == [type |-> "clear"]
  <2>1. DrawsAs(m) /\ board'.elements = <<>> /\ board'.background = board.background
    BY <1>3, Cleared
  <2>2. Redraws(m)
    BY <2>1 DEF Redraws, Handle, Tabs
  <2> QED BY <2>1, <2>2
<1>4. ASSUME NEW bg \in Backgrounds, HandleBackgroundUpdate(b, bg) PROVE \E m : DrawsAs(m) /\ Redraws(m)
  <2> DEFINE m == [type |-> "background", background |-> bg]
  <2>1. DrawsAs(m) /\ board'.elements = board.elements /\ board'.background = bg
    BY <1>4, BackgroundSet
  <2>2. Redraws(m)
    BY <2>1 DEF Redraws, Handle, Tabs
  <2> QED BY <2>1, <2>2
<1>5. ASSUME NEW bg \in Backgrounds, NEW es \in ValidElements, HandleReplace(b, es, bg)
      PROVE  \E m : DrawsAs(m) /\ Redraws(m)
  <2> DEFINE m == [type |-> "replace", elements |-> es, background |-> bg]
  <2>1. DrawsAs(m) /\ board'.elements = es /\ board'.background = bg
    BY <1>5, Replaced
  <2>2. Redraws(m)
    BY <2>1 DEF Redraws, Handle, HandleBoardReplace, Tabs
  <2> QED BY <2>1, <2>2
<1> QED BY <1>1, <1>2, <1>3, <1>4, <1>5 DEF Draw

\* What an edit leaves a tab on the board showing.
LEMMA DrawShows ==
    ASSUME Typed, NEW c \in Browsers, Draw(c), NEW b \in Browsers, NEW t \in Tabs,
           participants[b] # "out", Shows(b, t)
    PROVE  Shows(b, t)'
<1>1. PICK m : DrawsAs(m) /\ Redraws(m)
  BY DrawRedraws DEF Typed
<1>2. m \in Messages /\ m \in Edits /\ inbox'[b] = Append(inbox[b], m) /\ inbox[b] \in Seq(Messages)
      /\ session' = session /\ armed' = armed /\ participants' = participants
  BY <1>1, BroadcastTyped DEF DrawsAs, Messages, notDrawing, Typed
<1> DEFINE u == After(b, t, inbox[b])
           v == Handle(b, u, m)
<1>3. After(b, t, inbox'[b]) = v
  BY <1>2, AfterAppend
<1>4. u \in Tabs /\ u.open = t.open
  BY <1>2, AfterTyped
<1>5. t.open => v.session = u.session /\ v.who = u.who /\ (v.canDraw <=> u.canDraw)
  <2> HIDE DEF u
  <2> QED BY <1>2, <1>4, EditHandled
<1>6. t.open /\ u.elements = board.elements /\ u.background = board.background =>
        v.elements = board'.elements /\ v.background = board'.background
  <2> HIDE DEF u
  <2> QED BY <1>1, <1>4 DEF Redraws
<1>7. t.open /\ u.session # 0 =>
        /\ u.elements = board.elements /\ u.background = board.background /\ u.session = session
        /\ ~armed => u.who = participants /\ (u.canDraw <=> participants[b] = "drawer")
  BY DEF Shows
<1> HIDE DEF u, v
<1>8. t.open /\ v.session # 0 =>
        /\ v.elements = board'.elements /\ v.background = board'.background /\ v.session = session'
        /\ ~armed' => v.who = participants' /\ (v.canDraw <=> participants'[b] = "drawer")
  BY <1>2, <1>5, <1>6, <1>7
<1> QED BY <1>3, <1>8 DEF Shows

\* What the snapshot of a join makes any tab show.
LEMMA JoinShows ==
    ASSUME Typed, NEW b \in Browsers, Join(b), UNCHANGED <<board, session>>, NEW t \in Tabs
    PROVE  Shows(b, t)'
<1> DEFINE m == SnapshotFor(b, participants')
           u == After(b, t, inbox[b])
<1>1. inbox \in [Browsers -> Seq(Messages)] /\ inbox[b] \in Seq(Messages)
  BY DEF Typed
<1>2. m \in States /\ m \in Messages /\ armed' /\ inbox'[b] = Append(inbox[b], m)
  BY <1>1, JoinTyped DEF Messages
<1>3. m.elements = board.elements /\ m.background = board.background /\ m.session = session /\ m.type = "state"
  BY DEF SnapshotFor
<1> HIDE DEF m
<1>4. After(b, t, inbox'[b]) = Handle(b, u, m)
  BY <1>1, <1>2, AfterAppend
<1>5. u \in Tabs /\ u.open = t.open
  BY <1>1, AfterTyped
<1> HIDE DEF u
<1>6. t.open => /\ Handle(b, u, m).elements = board.elements /\ Handle(b, u, m).background = board.background
                /\ Handle(b, u, m).session = session
  BY <1>3, <1>5 DEF Handle, HandleState, Tabs
<1> QED BY <1>2, <1>4, <1>6 DEF Shows

\* What the broadcast of the presence timer makes a tab on the board show.
LEMMA PresenceShows ==
    ASSUME Typed, PresenceFires, NEW b \in Browsers, NEW t \in Tabs, participants[b] # "out", Shows(b, t)
    PROVE  Shows(b, t)'
<1> DEFINE m == [type |-> "presence", who |-> participants]
           u == After(b, t, inbox[b])
           v == Handle(b, u, m)
<1>1. inbox \in [Browsers -> Seq(Messages)] /\ inbox[b] \in Seq(Messages)
  BY DEF Typed
<1>2. m \in Messages /\ m.who = participants /\ m.type = "presence"
  BY DEF Typed, Presences, Messages
<1>3. inbox'[b] = Append(inbox[b], m) /\ UNCHANGED <<board, participants, session>>
  BY <1>1, <1>2, BroadcastTyped DEF PresenceFires
<1> HIDE DEF m
<1>4. After(b, t, inbox'[b]) = v
  BY <1>1, <1>2, <1>3, AfterAppend
<1>5. u \in Tabs /\ u.open = t.open
  BY <1>1, AfterTyped
<1>6. t.open /\ u.session # 0 => u.elements = board.elements /\ u.background = board.background /\ u.session = session
  BY DEF Shows
<1> HIDE DEF u
<1>7. t.open => /\ v.elements = u.elements /\ v.background = u.background /\ v.session = u.session
                /\ v.who = participants /\ (v.canDraw <=> participants[b] = "drawer")
  <2>1. t.open => v = HandlePresence(b, u, m)
    BY <1>2, <1>5 DEF Handle
  <2> HIDE DEF v
  <2> QED BY <1>2, <1>5, <2>1 DEF HandlePresence, Tabs
<1> HIDE DEF v
<1> QED BY <1>3, <1>4, <1>6, <1>7 DEF Shows

\* An event that arrives was already counted in, for the tab it arrives at and,
\* as all open tabs end up as one without a session would, for one opened after it.
LEMMA DeliverShows ==
    ASSUME Typed, NEW b \in Browsers, Deliver(b), Shows(b, tab[b]), Shows(b, MountedTab)
    PROVE  Shows(b, tab[b])' /\ Shows(b, MountedTab)'
<1> DEFINE m == Head(inbox[b])
           ms == Tail(inbox[b])
           v == Handle(b, tab[b], m)
           w == Handle(b, MountedTab, m)
<1>1. inbox[b] \in Seq(Messages) /\ tab[b] \in Tabs /\ inbox[b] # <<>>
  BY DEF Typed, Deliver
<1>2. m \in Messages /\ ms \in Seq(Messages)
  BY <1>1, FirstAndRest
<1>3. /\ tab'[b] = v /\ inbox'[b] = ms
      /\ UNCHANGED <<board, participants, armed, session>>
  BY DEF Deliver, Typed
<1>4. v \in Tabs /\ v.open = tab[b].open /\ w \in Tabs /\ w.open
  BY <1>1, <1>2, MountedTyped, HandleTyped
<1>5. After(b, tab[b], inbox[b]) = After(b, v, ms) /\ After(b, MountedTab, inbox[b]) = After(b, w, ms)
  BY <1>1, MountedTyped, AfterTail
<1> HIDE DEF m, ms, v, w
<1>6. Shows(b, tab[b])'
  BY <1>3, <1>4, <1>5 DEF Shows
<1>7. ASSUME After(b, MountedTab, ms).session # 0 PROVE After(b, MountedTab, ms) = After(b, w, ms)
  BY <1>2, <1>4, <1>7, MountedTyped, Meets
<1>8. Shows(b, MountedTab)'
  <2>1. After(b, MountedTab, ms).session # 0 => After(b, MountedTab, ms) = After(b, MountedTab, inbox[b])
    BY <1>5, <1>7
  <2>2. MountedTab' = MountedTab
    BY DEF MountedTab, ClosedTab, NoOne
  <2> QED BY <1>3, <2>1, <2>2, MountedTyped DEF Shows
<1> QED BY <1>6, <1>8

\* A step that changes nothing of what a tab shows, or only who is on the board
\* with the presence timer set.
LEMMA StillShows ==
    ASSUME NEW b \in Browsers, NEW t, Shows(b, t), UNCHANGED <<board, session>>, inbox'[b] = inbox[b],
           armed' \/ UNCHANGED <<armed, participants>>
    PROVE  Shows(b, t)'
BY DEF Shows

LEMMA WillShowStart == BoardInit => WillShow
  BY DEF BoardInit, NoOne, WillShow

\* A step of one browser, and what it does to the tabs of all.
LEMMA WillShowStep == Typed /\ WillShow /\ [BoardNext]_boardVars => WillShow'
<1> SUFFICES ASSUME Typed, WillShow, [BoardNext]_boardVars, NEW b \in Browsers, participants'[b] # "out"
             PROVE  Shows(b, tab[b])' /\ Shows(b, MountedTab)'
  BY DEF WillShow
<1> PICK t : t = tab[b] /\ t \in Tabs
  BY DEF Typed
<1>1. participants[b] # "out" => Shows(b, t) /\ Shows(b, MountedTab)
  BY DEF WillShow
<1>2. \* Nothing of what the tabs of b show changes.
      ASSUME participants[b] # "out", UNCHANGED <<board, session>>, inbox'[b] = inbox[b],
             armed' \/ UNCHANGED <<armed, participants>>, tab'[b] = t \/ tab'[b] = MountedTab \/ ~tab'[b].open
      PROVE  Shows(b, tab[b])' /\ Shows(b, MountedTab)'
  <2>1. Shows(b, t)' /\ Shows(b, MountedTab)'
    BY <1>1, <1>2, StillShows DEF Shows, MountedTab, ClosedTab, NoOne
  <2> QED BY <1>2, <2>1 DEF Shows
<1>3. ASSUME NEW c \in Browsers, Draw(c) PROVE Shows(b, tab[b])' /\ Shows(b, MountedTab)'
  <2>1. participants' = participants /\ tab' = tab
    <3>1. PICK m : DrawsAs(m)
      BY <1>3, DrawRedraws DEF Typed
    <3> QED BY <3>1 DEF DrawsAs, notDrawing
  <2>2. Shows(b, t)' /\ Shows(b, MountedTab)'
    BY <1>1, <1>3, <2>1, MountedTyped, DrawShows
  <2> QED BY <2>1, <2>2 DEF Shows
<1>4. ASSUME NEW c \in Browsers, NEW p \in Browsers, NEW canDraw \in BOOLEAN, HandlePermissionUpdate(c, p, canDraw)
      PROVE  Shows(b, tab[b])' /\ Shows(b, MountedTab)'
  <2>1. /\ UNCHANGED <<board, session, inbox, tab>> /\ armed' /\ participants[p] # "out"
        /\ \A q \in Browsers : q # p => participants'[q] = participants[q]
    BY <1>4 DEF HandlePermissionUpdate, Typed
  <2>2. participants[b] # "out"
    BY <2>1
  <2> QED BY <1>2, <2>1, <2>2
<1>5. ASSUME NEW c \in Browsers, OpenTab(c) \/ CloseTab(c) \/ Connect(c) \/ HandleChatOpen(c)
      PROVE  Shows(b, tab[b])' /\ Shows(b, MountedTab)'
  <2>1. UNCHANGED <<board, session, inbox, participants>> /\ (armed' \/ armed' = armed)
    BY <1>5 DEF OpenTab, CloseTab, Connect, HandleChatOpen
  <2>2. tab'[b] = t \/ tab'[b] = MountedTab \/ ~tab'[b].open
    BY <1>5, MountedTyped DEF OpenTab, CloseTab, Connect, HandleChatOpen, Typed
  <2> QED BY <1>2, <2>1, <2>2
<1>6. ASSUME NEW c \in Browsers, Deliver(c) PROVE Shows(b, tab[b])' /\ Shows(b, MountedTab)'
  <2>1. UNCHANGED <<board, participants, joining, armed, session, link, sent>>
    BY <1>6 DEF Deliver
  <2>2. CASE c = b
    BY <1>6, <2>1, <2>2, DeliverShows DEF WillShow
  <2>3. CASE c # b
    <3>1. inbox'[b] = inbox[b] /\ tab'[b] = t
      BY <1>6, <2>3 DEF Deliver, Typed
    <3> QED BY <1>2, <2>1, <3>1
  <2> QED BY <2>2, <2>3
<1>7. ASSUME NEW c \in Browsers, Join(c), UNCHANGED <<board, session, tab>>
      PROVE  Shows(b, tab[b])' /\ Shows(b, MountedTab)'
  <2>1. CASE c = b
    <3>1. Shows(b, t)' /\ Shows(b, MountedTab)'
      BY <1>7, <2>1, JoinShows, MountedTyped DEF Shows, MountedTab, ClosedTab, NoOne
    <3> QED BY <1>7, <3>1 DEF Shows
  <2>2. CASE c # b
    <3>1. armed' /\ inbox'[b] = inbox[b] /\ participants'[b] = participants[b]
      BY <1>7, <2>2 DEF Join, Typed
    <3> QED BY <1>2, <1>7, <3>1
  <2> QED BY <2>1, <2>2
<1>8. ASSUME NEW c \in Browsers, LookedUp(c) \/ Receive(c)
      PROVE  Shows(b, tab[b])' /\ Shows(b, MountedTab)'
  <2>1. UNCHANGED <<board, session, tab>>
    BY <1>8 DEF LookedUp, Receive, HandleJoin, HandleLeave, RateLimited, Received
  <2>2. CASE Join(c)
    BY <1>7, <2>1, <2>2
  <2>3. CASE ~Join(c) /\ ~HandleLeave(c)
    <3>1. UNCHANGED <<participants, inbox, armed>>
      BY <1>8, <2>3 DEF LookedUp, Receive, HandleJoin, RateLimited
    <3> QED BY <1>2, <2>1, <3>1
  <2>4. CASE HandleLeave(c)
    <3>1. inbox' = inbox /\ participants' = [participants EXCEPT ![c] = "out"] /\ armed' = (armed \/ participants[c] # "out")
      BY <2>4 DEF HandleLeave
    <3>2. participants[b] # "out" /\ (armed' \/ UNCHANGED <<armed, participants>>)
      BY <3>1 DEF Typed
    <3> QED BY <1>2, <2>1, <3>1, <3>2
  <2> QED BY <2>2, <2>3, <2>4
<1>9. ASSUME NEW c \in Browsers, Drop(c) PROVE Shows(b, tab[b])' /\ Shows(b, MountedTab)'
  <2>1. /\ UNCHANGED <<board, session, tab>> /\ participants' = [participants EXCEPT ![c] = "out"]
        /\ armed' = (armed \/ participants[c] # "out") /\ inbox' = [inbox EXCEPT ![c] = <<>>]
    BY <1>9 DEF Drop
  <2>2. c # b
    BY <2>1 DEF Typed
  <2>3. participants[b] # "out" /\ (armed' \/ UNCHANGED <<armed, participants>>) /\ inbox'[b] = inbox[b]
    BY <2>1, <2>2 DEF Typed
  <2> QED BY <1>2, <2>1, <2>3
<1>10. CASE PresenceFires
  <2>1. participants' = participants /\ tab' = tab
    BY <1>10 DEF PresenceFires
  <2>2. Shows(b, t)' /\ Shows(b, MountedTab)'
    BY <1>1, <1>10, <2>1, MountedTyped, PresenceShows
  <2> QED BY <2>1, <2>2 DEF Shows
<1>11. CASE BoardRestart
  BY <1>11 DEF BoardRestart, NoOne
<1>12. CASE UNCHANGED boardVars
  BY <1>2, <1>12 DEF boardVars
<1> QED BY <1>3, <1>4, <1>5, <1>6, <1>8, <1>9, <1>10, <1>11, <1>12 DEF BoardNext

\* A tab on the board loses no edit, and with no presence broadcast pending it is
\* about to show who is on the board and whether it may draw: for any number of
\* browsers, drawings, restarts and events on their way, however joins, leaves,
\* edits and broken connections interleave.  What decides it is that handleJoin
\* sends the snapshot from within the room it has just entered, that every edit
\* goes to the whole room, and that the hook's handlers repeat the edit.
THEOREM TabsFollow == BoardSpec => [](ReplicaFollows /\ PresenceFollows)
<1>1. Typed /\ WillShow => ReplicaFollows /\ PresenceFollows
  <2> SUFFICES ASSUME Typed, WillShow, NEW b \in Browsers, Following(b)
               PROVE  /\ Settled(b).elements = board.elements /\ Settled(b).background = board.background
                      /\ Settled(b).session = session
                      /\ ~armed => Settled(b).who = participants /\ Settled(b).canDraw = (participants[b] = "drawer")
    BY DEF ReplicaFollows, PresenceFollows
  <2>1. tab[b].open /\ Settled(b).session # 0 /\ Settled(b) = After(b, tab[b], inbox[b]) /\ Shows(b, tab[b])
    BY DEF Following, Settled, WillShow
  <2>2. Settled(b).canDraw \in BOOLEAN
    BY AfterTyped DEF Typed, Settled, Tabs
  <2>3. ~armed => (Settled(b).canDraw <=> participants[b] = "drawer")
    BY <2>1 DEF Shows
  <2>4. ~armed => Settled(b).canDraw = (participants[b] = "drawer")
    BY <2>2, <2>3
  <2> QED BY <2>1, <2>4 DEF Shows
<1>2. BoardSpec => [](Typed /\ WillShow)
  BY TypedStart, TypedStep, WillShowStart, WillShowStep, PTL DEF BoardSpec
<1> QED BY <1>1, <1>2, PTL

-----------------------------------------------------------------------------
(* Who is on the board is connected.                                        *)

\* The part of the types the argument needs, and the invariant.
ConnectionInv ==
    /\ participants \in [Browsers -> Roles]
    /\ link \in [Browsers -> {"down", "looking", "ready"}]
    /\ joining \subseteq Browsers
    /\ BoardOfConnected

LEMMA ConnectionInit == BoardInit => ConnectionInv
  BY DEF BoardInit, ConnectionInv, BoardOfConnected, NoOne, Roles

\* Actions that touch neither who is on the board nor any connection.
LEMMA Elsewhere ==
    ASSUME ConnectionInv, UNCHANGED <<participants, link, joining>>
    PROVE  ConnectionInv'
  BY DEF ConnectionInv, BoardOfConnected

LEMMA DrawElsewhere ==
    ASSUME NEW b \in Browsers, Draw(b)
    PROVE  UNCHANGED <<participants, link, joining>>
  BY Zenon DEF Draw, HandleElementAdd, HandleElementRemove, HandleClear,
         HandleBackgroundUpdate, HandleReplace, notDrawing

\* The step of every action of one browser.
LEMMA ConnectionStep ==
    ASSUME ConnectionInv, NEW b \in Browsers
    PROVE  /\ OpenTab(b) \/ CloseTab(b) \/ Deliver(b) => ConnectionInv'
           /\ Connect(b) => ConnectionInv'
           /\ Drop(b) => ConnectionInv'
           /\ LookedUp(b) => ConnectionInv'
           /\ HandleJoin(b) => ConnectionInv'
           /\ HandleLeave(b) => ConnectionInv'
           /\ RateLimited(b) => ConnectionInv'
<1> USE DEF ConnectionInv, BoardOfConnected
<1>1. OpenTab(b) \/ CloseTab(b) \/ Deliver(b) => ConnectionInv'
  BY Elsewhere DEF OpenTab, CloseTab, Deliver
<1>2. Connect(b) => ConnectionInv'
  BY DEF Connect
<1>3. Drop(b) => ConnectionInv'
  BY DEF Drop, Roles
<1>4. LookedUp(b) => ConnectionInv'
  <2> SUFFICES ASSUME LookedUp(b) PROVE ConnectionInv'
    OBVIOUS
  <2>1. CASE b \in joining
    BY <2>1 DEF LookedUp, Join, JoinedBy, Roles
  <2>2. CASE b \notin joining
    BY <2>2 DEF LookedUp
  <2> QED BY <2>1, <2>2
<1>5. HandleJoin(b) => ConnectionInv'
  <2> SUFFICES ASSUME HandleJoin(b) PROVE ConnectionInv'
    OBVIOUS
  <2>1. CASE link[b] = "ready"
    BY <2>1 DEF HandleJoin, Received, Join, JoinedBy, Roles
  <2>2. CASE link[b] # "ready"
    BY <2>2 DEF HandleJoin, Received
  <2> QED BY <2>1, <2>2
<1>6. HandleLeave(b) => ConnectionInv'
  BY DEF HandleLeave, Received, Roles
<1>7. RateLimited(b) => ConnectionInv'
  BY Elsewhere DEF RateLimited, Received
<1> QED BY <1>1, <1>2, <1>3, <1>4, <1>5, <1>6, <1>7

LEMMA PermissionStep ==
    ASSUME ConnectionInv, NEW b \in Browsers, NEW p \in Browsers,
           NEW canDraw \in BOOLEAN, HandlePermissionUpdate(b, p, canDraw)
    PROVE  ConnectionInv'
<1> DEFINE next == IF p \in Admins \/ canDraw THEN "drawer" ELSE "viewer"
<1>1. /\ participants[p] # "out" /\ next \in Roles
      /\ participants' = [participants EXCEPT ![p] = next]
      /\ UNCHANGED <<link, joining>>
  BY DEF HandlePermissionUpdate, Roles
<1> HIDE DEF next
<1> QED BY <1>1 DEF ConnectionInv, BoardOfConnected

LEMMA ConnectionNext == ConnectionInv /\ [BoardNext]_boardVars => ConnectionInv'
<1> SUFFICES ASSUME ConnectionInv, [BoardNext]_boardVars PROVE ConnectionInv'
  OBVIOUS
<1>1. ASSUME NEW b \in Browsers,
             \/ OpenTab(b) \/ CloseTab(b) \/ Connect(b) \/ Deliver(b)
             \/ Drop(b) \/ LookedUp(b) \/ Receive(b)
      PROVE  ConnectionInv'
  BY <1>1, ConnectionStep DEF Receive
<1>2. ASSUME NEW b \in Browsers, Draw(b)
      PROVE  ConnectionInv'
  BY <1>2, DrawElsewhere, Elsewhere
<1>3. ASSUME NEW b \in Browsers, HandleChatOpen(b)
      PROVE  ConnectionInv'
  BY <1>3, Elsewhere DEF HandleChatOpen
<1>4. ASSUME NEW b \in Browsers, NEW p \in Browsers, NEW canDraw \in BOOLEAN,
             HandlePermissionUpdate(b, p, canDraw)
      PROVE  ConnectionInv'
  BY <1>4, PermissionStep
<1>5. CASE PresenceFires
  BY <1>5, Elsewhere DEF PresenceFires
<1>6. CASE BoardRestart
  BY <1>6 DEF BoardRestart, NoOne, ConnectionInv, BoardOfConnected, Roles
<1>7. CASE UNCHANGED boardVars
  BY <1>7, Elsewhere DEF boardVars
<1> QED BY <1>1, <1>2, <1>3, <1>4, <1>5, <1>6, <1>7 DEF BoardNext

\* A right to draw, and a join that awaits the account lookup, end with the
\* connection they came on: the checks of client.connected after the await in
\* handleJoin and ensureUser, and handleDisconnect, leave no gap between them.
THEOREM RightsEndWithConnection == BoardSpec => []BoardOfConnected
<1>1. BoardSpec => []ConnectionInv
  BY ConnectionInit, ConnectionNext, PTL DEF BoardSpec
<1>2. ConnectionInv => BoardOfConnected
  BY DEF ConnectionInv
<1> QED BY <1>1, <1>2, PTL
=============================================================================
