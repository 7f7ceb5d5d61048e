---------------------------- MODULE RallyMembers ----------------------------
(***************************************************************************)
(* The members of a rally group and the numbers of the groups: requests    *)
(* whose queries and transactions interleave                               *)
(* (server/src/rally-groups/rally-groups.service.ts, me/me.controller.ts). *)
(* A transaction commits in one step after what it has read; the lock of   *)
(* the countdown is the business of RallyCountdown.                        *)
(***************************************************************************)
EXTENDS Integers, FiniteSets

CONSTANTS
  Captains,    \* users
  Leavers,     \* bound: the users whose account may be deleted
  Times,       \* seconds to march; 0 stands for none
  MaxMembers,  \* MAX_GROUP_MEMBERS
  Calls,       \* requests about the members, one use each
  RallyIds,    \* groups
  MaxGroups,   \* MAX_GROUPS
  Edits,       \* requests about the groups, one use each
  Unset        \* no override

ASSUME RallyMembersAssumption ==
  /\ IsFiniteSet(Captains) /\ IsFiniteSet(RallyIds) /\ Leavers \subseteq Captains
  /\ Times \subseteq Nat /\ 0 \in Times /\ Unset \notin Times
  /\ MaxMembers \in Nat \ {0} /\ MaxGroups \in Nat \ {0}

VARIABLES
  order,      \* order_index of a member, 0 for who is none
  march,      \* users.march_seconds
  override,   \* march_seconds_override
  exists,     \* the users
  running,    \* the group's state
  announced,  \* the schedule: per member [order, offset], Nobody for the others; sorted: no
              \* time had changed since the sort (history)
  ran,        \* requests: [stage, who, count, to, late]
  unsorted,   \* a time has changed since the last sort (history)
  gap,        \* an account was deleted since the last sort (history)
  number,     \* display_order of a group, 0 for none
  edit,       \* requests about the groups: [stage, id, seen]
  overlap     \* two of them have met (history)

memberVars == <<order, march, override, exists, running, announced, ran, unsorted, gap>>
numberVars == <<number, edit, overlap>>
rallyMemberVars == <<memberVars, numberVars>>

Nobody == [order |-> 0, offset |-> 0]
Silence == [sorted |-> TRUE, calls |-> [u \in Captains |-> Nobody]]
NotRan == [stage |-> "ready", who |-> CHOOSE u \in Captains : TRUE, count |-> 0, to |-> Unset, late |-> FALSE]
Over == [NotRan EXCEPT !.stage = "over"]
NotEdited == [stage |-> "ready", id |-> CHOOSE g \in RallyIds : TRUE, seen |-> [g \in RallyIds |-> 0]]

-----------------------------------------------------------------------------
(* Order.                                                                  *)

MembersOf(o) == {u \in Captains : o[u] # 0}
EffectiveBy(m, v, u) == IF v[u] = Unset THEN m[u] ELSE v[u]
Effective(u) == EffectiveBy(march, override, u)

\* sortMembersByMarchDesc: the slowest first, and among equals as before.
Sorted(o, m, v) ==
  LET before(a, b) == LET s == EffectiveBy(m, v, a) t == EffectiveBy(m, v, b)
                      IN  s > t \/ (s = t /\ o[a] < o[b])
  IN  [u \in Captains |-> IF o[u] = 0 THEN 0 ELSE 1 + Cardinality({w \in MembersOf(o) : before(w, u)})]

\* A group that has been sorted, of any size, before anything is asked for.
MembersInit ==
  /\ march \in [Captains -> Times] /\ override = [u \in Captains |-> Unset]
  /\ order \in [Captains -> 0..MaxMembers] /\ order = Sorted(order, march, override)
  /\ \A u, w \in MembersOf(order) : order[u] = order[w] => u = w
  /\ exists = Captains /\ running = FALSE /\ announced = Silence
  /\ ran = [q \in Calls |-> NotRan] /\ unsorted = FALSE /\ gap = FALSE
  /\ number = [g \in RallyIds |-> 0] /\ edit = [e \in Edits |-> NotEdited] /\ overlap = FALSE

\* MUTANT of Reordered: the numbers are closed up as they were, without a look at the times.
ClosedUp(o, m, v) ==
  /\ order' = [u \in Captains |-> IF o[u] = 0 THEN 0 ELSE Cardinality({w \in MembersOf(o) : o[w] <= o[u]})]
  /\ unsorted' = FALSE /\ gap' = FALSE

\* reorderByMarchSeconds.
Reordered(o, m, v) == order' = Sorted(o, m, v) /\ unsorted' = FALSE /\ gap' = FALSE

\* computeFireSchedule: each starts as much later as the slowest needs longer.
Schedule ==
  LET slowest == CHOOSE t \in {0} \cup {Effective(u) : u \in MembersOf(order)} : \A u \in MembersOf(order) : Effective(u) <= t
  IN  [sorted |-> ~unsorted,
       calls |-> [u \in Captains |-> IF order[u] = 0 THEN Nobody ELSE [order |-> order[u], offset |-> slowest - Effective(u)]]]

-----------------------------------------------------------------------------
(* Requests about the members.                                             *)

At(q, stage) == ran[q].stage = stage
Step(q, stage) == ran' = [ran EXCEPT ![q] = IF stage = "over" THEN Over ELSE [@ EXCEPT !.stage = stage]]
\* The requests that have counted before this one changed the group.
Overtaken(q) == ran' = [p \in Calls |-> IF p = q THEN Over ELSE [ran[p] EXCEPT !.late = @ \/ At(p, "counted")]]
keepsGroup == UNCHANGED <<exists, running, announced>>
keepsTimes == UNCHANGED <<march, override>>
keepsOrder == UNCHANGED <<order, unsorted, gap>>

\* addMember: the count and the duplicate are looked for in one snapshot.
AddCounts(q, u) ==
  /\ At(q, "ready") /\ u \in exists
  /\ LET n == Cardinality(MembersOf(order))
     IN  ran' = [ran EXCEPT ![q] = IF n < MaxMembers /\ order[u] = 0
                                   THEN [NotRan EXCEPT !.stage = "counted", !.who = u, !.count = n] ELSE Over]
  /\ keepsGroup /\ keepsTimes /\ keepsOrder

\* MUTANT of NewIndex: the place after the last one, whatever was counted.
AfterLast(q) == 1 + Cardinality(MembersOf(order))

NewIndex(q) == ran[q].count + 1

\* A place or a member is there once; the constraint of the table says so.
Taken(q) == \/ ran[q].who \notin exists \/ order[ran[q].who] # 0
            \/ \E u \in Captains : order[u] = NewIndex(q)

\* The insert and the sort that follows it, or nothing of both.
AddInserts(q) ==
  /\ At(q, "counted")
  /\ IF Taken(q)
     THEN Step(q, "over") /\ keepsTimes /\ keepsOrder
     ELSE LET u == ran[q].who v == [override EXCEPT ![u] = Unset]
          IN  /\ Reordered([order EXCEPT ![u] = NewIndex(q)], march, v)
              /\ override' = v
              /\ Overtaken(q) /\ UNCHANGED march
  /\ keepsGroup

RemoveMember(q, u) ==
  /\ At(q, "ready") /\ order[u] # 0
  /\ Reordered([order EXCEPT ![u] = 0], march, override)
  /\ Overtaken(q)
  /\ keepsGroup /\ keepsTimes

\* updateMarchOverride: the state of the group is looked at, the time is written, and
\* then the members are sorted, in a query or a transaction each.
OverrideChecks(q, u, t) ==
  /\ At(q, "ready") /\ order[u] # 0
  /\ ran' = [ran EXCEPT ![q] = IF running THEN Over ELSE [NotRan EXCEPT !.stage = "allowed", !.who = u, !.to = t]]
  /\ keepsGroup /\ keepsTimes /\ keepsOrder

OverrideWrites(q) ==
  /\ At(q, "allowed") /\ Step(q, "written")
  /\ override' = [override EXCEPT ![ran[q].who] = IF order[ran[q].who] = 0 THEN @ ELSE ran[q].to]
  /\ unsorted' = TRUE
  /\ keepsGroup /\ UNCHANGED <<march, order, gap>>

Sorts(q) ==
  /\ At(q, "written") /\ Step(q, "over")
  /\ Reordered(order, march, override)
  /\ keepsGroup /\ keepsTimes

\* saveBattleSettings and reorderAllForUser: a running group is left as it is.
SettingsWrite(q, u, t) ==
  /\ At(q, "ready") /\ u \in exists /\ t # march[u]
  /\ march' = [march EXCEPT ![u] = t] /\ unsorted' = TRUE
  /\ ran' = [ran EXCEPT ![q] = [NotRan EXCEPT !.stage = "saved", !.who = u]]
  /\ keepsGroup /\ UNCHANGED <<override, order, gap>>

SettingsCheck(q) ==
  /\ At(q, "saved") /\ Step(q, IF running \/ order[ran[q].who] = 0 THEN "over" ELSE "written")
  /\ keepsGroup /\ keepsTimes /\ keepsOrder

\* startCountdown: sorts, reads the group, takes the lock and announces.
StartSorts(q) ==
  /\ At(q, "ready") /\ Step(q, "sorted")
  /\ Reordered(order, march, override)
  /\ keepsGroup /\ keepsTimes

StartLoads(q) ==
  /\ At(q, "sorted")
  /\ IF running THEN Step(q, "over") /\ UNCHANGED <<running, announced>>
     ELSE Step(q, "over") /\ running' = TRUE /\ announced' = Schedule
  /\ UNCHANGED exists /\ keepsTimes /\ keepsOrder

\* A stop, or the end of the countdown.
StopGroup ==
  /\ running /\ running' = FALSE
  /\ announced' = Silence
  /\ UNCHANGED <<exists, ran>> /\ keepsTimes /\ keepsOrder

\* banUser: the account goes and its membership with it; nobody sorts.
AccountGoes(u) ==
  /\ u \in exists \cap Leavers /\ exists' = exists \ {u}
  /\ order' = [order EXCEPT ![u] = 0] /\ gap' = (gap \/ order[u] # 0)
  /\ UNCHANGED <<running, announced, ran, unsorted>> /\ keepsTimes

MembersNext ==
  \/ StopGroup
  \/ \E u \in Captains : AccountGoes(u)
  \/ \E q \in Calls :
       \/ AddInserts(q) \/ OverrideWrites(q) \/ Sorts(q) \/ SettingsCheck(q) \/ StartSorts(q) \/ StartLoads(q)
       \/ \E u \in Captains : AddCounts(q, u) \/ RemoveMember(q, u)
       \/ \E u \in Captains, t \in Times : SettingsWrite(q, u, t)
       \/ \E u \in Captains, t \in Times \cup {Unset} : OverrideChecks(q, u, t)

-----------------------------------------------------------------------------
(* Requests about the groups.                                              *)

Listed(n) == {g \in RallyIds : n[g] # 0}
Busy(e) == \E d \in Edits \ {e} : edit[d].stage \in {"counted", "found"}

\* create: the count is the number of the next group.
CreateCounts(e, g) ==
  /\ edit[e].stage = "ready" /\ number[g] = 0
  /\ \A d \in Edits : edit[d].stage = "ready" \/ edit[d].id # g
  /\ edit' = [edit EXCEPT ![e] = [stage |-> IF Cardinality(Listed(number)) < MaxGroups THEN "counted" ELSE "over",
                                  id |-> g, seen |-> number]]
  /\ overlap' = (overlap \/ Busy(e)) /\ UNCHANGED number

CreateSaves(e) ==
  /\ edit[e].stage = "counted" /\ edit' = [edit EXCEPT ![e].stage = "over"]
  /\ number' = [number EXCEPT ![edit[e].id] = Cardinality(Listed(edit[e].seen)) + 1]
  /\ UNCHANGED overlap

RemoveReads(e, g) ==
  /\ edit[e].stage = "ready" /\ number[g] # 0
  /\ edit' = [edit EXCEPT ![e] = [stage |-> "found", id |-> g, seen |-> number]]
  /\ overlap' = (overlap \/ Busy(e)) /\ UNCHANGED number

\* MUTANT of MovedUp: the group after the removed one is left out.
MovedUpFromNext(n, g) == [h \in RallyIds |-> IF h = g THEN 0 ELSE IF n[h] > n[g] + 1 THEN n[h] - 1 ELSE n[h]]

\* Those after the removed group move up by one.
MovedUp(n, g) == [h \in RallyIds |-> IF h = g THEN 0 ELSE IF n[h] > n[g] THEN n[h] - 1 ELSE n[h]]

\* What was seen is written where it was to change, to the groups that are still there.
RemoveSaves(e) ==
  LET seen == edit[e].seen id == edit[e].id
  IN  /\ edit[e].stage = "found" /\ edit' = [edit EXCEPT ![e].stage = "over"]
      /\ number' = [h \in RallyIds |-> IF h = id \/ (number[h] # 0 /\ seen[h] > seen[id]) THEN MovedUp(seen, id)[h] ELSE number[h]]
      /\ UNCHANGED overlap

NumbersNext ==
  \E e \in Edits :
    \/ CreateSaves(e) \/ RemoveSaves(e)
    \/ \E g \in RallyIds : CreateCounts(e, g) \/ RemoveReads(e, g)

-----------------------------------------------------------------------------
(* Properties.                                                             *)

MembersTypeOK ==
  /\ order \in [Captains -> 0..MaxMembers] /\ march \in [Captains -> Times] /\ override \in [Captains -> Times \cup {Unset}]
  /\ exists \subseteq Captains /\ number \in [RallyIds -> 0..Cardinality(RallyIds)]

\* No two members are called by the same number, and there are no more than the limit,
\* whatever requests have counted at the same time; without deleted accounts the numbers
\* are 1 to n, as the voice calls them.
PlacesSound ==
  LET all == MembersOf(order)
  IN  /\ \A u, w \in all : u # w => order[u] # order[w]
      /\ Cardinality(all) <= MaxMembers
      /\ ~gap => {order[u] : u \in all} = 1..Cardinality(all)

\* A member that the administrator was told there is room for only clashes with a change
\* of the group or of the accounts since: the place after the counted ones is free.
AddsSucceed == \A q \in Calls : At(q, "counted") /\ ~ran[q].late /\ ~gap /\ ran[q].who \in exists => ~Taken(q)

\* The voice calls the captains in the order in which they have to start, unless a time
\* has changed between the sort and the reading.
CalledInOrder ==
  announced.sorted => \A u, w \in Captains :
    LET a == announced.calls[u] b == announced.calls[w]
    IN  a.order # 0 /\ a.order < b.order => a.offset <= b.offset

\* As long as requests about the groups come one after the other, the groups are numbered
\* 1 to n and there are no more than the limit.
GroupsNumbered ==
  overlap \/ LET all == Listed(number)
             IN  Cardinality(all) <= MaxGroups /\ {number[g] : g \in all} = 1..Cardinality(all)

MembersSound == PlacesSound /\ AddsSucceed /\ CalledInOrder /\ GroupsNumbered
=============================================================================
