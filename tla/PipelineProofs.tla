--------------------------- MODULE PipelineProofs ---------------------------
(***************************************************************************)
(* The translation pipeline of the server, for any calls, rates, windows,  *)
(* posts, languages, tenants, parts and sizes: no more calls at once than  *)
(* there are slots and no more within a window than the rate, one call     *)
(* per text and language, shared by all who ask, nobody waits for a call   *)
(* that is over, the engine is asked a bounded number of times for a       *)
(* text, and the cleaning of old messages takes no young one.              *)
(***************************************************************************)
EXTENDS MCChat, Counting

-----------------------------------------------------------------------------
(* The slots and the window of the translation queue.                       *)

QueueSpec == QueueInit /\ [][QueueNext]_queueVars

RunningCalls == {c \in Calls : run[c] = "running"}

QueueStates == {"idle", "waiting", "running", "over", "limit"}

LineInv ==
    /\ waiting \in Seq(Calls)
    /\ \A i \in 1..Len(waiting) : run[waiting[i]] = "waiting"
    /\ \A i, j \in 1..Len(waiting) : waiting[i] = waiting[j] => i = j

CountInv ==
    /\ run \in [Calls -> QueueStates]
    /\ IsFiniteSet(RunningCalls)
    /\ running \in Nat /\ running = Cardinality(RunningCalls)
    /\ running <= Concurrency
    /\ waiting # <<>> => running = Concurrency

QueueInv == CountInv /\ LineInv

LEMMA QueueInitial == QueueInit => QueueInv
<1> SUFFICES ASSUME QueueInit PROVE QueueInv
  OBVIOUS
<1>1. RunningCalls = {} /\ waiting = <<>>
  BY DEF QueueInit, RunningCalls
<1>2. LineInv
  BY <1>1 DEF LineInv
<1>3. CountInv
  BY <1>1, FS_EmptySet, QueueAssumption DEF CountInv, QueueInit, QueueStates
<1> QED BY <1>2, <1>3 DEF QueueInv

\* A call that is refused, takes a free slot, or goes to the end of the line.
LEMMA RunStep == ASSUME QueueInv, NEW c \in Calls, Run(c) PROVE QueueInv'
<1> USE DEF QueueInv
<1>1. /\ run[c] = "idle" /\ c \notin RunningCalls
      /\ \A i \in 1..Len(waiting) : waiting[i] # c
  BY DEF Run, RunningCalls, LineInv
<1>2. CASE /\ run' = [run EXCEPT ![c] = "limit"]
           /\ UNCHANGED <<running, waiting>>
  <2>1. RunningCalls' = RunningCalls
    BY <1>1, <1>2 DEF RunningCalls, CountInv
  <2>2. CountInv'
    BY <1>2, <2>1 DEF CountInv, QueueStates
  <2>3. LineInv'
    BY <1>1, <1>2 DEF LineInv, CountInv
  <2> QED BY <2>2, <2>3
<1>3. CASE /\ running < Concurrency
           /\ run' = [run EXCEPT ![c] = "running"]
           /\ running' = running + 1 /\ UNCHANGED waiting
  <2>1. RunningCalls' = RunningCalls \cup {c}
    BY <1>3 DEF RunningCalls, CountInv
  <2>2. /\ IsFiniteSet(RunningCalls \cup {c})
        /\ Cardinality(RunningCalls \cup {c}) = Cardinality(RunningCalls) + 1
    BY <1>1, FS_AddElement DEF CountInv
  <2>3. waiting = <<>>
    BY <1>3, QueueAssumption DEF CountInv
  <2>4. CountInv'
    BY <1>3, <2>1, <2>2, <2>3, QueueAssumption DEF CountInv, QueueStates
  <2>5. LineInv'
    BY <1>3, <2>3 DEF LineInv
  <2> QED BY <2>4, <2>5
<1>4. CASE /\ ~(running < Concurrency)
           /\ run' = [run EXCEPT ![c] = "waiting"]
           /\ waiting' = Append(waiting, c) /\ UNCHANGED running
  <2>1. RunningCalls' = RunningCalls
    BY <1>1, <1>4 DEF RunningCalls, CountInv
  <2>2. CountInv'
    BY <1>4, <2>1, QueueAssumption DEF CountInv, QueueStates
  <2>3. /\ waiting' \in Seq(Calls) /\ Len(waiting') = Len(waiting) + 1
        /\ waiting'[Len(waiting) + 1] = c
        /\ \A i \in 1..Len(waiting) : waiting'[i] = waiting[i]
    BY <1>4 DEF LineInv
  <2>4. \A i \in 1..Len(waiting') : i = Len(waiting) + 1 \/ i \in 1..Len(waiting)
    BY <2>3 DEF LineInv
  <2>5. \A i \in 1..Len(waiting') : run'[waiting'[i]] = "waiting"
    BY <1>1, <1>4, <2>3, <2>4 DEF LineInv, CountInv
  <2>6. \A i, j \in 1..Len(waiting') : waiting'[i] = waiting'[j] => i = j
    BY <1>1, <2>3, <2>4 DEF LineInv
  <2> QED BY <2>2, <2>3, <2>5, <2>6 DEF LineInv
<1> QED BY <1>2, <1>3, <1>4 DEF Run

\* A call that gives its slot back, or hands it to the head of the line.
LEMMA RunEndsStep == ASSUME QueueInv, NEW c \in Calls, RunEnds(c) PROVE QueueInv'
<1> USE DEF QueueInv
<1>1. /\ run[c] = "running" /\ c \in RunningCalls
      /\ \A i \in 1..Len(waiting) : waiting[i] # c
  BY DEF RunEnds, RunningCalls, LineInv
<1>2. /\ IsFiniteSet(RunningCalls \ {c})
      /\ Cardinality(RunningCalls \ {c}) = Cardinality(RunningCalls) - 1
  BY <1>1, FS_RemoveElement DEF CountInv
<1>3. CASE waiting = <<>>
  <2>1. run' = [run EXCEPT ![c] = "over"] /\ running' = running - 1 /\ UNCHANGED waiting
    BY <1>3 DEF RunEnds
  <2>2. RunningCalls' = RunningCalls \ {c}
    BY <2>1 DEF RunningCalls, CountInv
  <2>3. Cardinality(RunningCalls \ {c}) \in Nat
    BY <1>2, FS_CardinalityType
  <2>4. CountInv'
    BY <1>2, <1>3, <2>1, <2>2, <2>3, QueueAssumption DEF CountInv, QueueStates
  <2>5. LineInv'
    BY <1>3, <2>1 DEF LineInv
  <2> QED BY <2>4, <2>5
<1>4. CASE waiting # <<>>
  <2> DEFINE h == Head(waiting)
  <2>1. /\ run' = [run EXCEPT ![c] = "over", ![h] = "running"]
        /\ waiting' = Tail(waiting) /\ running' = running
    BY <1>4 DEF RunEnds
  <2>2. /\ Len(waiting) \in Nat \ {0} /\ h = waiting[1] /\ h \in Calls
        /\ Tail(waiting) \in Seq(Calls) /\ Len(Tail(waiting)) = Len(waiting) - 1
        /\ \A i \in 1..(Len(waiting) - 1) : Tail(waiting)[i] = waiting[i + 1]
    BY <1>4 DEF LineInv
  <2>3. run[h] = "waiting" /\ h # c /\ h \notin RunningCalls
    BY <1>1, <2>2 DEF LineInv, RunningCalls
  <2> HIDE DEF h
  <2>4. RunningCalls' = (RunningCalls \ {c}) \cup {h}
    BY <2>1, <2>2, <2>3 DEF RunningCalls, CountInv
  <2>5. /\ IsFiniteSet((RunningCalls \ {c}) \cup {h})
        /\ Cardinality((RunningCalls \ {c}) \cup {h}) = Cardinality(RunningCalls \ {c}) + 1
    BY <1>2, <2>3, FS_AddElement
  <2>6. CountInv'
    BY <1>2, <1>4, <2>1, <2>2, <2>4, <2>5 DEF CountInv, QueueStates
  <2>7. \A i \in 1..Len(waiting') : i + 1 \in 1..Len(waiting) /\ waiting'[i] = waiting[i + 1]
    BY <2>1, <2>2
  <2>8. \A i \in 1..Len(waiting') : waiting'[i] # h /\ waiting'[i] # c /\ waiting'[i] \in Calls
    BY <1>1, <2>2, <2>7 DEF LineInv
  <2>9. \A i \in 1..Len(waiting') : run'[waiting'[i]] = "waiting"
    BY <2>1, <2>7, <2>8 DEF LineInv, CountInv
  <2>10. \A i, j \in 1..Len(waiting') : waiting'[i] = waiting'[j] => i = j
    BY <2>2, <2>7, <2>1 DEF LineInv
  <2> QED BY <2>1, <2>2, <2>6, <2>9, <2>10 DEF LineInv
<1> QED BY <1>3, <1>4

\* A step of the clock, and a step outside the queue.
LEMMA QueueElsewhere == ASSUME QueueInv, UNCHANGED <<run, running, waiting>> PROVE QueueInv'
  BY DEF QueueInv, CountInv, LineInv, RunningCalls

LEMMA QueueStep == ASSUME QueueInv, [QueueNext]_queueVars PROVE QueueInv'
<1>1. ASSUME NEW c \in Calls, Run(c) PROVE QueueInv'
  BY <1>1, RunStep
<1>2. ASSUME NEW c \in Calls, RunEnds(c) PROVE QueueInv'
  BY <1>2, RunEndsStep
<1>3. CASE QueueTick \/ UNCHANGED queueVars
  BY <1>3, QueueElsewhere DEF QueueTick, queueVars
<1> QED BY <1>1, <1>2, <1>3 DEF QueueNext

LEMMA QueueInvariant == QueueSpec => []QueueInv
<1>1. QueueInv /\ [QueueNext]_queueVars => QueueInv'
  BY QueueStep
<1> QED BY <1>1, QueueInitial, PTL DEF QueueSpec

LEMMA QueueExact == QueueInv => SlotsExact
BY DEF QueueInv, CountInv, SlotsExact, RunningCalls

\* The counter of the queue is the number of calls that run, and nobody waits while a
\* slot is free: whatever calls come, end and wait in whatever order
\* (translation-queue.service.ts, run and release).
THEOREM QueueSlotsExact == QueueSpec => []SlotsExact
<1>1. QueueInv => SlotsExact
  BY QueueExact
<1> QED BY <1>1, QueueInvariant, PTL

\* Never more calls at the provider than the concurrency allows.
THEOREM QueueConcurrency == QueueSpec => [](Cardinality({c \in Calls : run[c] = "running"}) <= Concurrency)
<1>1. QueueInv => Cardinality({c \in Calls : run[c] = "running"}) <= Concurrency
  BY DEF QueueInv, CountInv, RunningCalls
<1> QED BY <1>1, QueueInvariant, PTL

-----------------------------------------------------------------------------
(* The window: whoever was let in lately has a reservation of that age.     *)

Reserved(S, ages, list) ==
  \E place : /\ \A x \in S : place[x] \in 1..Len(list) /\ list[place[x]] = ages[x]
             /\ \A x, y \in S : x # y => place[x] # place[y]

LEMMA ReservedSifted ==
  ASSUME NEW T, NEW list \in Seq(T), NEW set, NEW out \in Seq(T), Sifted(out, list, set, Len(list)),
         NEW S, NEW ages, Reserved(S, ages, list), \A x \in S : ages[x] \in set
  PROVE  Reserved(S, ages, out)
<1>1. PICK at : Sifts(at, out, list, set, Len(list))
  BY DEF Sifted
<1>2. PICK place : /\ \A x \in S : place[x] \in 1..Len(list) /\ list[place[x]] = ages[x]
                   /\ \A x, y \in S : x # y => place[x] # place[y]
  BY DEF Reserved
<1>3. PICK new : new = [x \in S |-> CHOOSE k \in 1..Len(out) : at[k] = place[x]]
  OBVIOUS
<1>4. ASSUME NEW x \in S PROVE new[x] \in 1..Len(out) /\ at[new[x]] = place[x] /\ out[new[x]] = ages[x]
  <2>1. \E k \in 1..Len(out) : at[k] = place[x]
    BY <1>1, <1>2 DEF Sifts
  <2>2. new[x] \in 1..Len(out) /\ at[new[x]] = place[x]
    BY <1>3, <2>1
  <2> QED BY <1>1, <1>2, <2>2 DEF Sifts
<1>5. \A x, y \in S : x # y => new[x] # new[y]
  BY <1>2, <1>4
<1> QED BY <1>4, <1>5 DEF Reserved

Young == {c \in Calls : accepted[c] \in 0..(QueueWindow - 1)}

WindowInv ==
  /\ accepted \in [Calls -> -1..QueueWindow]
  /\ started \in Seq(0..QueueWindow) /\ Len(started) <= Rpm
  /\ IsFiniteSet(Young) /\ Reserved(Young, accepted, started)

LEMMA WindowInitial == QueueInit => WindowInv
<1> SUFFICES ASSUME QueueInit PROVE WindowInv
  OBVIOUS
<1>1. QueueWindow \in Nat /\ Rpm \in Nat /\ -1 \in -1..QueueWindow
  BY QueueAssumption
<1>2. Young = {}
  BY DEF QueueInit, Young
<1>3. IsFiniteSet(Young) /\ Reserved(Young, accepted, started)
  BY <1>2, FS_EmptySet DEF Reserved
<1> QED BY <1>1, <1>3 DEF WindowInv, QueueInit

\* Everything grows older at the same time.
LEMMA WindowTick == ASSUME WindowInv, QueueTick PROVE WindowInv'
<1>1. PICK w \in Nat \ {0} : w = QueueWindow
  BY QueueAssumption
<1>2. /\ started' = [i \in 1..Len(started) |-> Older(started[i])] /\ started \in Seq(0..w)
      /\ accepted' = [c \in Calls |-> Older(accepted[c])] /\ accepted \in [Calls -> -1..w]
  BY <1>1 DEF WindowInv, QueueTick
<1>3. \A age \in -1..w : /\ Older(age) \in -1..w /\ (age \in 0..w => Older(age) \in 0..w)
                         /\ Older(age) \in 0..(w-1) => age \in 0..(w-1)
  BY <1>1 DEF Older
<1>4. /\ started' \in Seq(0..w) /\ Len(started') = Len(started)
      /\ \A i \in 1..Len(started) : started'[i] = Older(started[i])
  <2>1. \A i \in 1..Len(started) : started[i] \in 0..w /\ started[i] \in -1..w
    BY <1>2
  <2>2. \A i \in 1..Len(started) : Older(started[i]) \in 0..w
    BY <1>3, <2>1
  <2> QED BY <1>2, <2>2
<1>5. Young' \subseteq Young /\ accepted' \in [Calls -> -1..w]
  BY <1>1, <1>2, <1>3 DEF Young
<1>6. IsFiniteSet(Young')
  BY <1>5, FS_Subset DEF WindowInv
<1>7. PICK place : /\ \A x \in Young : place[x] \in 1..Len(started) /\ started[place[x]] = accepted[x]
                   /\ \A x, y \in Young : x # y => place[x] # place[y]
  BY DEF WindowInv, Reserved
<1>8. \A x \in Young' : place[x] \in 1..Len(started') /\ started'[place[x]] = accepted'[x]
  BY <1>2, <1>4, <1>5, <1>7 DEF Young
<1>9. Reserved(Young', accepted', started')
  BY <1>5, <1>7, <1>8 DEF Reserved
<1> QED BY <1>1, <1>4, <1>5, <1>6, <1>9 DEF WindowInv

\* What is pruned is too old to count, and whoever is let in gets the last place.
LEMMA WindowRun == ASSUME WindowInv, NEW c \in Calls, Run(c) PROVE WindowInv'
<1>1. PICK w \in Nat \ {0} : w = QueueWindow
  BY QueueAssumption
<1>2. Rpm \in Nat /\ started \in Seq(0..w) /\ accepted \in [Calls -> -1..w]
  BY <1>1, QueueAssumption DEF WindowInv
<1>3. PICK kept : kept = Those(started, 0..(w-1))
  OBVIOUS
<1>4. kept = Pruned
  BY <1>1, <1>3 DEF Pruned
<1>5. kept \in Seq(0..w) /\ Len(kept) \in Nat /\ Sifted(kept, started, 0..(w-1), Len(started))
  BY <1>2, <1>3, ThoseSifted
<1>6. Len(kept) <= Len(started)
  <2>1. Len(kept) \in 0..Len(started)
    BY <1>2, <1>3, ThoseMembers
  <2> QED BY <2>1
<1>7. Reserved(Young, accepted, kept)
  <2>1. Reserved(Young, accepted, started) /\ \A x \in Young : accepted[x] \in 0..(w-1)
    BY <1>1 DEF WindowInv, Young
  <2> QED BY <1>2, <1>5, <2>1, ReservedSifted
<1>8. CASE Len(kept) >= Rpm
  <2>1. started' = kept /\ accepted' = accepted
    BY <1>4, <1>8 DEF Run
  <2>2. Young' = Young
    BY <2>1 DEF Young
  <2>3. Len(started') <= Rpm
    BY <1>2, <1>5, <1>6, <2>1 DEF WindowInv
  <2> QED BY <1>1, <1>2, <1>5, <1>7, <2>1, <2>2, <2>3 DEF WindowInv
<1>9. CASE ~(Len(kept) >= Rpm)
  <2>1. started' = Append(kept, 0) /\ accepted' = [accepted EXCEPT ![c] = 0]
    BY <1>4, <1>9 DEF Run
  <2>2. /\ started' \in Seq(0..w) /\ Len(started') = Len(kept) + 1 /\ started'[Len(kept) + 1] = 0
        /\ \A i \in 1..Len(kept) : started'[i] = kept[i]
        /\ Len(started') <= Rpm
    BY <1>2, <1>5, <1>9, <2>1
  <2>3. accepted' \in [Calls -> -1..w] /\ accepted'[c] = 0 /\ \A x \in Calls \ {c} : accepted'[x] = accepted[x]
    BY <1>2, <2>1
  <2>4. Young' \subseteq Young \cup {c}
    BY <2>3 DEF Young
  <2>5. IsFiniteSet(Young')
    <3>1. IsFiniteSet(Young \cup {c})
      BY FS_AddElement DEF WindowInv
    <3> QED BY <2>4, <3>1, FS_Subset
  <2>6. PICK place : /\ \A x \in Young : place[x] \in 1..Len(kept) /\ kept[place[x]] = accepted[x]
                     /\ \A x, y \in Young : x # y => place[x] # place[y]
    BY <1>7 DEF Reserved
  <2>7. PICK new : new = [x \in Young' |-> IF x = c THEN Len(kept) + 1 ELSE place[x]]
    OBVIOUS
  <2>8. ASSUME NEW x \in Young' PROVE new[x] \in 1..Len(started') /\ started'[new[x]] = accepted'[x]
    <3>1. CASE x = c
      BY <1>5, <2>2, <2>3, <2>7, <3>1
    <3>2. CASE x # c
      <4>1. x \in Young /\ new[x] = place[x] /\ x \in Calls \ {c}
        BY <2>4, <2>7, <3>2 DEF Young
      <4>2. place[x] \in 1..Len(kept) /\ kept[place[x]] = accepted[x]
        BY <2>6, <4>1
      <4>3. place[x] \in 1..Len(started') /\ started'[place[x]] = kept[place[x]]
        BY <1>5, <2>2, <4>2
      <4> QED BY <2>3, <4>1, <4>2, <4>3
    <3> QED BY <3>1, <3>2
  <2>9. \A x, y \in Young' : x # y => new[x] # new[y]
    <3>1. \A x \in Young' \ {c} : x \in Young /\ new[x] = place[x] /\ new[x] # Len(kept) + 1
      BY <1>5, <2>4, <2>6, <2>7
    <3>2. c \in Young' => new[c] = Len(kept) + 1
      BY <2>7
    <3> QED BY <2>6, <3>1, <3>2
  <2>10. Reserved(Young', accepted', started')
    BY <2>8, <2>9 DEF Reserved
  <2> QED BY <1>1, <2>2, <2>3, <2>5, <2>10 DEF WindowInv
<1> QED BY <1>8, <1>9

LEMMA WindowStep == ASSUME WindowInv, [QueueNext]_queueVars PROVE WindowInv'
<1>1. ASSUME NEW c \in Calls, RunEnds(c) PROVE WindowInv'
  BY <1>1 DEF RunEnds, WindowInv, Young
<1>2. CASE UNCHANGED queueVars
  BY <1>2 DEF queueVars, WindowInv, Young
<1> QED BY <1>1, <1>2, WindowTick, WindowRun DEF QueueNext

LEMMA WindowSafe == ASSUME WindowInv PROVE WindowWithinLimit
<1>1. PICK place : /\ \A x \in Young : place[x] \in 1..Len(started) /\ started[place[x]] = accepted[x]
                   /\ \A x, y \in Young : x # y => place[x] # place[y]
  BY DEF WindowInv, Reserved
<1>2. PICK n \in Nat : n = Len(started)
  BY DEF WindowInv
<1>3. Cardinality(Young) <= n
  BY <1>1, <1>2, PlacesFill DEF WindowInv
<1>4. Cardinality(Young) \in Nat /\ n <= Rpm
  BY <1>2, FS_CardinalityType DEF WindowInv
<1> QED BY <1>2, <1>3, <1>4, QueueAssumption DEF WindowWithinLimit, Young

LEMMA QueueTyped == QueueInv /\ WindowInv => QueueTypeOK
BY QueueAssumption DEF QueueInv, CountInv, LineInv, WindowInv, QueueTypeOK, QueueStates

\* In no window of time are more calls let in than the limit says: reservations that are
\* still young are never pruned (translation-queue.service.ts, prune and run).
THEOREM QueueWindowKept == QueueSpec => [](WindowWithinLimit /\ QueueTypeOK)
<1>1. QueueInv /\ WindowInv => WindowWithinLimit /\ QueueTypeOK
  BY QueueTyped, WindowSafe
<1>2. WindowInv /\ [QueueNext]_queueVars => WindowInv'
  BY WindowStep
<1>3. QueueSpec => []WindowInv
  BY <1>2, WindowInitial, PTL DEF QueueSpec
<1> QED BY <1>1, <1>3, QueueInvariant, PTL

-----------------------------------------------------------------------------
(* The cleaning of old messages.                                            *)

\* What a run means to delete has been old since it began.
RetentionInv ==
  /\ RetentionTypeOK /\ RetentionComplete
  /\ \A r \in Runs : \A m \in cleanup[r].cut : message[m] \in {"old", "deleted"}

LEMMA RetentionStarts == RetentionInit => RetentionInv
BY DEF RetentionInit, RetentionInv, RetentionTypeOK, RetentionComplete

LEMMA DeletesStep == ASSUME RetentionInv, NEW r \in Runs, Deletes(r) PROVE RetentionInv'
<1>1. PICK left : left = cleanup[r].cut \cap Old
  OBVIOUS
<1>2. PICK most : most = IF Cardinality(left) < DeleteBatch THEN Cardinality(left) ELSE DeleteBatch
  OBVIOUS
<1>3. PICK gone \in SUBSET left :
        /\ Cardinality(gone) = most
        /\ message' = [m \in Rows |-> IF m \in gone THEN "deleted" ELSE message[m]]
        /\ texts' = texts \ gone
        /\ cleanup' = IF Enough(gone) THEN [cleanup EXCEPT ![r].stage = "done"] ELSE cleanup
  BY <1>1, <1>2 DEF Deletes
<1>4. timers' = timers /\ up' = up
  BY DEF Deletes
<1>5. left \subseteq Rows /\ \A m \in left : message[m] = "old"
  BY <1>1 DEF Old
<1>6. RetentionTypeOK'
  BY <1>3, <1>4, <1>5 DEF RetentionInv, RetentionTypeOK
<1>7. Old' = Old \ gone
  BY <1>3, <1>5 DEF Old
<1>8. /\ \A q \in Runs : cleanup'[q].cut = cleanup[q].cut
      /\ \A q \in Runs \ {r} : cleanup'[q].stage = cleanup[q].stage
      /\ ~Enough(gone) => cleanup'[r].stage = cleanup[r].stage
  BY <1>3 DEF RetentionInv, RetentionTypeOK
<1>9. Enough(gone) => gone = left
  <2>1. IsFiniteSet(left) /\ Cardinality(left) \in Nat /\ Cardinality(gone) \in Nat
    BY <1>3, <1>5, FS_Subset, FS_CardinalityType, RetentionAssumption
  <2>2. Cardinality(gone) = Cardinality(left) => gone = left
    BY <1>3, <2>1, FS_Subset
  <2> QED BY <1>2, <1>3, <2>1, <2>2, RetentionAssumption DEF Enough
<1>10. \A q \in Runs : cleanup'[q].stage = "done" => cleanup'[q].cut \cap Old' = {}
  BY <1>1, <1>7, <1>8, <1>9 DEF RetentionInv, RetentionComplete
<1>11. \A m \in texts' : message'[m] \in {"young", "old"}
  BY <1>3, <1>5 DEF RetentionInv, RetentionComplete, RetentionTypeOK
<1>12. \A q \in Runs : \A m \in cleanup'[q].cut : message'[m] \in {"old", "deleted"}
  BY <1>3, <1>5, <1>8 DEF RetentionInv, RetentionTypeOK
<1> QED BY <1>4, <1>6, <1>10, <1>11, <1>12 DEF RetentionInv, RetentionComplete

LEMMA RetentionStep == ASSUME RetentionInv, [RetentionNext]_retentionVars PROVE RetentionInv'
<1> USE DEF RetentionInv, RetentionTypeOK, RetentionComplete, Old
<1>1. ASSUME NEW configured \in BOOLEAN, OnModuleInit(configured) PROVE RetentionInv'
  BY <1>1 DEF OnModuleInit
<1>2. CASE OnModuleDestroy
  BY <1>2 DEF OnModuleDestroy
<1>3. ASSUME NEW r \in Runs, TimerFires(r) PROVE RetentionInv'
  BY <1>3 DEF TimerFires
<1>4. ASSUME NEW r \in Runs, Counts(r) PROVE RetentionInv'
  BY <1>4 DEF Counts
<1>5. ASSUME NEW r \in Runs, CleanupFails(r) PROVE RetentionInv'
  BY <1>5 DEF CleanupFails
<1>6. ASSUME NEW m \in Rows, Posted(m) \/ Ages(m) PROVE RetentionInv'
  <2>1. PICK n \in {"young", "old"} :
          /\ message[m] \in {"none", "young"} /\ message' = [message EXCEPT ![m] = n]
          /\ texts' \subseteq texts \cup {m} /\ UNCHANGED <<timers, up, cleanup>>
    BY <1>6 DEF Posted, Ages
  <2>2. /\ message' \in [Rows -> {"none", "young", "old", "deleted"}]
        /\ message'[m] = n /\ \A x \in Rows \ {m} : message'[x] = message[x]
    BY <2>1
  <2>3. \A q \in Runs : m \notin cleanup[q].cut
    BY <2>1
  <2>4. \A q \in Runs : cleanup[q].cut \subseteq Rows
    OBVIOUS
  <2>5. RetentionTypeOK'
    BY <2>1, <2>2
  <2>6. \A x \in texts' : message'[x] \in {"young", "old"}
    BY <2>1, <2>2
  <2>7. \A q \in Runs : \A x \in cleanup'[q].cut : message'[x] \in {"old", "deleted"}
    BY <2>1, <2>2, <2>3, <2>4
  <2>8. \A q \in Runs : cleanup'[q].stage = "done" => cleanup'[q].cut \cap Old' = {}
    BY <2>1, <2>2, <2>3, <2>4
  <2> QED BY <2>1, <2>5, <2>6, <2>7, <2>8
<1>7. CASE UNCHANGED retentionVars
  BY <1>7 DEF retentionVars
<1> QED BY <1>1, <1>2, <1>3, <1>4, <1>5, <1>6, <1>7, DeletesStep DEF RetentionNext

-----------------------------------------------------------------------------
(* The scripts.                                                             *)

LEMMA OneElement ==
  ASSUME NEW S, IsFiniteSet(S)
  PROVE  Cardinality(S) = 1 <=> \E x : S = {x}
<1>1. Cardinality(S) = 1 => \E x : S = {x}
  BY FS_Singleton
<1> QED BY <1>1, FS_Singleton

LEMMA ScriptsFinite == IsFiniteSet(Scripted)
<1>1. IsFiniteSet({"hangul"})
  BY FS_Singleton
<1>2. IsFiniteSet({"hangul"} \cup {"kana"})
  BY <1>1, FS_AddElement
<1>3. IsFiniteSet({"hangul"} \cup {"kana"} \cup {"han"})
  BY <1>2, FS_AddElement
<1>4. IsFiniteSet({"hangul"} \cup {"kana"} \cup {"han"} \cup {"cyrillic"})
  BY <1>3, FS_AddElement
<1>5. IsFiniteSet({"hangul"} \cup {"kana"} \cup {"han"} \cup {"cyrillic"} \cup {"latin"})
  BY <1>4, FS_AddElement
<1>6. Scripted = {"hangul"} \cup {"kana"} \cup {"han"} \cup {"cyrillic"} \cup {"latin"}
  BY DEF Scripted
<1> QED BY <1>5, <1>6

\* What each of the two looks at.
LEMMA KindsOf ==
  ASSUME text \subseteq Characters
  PROVE  /\ Matched \subseteq Scripted /\ Kinds \subseteq Scripted /\ Counted \subseteq Scripted
         /\ Cardinality(Kinds) = 1 <=> \E x : Kinds = {x}
         /\ Cardinality(Counted) = 1 <=> \E x : Counted = {x}
<1>1. \A c \in text : c.server \in Scripted \cup {"none"} /\ c.web \in Scripted \cup {"none"}
  BY TextAssumption
<1>2. Matched \subseteq Scripted /\ Counted \subseteq Scripted
  BY <1>1 DEF Matched, Counted
<1>3. Kinds \subseteq Scripted
  BY <1>2 DEF Kinds
<1>4. IsFiniteSet(Kinds) /\ IsFiniteSet(Counted)
  BY <1>2, <1>3, ScriptsFinite, FS_Subset
<1> QED BY <1>2, <1>3, <1>4, OneElement

\* The language that the server leaves out.
LEMMA ServerLeavesOut ==
  ASSUME text \subseteq Characters
  PROVE  /\ Unambiguous(ServerScript) \in {"ko", "ja", "ru", "null"}
         /\ Unambiguous(ServerScript) = "ko" => Kinds = {"hangul"}
         /\ Unambiguous(ServerScript) = "ja" => Kinds = {"kana"}
         /\ Unambiguous(ServerScript) = "ru" => Kinds = {"cyrillic"}
BY DEF Unambiguous, ServerScript, Named

\* The language that the browser leaves out.
LEMMA BrowserLeavesOut ==
  ASSUME text \subseteq Characters
  PROVE  /\ Unambiguous(WebScript) \in {"ko", "ja", "ru", "null"}
         /\ Unambiguous(WebScript) = "ko" => Counted = {"hangul"}
         /\ Unambiguous(WebScript) = "ja" => Counted \subseteq {"kana", "han"}
         /\ Unambiguous(WebScript) = "ru" => Counted = {"cyrillic"}
BY DEF Unambiguous, WebScript, Named

\* Of letters that the browser knows it counts what the server matches.
LEMMA ContradictsNever == ASSUME text \subseteq Characters PROVE NeverContradict
<1> SUFFICES ASSUME \A c \in text : KnownToBrowser(c)
             PROVE  "null" \in {Unambiguous(ServerScript), Unambiguous(WebScript)}
                      \/ Unambiguous(ServerScript) = Unambiguous(WebScript)
  BY DEF NeverContradict
<1>1. Matched \subseteq Counted
  BY DEF KnownToBrowser, Matched, Counted
<1>2. Kinds \subseteq Counted
  BY <1>1 DEF Kinds
<1> QED BY <1>2, ServerLeavesOut, BrowserLeavesOut

\* Two decisions of the same question, by the kinds that occur.
LEMMA LettersAgree == ASSUME text \subseteq Characters PROVE AgreeOnLetters
<1> SUFFICES ASSUME \A c \in text : Alike(c)
             PROVE  /\ Unambiguous(ServerScript) = Unambiguous(WebScript)
                    /\ Counted # {} => ServerScript = WebScript
                    /\ WebScript # "none" => HasLetters
  BY DEF AgreeOnLetters
<1>1. Matched = Counted
  BY DEF Alike, Matched, Counted
<1>2. Kinds = Counted \ (IF "kana" \in Counted THEN {"han"} ELSE {})
  BY <1>1 DEF Kinds
<1>3. (Cardinality(Kinds) = 1 <=> \E x : Kinds = {x}) /\ (Cardinality(Counted) = 1 <=> \E x : Counted = {x})
  BY KindsOf
<1>4. CASE Counted = {}
  <2>1. ServerScript \in {"none", "mixed"} /\ WebScript = "none"
    BY <1>2, <1>3, <1>4 DEF ServerScript, WebScript
  <2> QED BY <1>4, <2>1 DEF Unambiguous
<1>5. CASE Counted # {}
  <2>1. HasLetters
    BY <1>5 DEF Alike, HasLetters, Counted
  <2>2. CASE "kana" \in Counted
    <3>1. Kinds = Counted \ {"han"} /\ "kana" \in Kinds
      BY <1>2, <2>2
    <3>2. Cardinality(Kinds) = 1 <=> Kinds = {"kana"}
      BY <1>3, <3>1
    <3>3. Kinds = {"kana"} <=> Counted \subseteq {"kana", "han"}
      BY <3>1
    <3>4. Counted # {"kana"} => Cardinality(Counted) # 1
      BY <1>3, <2>2
    <3>5. ServerScript = WebScript
      BY <1>5, <2>1, <3>2, <3>3, <3>4 DEF ServerScript, WebScript, Named
    <3> QED BY <2>1, <3>5
  <2>3. CASE "kana" \notin Counted
    <3>1. Kinds = Counted
      BY <1>2, <2>3
    <3>2. Counted \subseteq {"kana", "han"} => Counted = {"han"}
      BY <1>5, <2>3
    <3>3. Counted \subseteq {"kana", "han"} => Cardinality(Counted) = 1
      BY <1>3, <3>2
    <3>4. ServerScript = WebScript
      BY <1>5, <2>1, <2>3, <3>1, <3>3 DEF ServerScript, WebScript
    <3> QED BY <2>1, <3>4
  <2> QED BY <2>2, <2>3
<1> QED BY <1>4, <1>5

LEMMA ScriptsSafe == ASSUME text \subseteq Characters PROVE ScriptsAgree
BY ContradictsNever, LettersAgree DEF ScriptsAgree

LEMMA ScriptsStep == ASSUME text \subseteq Characters, [NextText]_text PROVE text' \subseteq Characters
BY DEF NextText

-----------------------------------------------------------------------------
(* The memory of translations.                                              *)

\* Whatever stands behind a text in the memory was used since that text was; and of a
\* text that is not there as many others were.
InUseOrder(list, used) == \A i, j \in 1..Len(list) : i < j => list[j] \in used[list[i]]

MemoryInv ==
  /\ memory \in Seq(Texts) /\ OnceEach(memory) /\ Len(memory) <= MemoryMax
  /\ expired \subseteq Range(memory) /\ since \in [Texts -> SUBSET Texts]
  /\ InUseOrder(memory, since)
  /\ \A t \in Texts : t \notin Range(memory) => Cardinality(since[t]) >= MemoryMax

\* Sets of texts are finite.
LEMMA FewTexts ==
  /\ \A S \in SUBSET Texts : IsFiniteSet(S) /\ Cardinality(S) \in Nat
  /\ \A S, T \in SUBSET Texts : S \subseteq T => Cardinality(S) <= Cardinality(T)
  /\ MemoryMax \in Nat /\ MemoryMax >= 1 /\ MemoryMax <= Cardinality(Texts)
<1>1. \A S \in SUBSET Texts : IsFiniteSet(S) /\ Cardinality(S) \in Nat
  BY PostAssumption, FS_Subset, FS_CardinalityType
<1>2. \A S, T \in SUBSET Texts : S \subseteq T => Cardinality(S) <= Cardinality(T)
  BY <1>1, FS_Subset
<1>3. Cardinality(Texts) \in Nat
  BY <1>1
<1> QED BY <1>1, <1>2, <1>3, PostAssumption

\* The memory without a text, and with it at the end.
LEMMA WithoutSound ==
  ASSUME MemoryInv, NEW t \in Texts
  PROVE  /\ MemoryWithout(t) \in Seq(Texts) /\ OnceEach(MemoryWithout(t)) /\ Len(MemoryWithout(t)) <= MemoryMax
         /\ Range(MemoryWithout(t)) = Range(memory) \ {t} /\ InUseOrder(MemoryWithout(t), since)
         /\ t \in Range(memory) => Len(MemoryWithout(t)) < MemoryMax
<1>1. PICK list, rest : list = memory /\ rest = Texts \ {t}
  OBVIOUS
<1>2. PICK out : out = Those(list, rest)
  OBVIOUS
<1>3. out = MemoryWithout(t)
  BY <1>1, <1>2 DEF MemoryWithout
<1>4. list \in Seq(Texts) /\ OnceEach(list) /\ Len(list) <= MemoryMax
  BY <1>1 DEF MemoryInv
<1>5. out \in Seq(Texts) /\ Len(out) \in 0..Len(list) /\ OnceEach(out) /\ Range(out) = Range(list) \cap rest
  BY <1>2, <1>4, ThoseMembers
<1>6. Range(list) \subseteq Texts /\ Range(out) = Range(list) \ {t}
  BY <1>1, <1>4, <1>5, InRange
<1>7. InUseOrder(out, since)
  <2>1. PICK place : Sifts(place, out, list, rest, Len(list))
    BY <1>2, <1>4, ThoseSifted DEF Sifted
  <2>2. InUseOrder(list, since)
    BY <1>1 DEF MemoryInv
  <2> QED BY <2>1, <2>2 DEF Sifts, InUseOrder
<1>8. ASSUME t \in Range(memory) PROVE Len(out) < MemoryMax
  <2>1. /\ IsFiniteSet(Range(list)) /\ Cardinality(Range(list)) = Len(list)
        /\ Cardinality(Range(out)) = Len(out)
    BY <1>4, <1>5, ListCount
  <2>2. Cardinality(Range(list) \ {t}) = Cardinality(Range(list)) - 1
    BY <1>1, <1>8, <2>1, FS_RemoveElement
  <2> QED BY <1>4, <1>6, <2>1, <2>2, FewTexts
<1>9. Len(out) <= MemoryMax
  BY <1>4, <1>5, FewTexts
<1> QED BY <1>1, <1>3, <1>5, <1>6, <1>7, <1>8, <1>9

LEMMA AppendSound ==
  ASSUME MemoryInv, NEW t \in Texts, Used(t), NEW all, all = Append(MemoryWithout(t), t)
  PROVE  /\ all \in Seq(Texts) /\ OnceEach(all) /\ Len(all) <= MemoryMax + 1 /\ Range(all) = Range(memory) \cup {t}
         /\ InUseOrder(all, since') /\ since' \in [Texts -> SUBSET Texts]
         /\ t \in Range(memory) => Len(all) <= MemoryMax
         /\ \A k \in Texts : k \notin Range(all) => Cardinality(since'[k]) >= MemoryMax
<1>1. PICK rest : rest = MemoryWithout(t)
  OBVIOUS
<1>2. /\ rest \in Seq(Texts) /\ OnceEach(rest) /\ Len(rest) <= MemoryMax
      /\ Range(rest) = Range(memory) \ {t} /\ InUseOrder(rest, since)
      /\ t \in Range(memory) => Len(rest) < MemoryMax
  BY <1>1, WithoutSound
<1>3. MemoryMax \in Nat /\ Len(rest) \in Nat
  BY <1>2, FewTexts
<1>4. all \in Seq(Texts) /\ OnceEach(all) /\ Len(all) = Len(rest) + 1 /\ Range(all) = Range(rest) \cup {t}
  BY <1>1, <1>2, AppendedOnce
<1>5. all[Len(rest) + 1] = t /\ \A i \in 1..Len(rest) : all[i] = rest[i]
  BY <1>1, <1>2
<1>6. since' = [k \in Texts |-> IF k = t THEN {} ELSE since[k] \cup {t}] /\ since \in [Texts -> SUBSET Texts]
  BY DEF Used, MemoryInv
<1>7. \A k \in Texts \ {t} : since'[k] = since[k] \cup {t} /\ since'[k] \in SUBSET Texts
  BY <1>6
<1>8. InUseOrder(all, since')
  <2> SUFFICES ASSUME NEW i \in 1..Len(all), NEW j \in 1..Len(all), i < j PROVE all[j] \in since'[all[i]]
    BY DEF InUseOrder
  <2>1. i \in 1..Len(rest) /\ all[i] = rest[i]
    BY <1>3, <1>4, <1>5
  <2>2. rest[i] \in Texts \ {t}
    <3>1. rest[i] \in Range(rest)
      BY <1>2, <2>1, InRange
    <3> QED BY <1>2, <2>1, <3>1
  <2>3. CASE j = Len(rest) + 1
    BY <1>5, <1>7, <2>1, <2>2, <2>3
  <2>4. CASE j \in 1..Len(rest)
    <3>1. rest[j] \in since[rest[i]]
      BY <1>2, <2>1, <2>4 DEF InUseOrder
    <3> QED BY <1>5, <1>7, <2>1, <2>2, <2>4, <3>1
  <2> QED BY <1>3, <1>4, <2>3, <2>4
<1>9. \A k \in Texts : k \notin Range(all) => Cardinality(since'[k]) >= MemoryMax
  <2> SUFFICES ASSUME NEW k \in Texts, k \notin Range(all) PROVE Cardinality(since'[k]) >= MemoryMax
    OBVIOUS
  <2>1. k # t /\ k \notin Range(memory)
    BY <1>2, <1>4
  <2>2. Cardinality(since[k]) >= MemoryMax
    BY <2>1 DEF MemoryInv
  <2>3. since[k] \in SUBSET Texts /\ since'[k] \in SUBSET Texts /\ since[k] \subseteq since'[k]
    BY <1>6, <1>7, <2>1
  <2> QED BY <2>2, <2>3, FewTexts
<1>10. since' \in [Texts -> SUBSET Texts]
  BY <1>6
<1>11. Range(all) = Range(memory) \cup {t}
  BY <1>2, <1>4
<1> QED BY <1>2, <1>3, <1>4, <1>8, <1>9, <1>10, <1>11

\* The oldest goes when as many others were used since.
LEMMA WriteSound ==
  ASSUME MemoryInv, NEW t \in Texts, Write(t)
  PROVE  MemoryInv'
<1>1. PICK all : all = Append(MemoryWithout(t), t)
  OBVIOUS
<1>2. /\ all \in Seq(Texts) /\ OnceEach(all) /\ Len(all) <= MemoryMax + 1 /\ Range(all) = Range(memory) \cup {t}
      /\ InUseOrder(all, since') /\ since' \in [Texts -> SUBSET Texts]
      /\ \A k \in Texts : k \notin Range(all) => Cardinality(since'[k]) >= MemoryMax
  BY <1>1, AppendSound DEF Write
<1>3. memory' = IF Len(all) > MemoryMax THEN Tail(all) ELSE all
  BY <1>1 DEF Write, Remembered
<1>4. MemoryMax \in Nat /\ MemoryMax >= 1 /\ Len(all) \in Nat
  BY <1>2, FewTexts
<1>5. CASE ~(Len(all) > MemoryMax)
  <2>1. memory' = all /\ Len(all) <= MemoryMax
    BY <1>3, <1>4, <1>5
  <2>2. expired' \subseteq Range(memory')
    BY <1>3 DEF Write
  <2> QED BY <1>2, <2>1, <2>2 DEF MemoryInv
<1>6. CASE Len(all) > MemoryMax
  <2>1. PICK rest : rest = Tail(all)
    OBVIOUS
  <2>2. memory' = rest /\ Len(all) = MemoryMax + 1
    BY <1>2, <1>3, <1>4, <1>6, <2>1
  <2>3. /\ rest \in Seq(Texts) /\ Len(rest) = MemoryMax /\ \A i \in 1..Len(rest) : rest[i] = all[i + 1] /\ i + 1 \in 1..Len(all)
        /\ 1 \in 1..Len(all) /\ \A i \in 1..Len(all) : i = 1 \/ (i - 1 \in 1..Len(rest) /\ (i - 1) + 1 = i)
    BY <1>2, <1>4, <2>1, <2>2
  <2>4. OnceEach(rest)
    <3>1. \A i, j \in 1..Len(all) : all[i] = all[j] => i = j
      BY <1>2 DEF OnceEach
    <3> SUFFICES ASSUME NEW i \in 1..Len(rest), NEW j \in 1..Len(rest), rest[i] = rest[j] PROVE i = j
      BY DEF OnceEach
    <3>2. i + 1 = j + 1
      BY <2>3, <3>1
    <3> QED BY <3>2
  <2>5. InUseOrder(rest, since')
    <3> SUFFICES ASSUME NEW i \in 1..Len(rest), NEW j \in 1..Len(rest), i < j PROVE rest[j] \in since'[rest[i]]
      BY DEF InUseOrder
    <3>1. i + 1 \in 1..Len(all) /\ j + 1 \in 1..Len(all) /\ i + 1 < j + 1
      BY <2>3
    <3> QED BY <1>2, <2>3, <3>1 DEF InUseOrder
  <2>6. /\ \A x : x \in Range(rest) <=> \E i \in 1..Len(rest) : rest[i] = x
        /\ \A x : x \in Range(all) <=> \E i \in 1..Len(all) : all[i] = x
    BY <1>2, <2>3, InRange
  <2>7. \A k \in Texts : k \notin Range(rest) => k = all[1] \/ k \notin Range(all)
    BY <2>3, <2>6
  <2>8. Range(rest) \subseteq since'[all[1]]
    <3> SUFFICES ASSUME NEW i \in 1..Len(rest) PROVE rest[i] \in since'[all[1]]
      BY <2>6
    <3>1. i + 1 \in 1..Len(all) /\ 1 < i + 1
      BY <2>3
    <3> QED BY <1>2, <2>3, <3>1 DEF InUseOrder
  <2>9. Cardinality(since'[all[1]]) >= MemoryMax
    <3>1. Cardinality(Range(rest)) = MemoryMax
      BY <2>3, <2>4, ListCount
    <3>2. Range(rest) \in SUBSET Texts /\ since'[all[1]] \in SUBSET Texts
      <4>1. all[1] \in Texts
        BY <1>2, <2>3
      <4>2. Range(rest) \subseteq Texts
        BY <2>3, InRange
      <4> QED BY <1>2, <4>1, <4>2
    <3>3. Cardinality(Range(rest)) <= Cardinality(since'[all[1]])
      BY <2>8, <3>2, FewTexts
    <3>4. Cardinality(since'[all[1]]) \in Nat
      BY <3>2, FewTexts
    <3> QED BY <3>1, <3>3, <3>4
  <2>10. expired' \subseteq Range(memory')
    BY <1>3 DEF Write
  <2>11. Len(rest) <= MemoryMax /\ \A k \in Texts : k \notin Range(rest) => Cardinality(since'[k]) >= MemoryMax
    BY <1>2, <1>4, <2>3, <2>7, <2>9
  <2> QED BY <1>2, <2>2, <2>3, <2>4, <2>5, <2>10, <2>11 DEF MemoryInv
<1> QED BY <1>5, <1>6

\* A hit is used; one whose time is over is forgotten, and counts as never used.
LEMMA AskSound ==
  ASSUME MemoryInv, NEW a \in Asks, NEW t \in Texts, AskFor(a, t)
  PROVE  MemoryInv'
<1>1. CASE /\ t \in Range(memory) \ expired
           /\ memory' = Append(MemoryWithout(t), t) /\ Used(t) /\ UNCHANGED expired
  <2>1. /\ memory' \in Seq(Texts) /\ OnceEach(memory') /\ Range(memory') = Range(memory) \cup {t}
        /\ InUseOrder(memory', since') /\ since' \in [Texts -> SUBSET Texts]
        /\ Len(memory') <= MemoryMax
        /\ \A k \in Texts : k \notin Range(memory') => Cardinality(since'[k]) >= MemoryMax
    <3>1. PICK all : all = Append(MemoryWithout(t), t)
      OBVIOUS
    <3>2. /\ all \in Seq(Texts) /\ OnceEach(all) /\ Range(all) = Range(memory) \cup {t}
          /\ InUseOrder(all, since') /\ since' \in [Texts -> SUBSET Texts]
          /\ Len(all) <= MemoryMax
          /\ \A k \in Texts : k \notin Range(all) => Cardinality(since'[k]) >= MemoryMax
      BY <1>1, <3>1, AppendSound
    <3> QED BY <1>1, <3>1, <3>2
  <2> QED BY <1>1, <2>1 DEF MemoryInv
<1>2. CASE /\ t \notin Range(memory) \ expired
           /\ memory' = MemoryWithout(t) /\ expired' = expired \ {t}
           /\ since' = IF t \in expired THEN [since EXCEPT ![t] = Texts] ELSE since
  <2>1. PICK rest : rest = MemoryWithout(t)
    OBVIOUS
  <2>2. /\ rest \in Seq(Texts) /\ OnceEach(rest) /\ Len(rest) <= MemoryMax
        /\ Range(rest) = Range(memory) \ {t} /\ InUseOrder(rest, since)
    BY <2>1, WithoutSound
  <2>3. since \in [Texts -> SUBSET Texts] /\ memory' = rest /\ expired' \subseteq Range(rest)
    BY <1>2, <2>1, <2>2 DEF MemoryInv
  <2>4. /\ since' \in [Texts -> SUBSET Texts] /\ \A k \in Texts \ {t} : since'[k] = since[k]
        /\ t \in expired => since'[t] = Texts
        /\ t \notin expired => since' = since
    BY <1>2, <2>3
  <2>5. InUseOrder(rest, since')
    <3>1. \A i \in 1..Len(rest) : rest[i] \in Texts \ {t}
      <4>1. \A i \in 1..Len(rest) : rest[i] \in Range(rest) /\ rest[i] \in Texts
        BY <2>2, InRange
      <4> QED BY <2>2, <4>1
    <3> QED BY <2>2, <2>4, <3>1 DEF InUseOrder
  <2>6. \A k \in Texts : k \notin Range(rest) => Cardinality(since'[k]) >= MemoryMax
    <3> SUFFICES ASSUME NEW k \in Texts, k \notin Range(rest) PROVE Cardinality(since'[k]) >= MemoryMax
      OBVIOUS
    <3>1. CASE k = t /\ t \in expired
      BY <2>4, <3>1, FewTexts
    <3>2. CASE k # t \/ t \notin expired
      BY <1>2, <2>2, <2>4, <3>2 DEF MemoryInv
    <3> QED BY <3>1, <3>2
  <2> QED BY <2>2, <2>3, <2>4, <2>5, <2>6 DEF MemoryInv
<1> QED BY <1>1, <1>2 DEF AskFor

LEMMA MemoryStarts == PostInit => MemoryInv
<1> SUFFICES ASSUME PostInit PROVE MemoryInv
  OBVIOUS
<1>1. memory = <<>> /\ expired = {} /\ since = [t \in Texts |-> Texts]
  BY DEF PostInit
<1>2. Range(<<>>) = {} /\ OnceEach(<<>>) /\ Len(<<>>) = 0 /\ <<>> \in Seq(Texts)
  BY DEF Range, OnceEach
<1> QED BY <1>1, <1>2, FewTexts DEF MemoryInv, InUseOrder

LEMMA MemoryKept ==
  ASSUME MemoryInv, memory' = memory, since' = since, expired' \subseteq Range(memory)
  PROVE  MemoryInv'
BY DEF MemoryInv, InUseOrder

-----------------------------------------------------------------------------
(* Who calls the engine for a text, and who waits for that call.            *)

AskStages == {"idle", "looking", "found", "missing", "waiting", "calling", "storing", "answered", "refused"}
Requests == [stage : AskStages, text : Texts, on : Asks \cup {NoAsk}]
Owning == {"calling", "storing"}

PostTypes ==
  ask \in [Asks -> Requests] /\ table \subseteq Texts /\ pending \in [Texts -> Asks \cup {NoAsk}]

\* pending names the request whose call is under way, which waits for itself, as
\* those do who joined; nobody else waits for anything.
Owners ==
  /\ \A t \in Texts : pending[t] # NoAsk => ask[pending[t]].text = t /\ ask[pending[t]].stage \in Owning
  /\ \A a \in Asks : ask[a].stage \in Owning => pending[ask[a].text] = a /\ ask[a].on = a
  /\ \A a \in Asks : ask[a].stage = "waiting" =>
       ask[a].on \in Asks /\ ask[ask[a].on].text = ask[a].text /\ ask[ask[a].on].stage \in Owning
  /\ \A a \in Asks : ask[a].on # NoAsk => ask[a].stage \in Owning \cup {"waiting"}

PostInv == PostTypes /\ Owners /\ MemoryInv

LEMMA PostStarts == PostInit => PostInv
<1> SUFFICES ASSUME PostInit PROVE PostInv
  OBVIOUS
<1>1. PICK t \in Texts : t = CHOOSE u \in Texts : TRUE
  <2>1. Texts # {}
    BY PostAssumption, FS_EmptySet
  <2> QED BY <2>1
<1>2. PICK n : n = NotAsked
  OBVIOUS
<1>3. n = [stage |-> "idle", text |-> t, on |-> NoAsk]
  BY <1>1, <1>2 DEF NotAsked
<1>4. n \in Requests /\ n.stage = "idle" /\ n.on = NoAsk
  BY <1>3 DEF Requests, AskStages
<1>5. ask = [a \in Asks |-> n] /\ table = {} /\ pending = [u \in Texts |-> NoAsk]
  BY <1>2 DEF PostInit
<1>6. PostTypes
  BY <1>4, <1>5 DEF PostTypes
<1>7. Owners
  BY <1>4, <1>5 DEF Owners, Owning
<1> QED BY <1>6, <1>7, MemoryStarts DEF PostInv

\* A request that neither calls nor waits, before and after.
LEMMA AloneOwners ==
  ASSUME PostTypes, Owners, NEW a \in Asks, NEW n \in Requests, ask' = [ask EXCEPT ![a] = n],
         ask[a].stage \notin Owning \cup {"waiting"}, n.stage \notin Owning \cup {"waiting"}, n.on = NoAsk,
         pending' = pending, table' \subseteq Texts
  PROVE  PostTypes' /\ Owners'
<1>1. ask \in [Asks -> Requests] /\ pending \in [Texts -> Asks \cup {NoAsk}] /\ NoAsk \notin Asks
  BY PostAssumption DEF PostTypes
<1>2. ask' \in [Asks -> Requests] /\ ask'[a] = n /\ \A o \in Asks \ {a} : ask'[o] = ask[o]
  BY <1>1
<1>3. PostTypes'
  BY <1>1, <1>2 DEF PostTypes
<1>4. /\ \A t \in Texts : pending[t] # NoAsk => pending[t] \in Asks /\ pending[t] # a
      /\ \A o \in Asks : ask[o].stage = "waiting" => ask[o].on \in Asks /\ ask[o].on # a
  BY <1>1 DEF Owners
<1>5. Owners'
  BY <1>2, <1>4 DEF Owners
<1> QED BY <1>3, <1>5

\* The first to miss a text owns its call.
LEMMA FirstOwners ==
  ASSUME PostTypes, Owners, NEW a \in Asks, At(a, "missing"), pending[ask[a].text] = NoAsk,
         ask' = [ask EXCEPT ![a].stage = "calling", ![a].on = a],
         pending' = [pending EXCEPT ![ask[a].text] = a], table' = table
  PROVE  PostTypes' /\ Owners'
<1>1. ask \in [Asks -> Requests] /\ pending \in [Texts -> Asks \cup {NoAsk}] /\ NoAsk \notin Asks
  BY PostAssumption DEF PostTypes
<1>2. PICK r, t : r = ask[a] /\ t = ask[a].text
  OBVIOUS
<1>3. PICK n : n = [r EXCEPT !.stage = "calling", !.on = a]
  OBVIOUS
<1>4. r \in Requests /\ t \in Texts /\ r.stage = "missing"
  BY <1>1, <1>2 DEF At, Requests
<1>5. n \in Requests /\ n.stage = "calling" /\ n.on = a /\ n.text = t
  BY <1>2, <1>3, <1>4 DEF Requests, AskStages
<1>6. ask' \in [Asks -> Requests] /\ ask'[a] = n /\ \A o \in Asks \ {a} : ask'[o] = ask[o]
  BY <1>1, <1>2, <1>3, <1>5
<1>7. /\ pending' \in [Texts -> Asks \cup {NoAsk}] /\ pending'[t] = a
      /\ \A u \in Texts \ {t} : pending'[u] = pending[u]
  BY <1>1, <1>2, <1>4
<1>8. PostTypes'
  BY <1>6, <1>7 DEF PostTypes
<1>9. /\ \A u \in Texts : pending[u] # NoAsk => pending[u] \in Asks /\ pending[u] # a /\ u # t
      /\ \A o \in Asks : ask[o].stage = "waiting" => ask[o].on \in Asks /\ ask[o].on # a
      /\ \A o \in Asks : ask[o].stage \in Owning => o # a /\ ask[o].text # t /\ ask[o].text \in Texts
  BY <1>1, <1>2, <1>4 DEF Owners, Owning, Requests
<1>10. "calling" \in Owning
  BY DEF Owning
<1>11. Owners'
  <2>1. \A u \in Texts : pending'[u] # NoAsk => ask'[pending'[u]].text = u /\ ask'[pending'[u]].stage \in Owning
    BY <1>5, <1>6, <1>7, <1>9, <1>10 DEF Owners
  <2>2. \A o \in Asks : ask'[o].stage \in Owning => pending'[ask'[o].text] = o /\ ask'[o].on = o
    BY <1>5, <1>6, <1>7, <1>9 DEF Owners
  <2>3. \A o \in Asks : ask'[o].stage = "waiting" =>
          ask'[o].on \in Asks /\ ask'[ask'[o].on].text = ask'[o].text /\ ask'[ask'[o].on].stage \in Owning
    BY <1>5, <1>6, <1>9 DEF Owners
  <2>4. \A o \in Asks : ask'[o].on # NoAsk => ask'[o].stage \in Owning \cup {"waiting"}
    BY <1>5, <1>6, <1>10 DEF Owners
  <2> QED BY <2>1, <2>2, <2>3, <2>4 DEF Owners
<1> QED BY <1>8, <1>11

\* Whoever misses it while the call is under way waits for its owner.
LEMMA JoinOwners ==
  ASSUME PostTypes, Owners, NEW a \in Asks, Joins(a)
  PROVE  PostTypes' /\ Owners'
<1>1. /\ ask \in [Asks -> Requests] /\ pending \in [Texts -> Asks \cup {NoAsk}] /\ NoAsk \notin Asks
      /\ pending' = pending /\ table' = table
  BY PostAssumption DEF PostTypes, Joins
<1>2. PICK r, t, o : r = ask[a] /\ t = ask[a].text /\ o = pending[ask[a].text]
  OBVIOUS
<1>3. PICK n : n = [r EXCEPT !.stage = "waiting", !.on = o]
  OBVIOUS
<1>4. r \in Requests /\ t \in Texts /\ r.stage = "missing" /\ o \in Asks
  BY <1>1, <1>2 DEF At, Requests, Joins
<1>5. n \in Requests /\ n.stage = "waiting" /\ n.on = o /\ n.text = t
  BY <1>2, <1>3, <1>4 DEF Requests, AskStages
<1>6. ask' \in [Asks -> Requests] /\ ask'[a] = n /\ \A v \in Asks \ {a} : ask'[v] = ask[v]
  BY <1>1, <1>2, <1>3, <1>5 DEF Joins
<1>7. PostTypes'
  BY <1>1, <1>6 DEF PostTypes
<1>8. /\ \A u \in Texts : pending[u] # NoAsk => pending[u] \in Asks /\ pending[u] # a
      /\ \A v \in Asks : ask[v].stage = "waiting" => ask[v].on \in Asks /\ ask[v].on # a
      /\ o # a /\ ask[o].text = t /\ ask[o].stage \in Owning
  BY <1>1, <1>2, <1>4 DEF Owners, Owning
<1>9. "waiting" \notin Owning
  BY DEF Owning
<1>10. Owners'
  <2>1. \A u \in Texts : pending'[u] # NoAsk => ask'[pending'[u]].text = u /\ ask'[pending'[u]].stage \in Owning
    BY <1>1, <1>6, <1>8 DEF Owners
  <2>2. \A v \in Asks : ask'[v].stage \in Owning => pending'[ask'[v].text] = v /\ ask'[v].on = v
    BY <1>1, <1>5, <1>6, <1>9 DEF Owners
  <2>3. \A v \in Asks : ask'[v].stage = "waiting" =>
          ask'[v].on \in Asks /\ ask'[ask'[v].on].text = ask'[v].text /\ ask'[ask'[v].on].stage \in Owning
    BY <1>4, <1>5, <1>6, <1>8 DEF Owners
  <2>4. \A v \in Asks : ask'[v].on # NoAsk => ask'[v].stage \in Owning \cup {"waiting"}
    BY <1>5, <1>6 DEF Owners
  <2> QED BY <2>1, <2>2, <2>3, <2>4 DEF Owners
<1> QED BY <1>7, <1>10

\* When the call is over, all who waited for it are answered, and no other call is touched.
LEMMA OverOwners ==
  ASSUME PostTypes, Owners, NEW a \in Asks, ask[a].stage \in Owning,
         NEW stage \in {"answered", "refused"}, CallOver(a, stage), table' \subseteq Texts
  PROVE  PostTypes' /\ Owners'
<1>1. ask \in [Asks -> Requests] /\ pending \in [Texts -> Asks \cup {NoAsk}] /\ NoAsk \notin Asks
  BY PostAssumption DEF PostTypes
<1>2. PICK t : t = ask[a].text
  OBVIOUS
<1>3. t \in Texts /\ pending[t] = a /\ ask[a].on = a
  BY <1>1, <1>2 DEF Owners, Requests
<1>4. \A o \in Asks : ask[o].on # a => ask'[o] = ask[o]
  BY Zenon DEF CallOver
<1>5. \A o \in Asks : ask[o].on = a =>
        ask'[o] \in Requests /\ ask'[o].stage = stage /\ ask'[o].on = NoAsk
  <2> SUFFICES ASSUME NEW o \in Asks, ask[o].on = a
               PROVE  ask'[o] \in Requests /\ ask'[o].stage = stage /\ ask'[o].on = NoAsk
    OBVIOUS
  <2>1. PICK r : r = ask[o]
    OBVIOUS
  <2>2. PICK n : n = [r EXCEPT !.stage = stage, !.on = NoAsk]
    OBVIOUS
  <2>3. r \in Requests
    BY <1>1, <2>1
  <2>4. n \in Requests /\ n.stage = stage /\ n.on = NoAsk
    BY <2>2, <2>3 DEF Requests, AskStages
  <2>5. ask'[o] = n
    BY <2>1, <2>2, Zenon DEF CallOver
  <2> QED BY <2>4, <2>5
<1>6. ask' \in [Asks -> Requests]
  <2>1. \A o \in Asks : ask'[o] \in Requests
    BY <1>1, <1>4, <1>5
  <2>2. ask' = [o \in Asks |-> ask'[o]]
    BY Zenon DEF CallOver
  <2> QED BY <2>1, <2>2
<1>7. /\ pending' \in [Texts -> Asks \cup {NoAsk}] /\ pending'[t] = NoAsk
      /\ \A u \in Texts \ {t} : pending'[u] = pending[u]
  BY <1>1, <1>2, <1>3, Zenon DEF CallOver
<1>8. PostTypes'
  BY <1>6, <1>7 DEF PostTypes
<1>9. stage \notin Owning \cup {"waiting"}
  BY DEF Owning
<1>10. Owners'
  <2>1. \A u \in Texts : pending'[u] # NoAsk => ask'[pending'[u]].text = u /\ ask'[pending'[u]].stage \in Owning
    <3> SUFFICES ASSUME NEW u \in Texts, pending'[u] # NoAsk
                 PROVE  ask'[pending'[u]].text = u /\ ask'[pending'[u]].stage \in Owning
      OBVIOUS
    <3>1. u # t /\ pending'[u] = pending[u] /\ pending[u] \in Asks
      BY <1>1, <1>7
    <3>2. ask[pending[u]].text = u /\ ask[pending[u]].stage \in Owning /\ pending[u] # a
      BY <1>2, <3>1 DEF Owners
    <3>3. ask[pending[u]].on = pending[u]
      BY <3>1, <3>2 DEF Owners
    <3> QED BY <1>4, <3>1, <3>2, <3>3
  <2>2. \A o \in Asks : ask'[o].stage \in Owning => pending'[ask'[o].text] = o /\ ask'[o].on = o
    <3> SUFFICES ASSUME NEW o \in Asks, ask'[o].stage \in Owning PROVE pending'[ask'[o].text] = o /\ ask'[o].on = o
      OBVIOUS
    <3>1. ask[o].on # a /\ ask'[o] = ask[o]
      BY <1>4, <1>5, <1>9
    <3>2. pending[ask[o].text] = o /\ ask[o].on = o /\ ask[o].text \in Texts
      BY <1>1, <3>1 DEF Owners, Requests
    <3> QED BY <1>3, <1>7, <3>1, <3>2
  <2>3. \A o \in Asks : ask'[o].stage = "waiting" =>
          ask'[o].on \in Asks /\ ask'[ask'[o].on].text = ask'[o].text /\ ask'[ask'[o].on].stage \in Owning
    <3> SUFFICES ASSUME NEW o \in Asks, ask'[o].stage = "waiting"
                 PROVE  ask'[o].on \in Asks /\ ask'[ask'[o].on].text = ask'[o].text /\ ask'[ask'[o].on].stage \in Owning
      OBVIOUS
    <3>1. ask[o].on # a /\ ask'[o] = ask[o]
      BY <1>4, <1>5, <1>9
    <3>2. ask[o].on \in Asks /\ ask[ask[o].on].text = ask[o].text /\ ask[ask[o].on].stage \in Owning
      BY <3>1 DEF Owners
    <3>3. ask[ask[o].on].on = ask[o].on
      BY <3>2 DEF Owners
    <3> QED BY <1>4, <3>1, <3>2, <3>3
  <2>4. \A o \in Asks : ask'[o].on # NoAsk => ask'[o].stage \in Owning \cup {"waiting"}
    BY <1>4, <1>5 DEF Owners
  <2> QED BY <2>1, <2>2, <2>3, <2>4 DEF Owners
<1> QED BY <1>8, <1>10

\* A step in which a request goes on alone.
LEMMA GoesAlone ==
  ASSUME PostTypes, Owners, NEW a \in Asks, NEW stage \in AskStages \ {"waiting", "calling", "storing"},
         Goes(a, stage), ask[a].stage \notin Owning \cup {"waiting"}, pending' = pending, table' = table
  PROVE  PostTypes' /\ Owners'
<1>1. ask \in [Asks -> Requests]
  BY DEF PostTypes
<1>2. PICK r : r = ask[a]
  OBVIOUS
<1>3. PICK n : n = [r EXCEPT !.stage = stage]
  OBVIOUS
<1>4. r \in Requests /\ r.on = NoAsk
  <2>1. r \in Requests
    BY <1>1, <1>2
  <2>2. r.on = NoAsk
    BY <1>2 DEF Owners
  <2> QED BY <2>1, <2>2
<1>5. n \in Requests /\ n.stage = stage /\ n.on = NoAsk
  BY <1>3, <1>4 DEF Requests
<1>6. ask' = [ask EXCEPT ![a] = n]
  BY <1>2, <1>3 DEF Goes
<1>7. n.stage \notin Owning \cup {"waiting"}
  BY <1>5 DEF Owning
<1>8. table' \subseteq Texts
  BY DEF PostTypes
<1> QED BY <1>5, <1>6, <1>7, <1>8, AloneOwners

LEMMA AskOwners ==
  ASSUME PostTypes, Owners, NEW a \in Asks, NEW t \in Texts, AskFor(a, t)
  PROVE  PostTypes' /\ Owners'
<1>1. /\ ask[a].stage = "idle" /\ pending' = pending /\ table' \subseteq Texts
  BY DEF AskFor, At, PostTypes
<1>2. PICK stage \in {"answered", "looking"} : ask' = [ask EXCEPT ![a] = [stage |-> stage, text |-> t, on |-> NoAsk]]
  BY DEF AskFor
<1>3. PICK n : n = [stage |-> stage, text |-> t, on |-> NoAsk]
  OBVIOUS
<1>4. n \in Requests /\ n.stage \in {"answered", "looking"} /\ n.on = NoAsk
  BY <1>3 DEF Requests, AskStages
<1>5. ask[a].stage \notin Owning \cup {"waiting"} /\ n.stage \notin Owning \cup {"waiting"}
  BY <1>1, <1>4 DEF Owning
<1> QED BY <1>1, <1>2, <1>3, <1>4, <1>5, AloneOwners

\* The call goes on: the answer is there, the row is still to be written.
LEMMA AnswerOwners ==
  ASSUME PostTypes, Owners, NEW a \in Asks, EngineAnswers(a)
  PROVE  PostTypes' /\ Owners'
<1>1. /\ ask \in [Asks -> Requests] /\ ask[a].stage = "calling" /\ pending' = pending /\ table' = table
  BY DEF PostTypes, EngineAnswers, At
<1>2. PICK r : r = ask[a]
  OBVIOUS
<1>3. PICK n : n = [r EXCEPT !.stage = "storing"]
  OBVIOUS
<1>4. r \in Requests
  BY <1>1, <1>2
<1>5. n \in Requests /\ n.stage = "storing" /\ n.on = r.on /\ n.text = r.text
  BY <1>3, <1>4 DEF Requests, AskStages
<1>6. ask' \in [Asks -> Requests] /\ ask'[a] = n /\ \A o \in Asks \ {a} : ask'[o] = ask[o]
  BY <1>1, <1>2, <1>3, <1>5 DEF EngineAnswers, Goes
<1>7. PostTypes'
  BY <1>1, <1>6 DEF PostTypes
<1>8. "storing" \in Owning /\ "calling" \in Owning /\ "waiting" \notin Owning
  BY DEF Owning
<1>9. \A o \in Asks : /\ ask'[o].text = ask[o].text /\ ask'[o].on = ask[o].on
                      /\ ask'[o].stage \in Owning <=> ask[o].stage \in Owning
                      /\ ask'[o].stage = "waiting" <=> ask[o].stage = "waiting"
  BY <1>1, <1>2, <1>5, <1>6, <1>8
<1>10. \A t \in Texts : pending[t] # NoAsk => pending[t] \in Asks
  BY DEF PostTypes
<1>11. Owners'
  <2>1. \A u \in Texts : pending'[u] # NoAsk => ask'[pending'[u]].text = u /\ ask'[pending'[u]].stage \in Owning
    BY <1>1, <1>9, <1>10 DEF Owners
  <2>2. \A o \in Asks : ask'[o].stage \in Owning => pending'[ask'[o].text] = o /\ ask'[o].on = o
    BY <1>1, <1>9 DEF Owners
  <2>3. \A o \in Asks : ask'[o].stage = "waiting" =>
          ask'[o].on \in Asks /\ ask'[ask'[o].on].text = ask'[o].text /\ ask'[ask'[o].on].stage \in Owning
    BY <1>9 DEF Owners
  <2>4. \A o \in Asks : ask'[o].on # NoAsk => ask'[o].stage \in Owning \cup {"waiting"}
    BY <1>9 DEF Owners
  <2> QED BY <2>1, <2>2, <2>3, <2>4 DEF Owners
<1> QED BY <1>7, <1>11

LEMMA PostStep == PostInv /\ [PostNext]_postVars => PostInv'
<1> SUFFICES ASSUME PostInv, [PostNext]_postVars PROVE PostInv'
  OBVIOUS
<1>1. PostTypes /\ Owners /\ MemoryInv
  BY DEF PostInv
<1>2. expired \subseteq Range(memory)
  BY <1>1 DEF MemoryInv
<1>3. ASSUME NEW a \in Asks, Limited(a) PROVE PostInv'
  <2>1. ask[a].stage \notin Owning \cup {"waiting"}
    BY <1>3 DEF Limited, At, Owning
  <2>2. PostTypes' /\ Owners'
    BY <1>1, <1>3, <2>1, GoesAlone DEF Limited, AskStages
  <2>3. MemoryInv'
    BY <1>1, <1>2, <1>3, MemoryKept DEF Limited
  <2> QED BY <2>2, <2>3 DEF PostInv
<1>4. ASSUME NEW a \in Asks, Looks(a) PROVE PostInv'
  <2>1. ask[a].stage \notin Owning \cup {"waiting"}
    BY <1>4 DEF Looks, At, Owning
  <2>2. PICK stage \in {"found", "missing", "refused"} : Goes(a, stage)
    BY <1>4 DEF Looks
  <2>3. PostTypes' /\ Owners'
    BY <1>1, <1>4, <2>1, <2>2, GoesAlone DEF Looks, AskStages
  <2>4. MemoryInv'
    BY <1>1, <1>2, <1>4, MemoryKept DEF Looks
  <2> QED BY <2>3, <2>4 DEF PostInv
<1>5. ASSUME NEW a \in Asks, FoundIt(a) PROVE PostInv'
  <2>1. ask[a].stage \notin Owning \cup {"waiting"} /\ ask[a].text \in Texts
    <3>1. ask[a].text \in Texts
      BY <1>1 DEF PostTypes, Requests
    <3> QED BY <1>5, <3>1 DEF FoundIt, At, Owning
  <2>2. PostTypes' /\ Owners'
    BY <1>1, <1>5, <2>1, GoesAlone DEF FoundIt, AskStages
  <2>3. MemoryInv'
    BY <1>1, <1>5, <2>1, WriteSound DEF FoundIt
  <2> QED BY <2>2, <2>3 DEF PostInv
<1>6. ASSUME NEW a \in Asks, Joins(a) PROVE PostInv'
  <2>1. PostTypes' /\ Owners'
    BY <1>1, <1>6, JoinOwners
  <2>2. MemoryInv'
    BY <1>1, <1>2, <1>6, MemoryKept DEF Joins
  <2> QED BY <2>1, <2>2 DEF PostInv
<1>7. ASSUME NEW a \in Asks, Misses(a) PROVE PostInv'
  <2>0. /\ At(a, "missing") /\ pending[ask[a].text] = NoAsk
        /\ table' = table /\ memory' = memory /\ expired' = expired /\ since' = since
        /\ \/ /\ ask' = [ask EXCEPT ![a].stage = "calling", ![a].on = a]
              /\ pending' = [pending EXCEPT ![ask[a].text] = a]
           \/ Goes(a, "refused") /\ pending' = pending
    BY <1>7 DEF Misses
  <2>1. ASSUME ask' = [ask EXCEPT ![a].stage = "calling", ![a].on = a],
               pending' = [pending EXCEPT ![ask[a].text] = a]
        PROVE  PostTypes' /\ Owners'
    BY <1>1, <2>0, <2>1, FirstOwners
  <2>2. ASSUME Goes(a, "refused"), pending' = pending
        PROVE  PostTypes' /\ Owners'
    <3>1. ask[a].stage \notin Owning \cup {"waiting"}
      BY <2>0 DEF At, Owning
    <3>2. "refused" \in AskStages \ {"waiting", "calling", "storing"}
      BY DEF AskStages
    <3> QED BY <1>1, <2>0, <2>2, <3>1, <3>2, GoesAlone
  <2>3. PostTypes' /\ Owners'
    BY <2>0, <2>1, <2>2
  <2>4. MemoryInv'
    BY <1>1, <1>2, <2>0, MemoryKept
  <2> QED BY <2>3, <2>4 DEF PostInv
<1>8. ASSUME NEW a \in Asks, EngineAnswers(a) PROVE PostInv'
  <2>1. PostTypes' /\ Owners'
    BY <1>1, <1>8, AnswerOwners
  <2>2. ask[a].text \in Texts
    BY <1>1 DEF PostTypes, Requests
  <2>3. MemoryInv'
    BY <1>1, <1>8, <2>2, WriteSound DEF EngineAnswers
  <2> QED BY <2>1, <2>3 DEF PostInv
<1>9. ASSUME NEW a \in Asks, EngineFails(a) PROVE PostInv'
  <2>1. ask[a].stage \in Owning /\ table' \subseteq Texts
    BY <1>1, <1>9 DEF EngineFails, At, Owning, PostTypes
  <2>2. PostTypes' /\ Owners'
    BY <1>1, <1>9, <2>1, OverOwners DEF EngineFails
  <2>3. MemoryInv'
    BY <1>1, <1>2, <1>9, MemoryKept DEF EngineFails
  <2> QED BY <2>2, <2>3 DEF PostInv
<1>10. ASSUME NEW a \in Asks, Stored(a) PROVE PostInv'
  <2>1. ask[a].stage \in Owning /\ table' \subseteq Texts
    <3>1. ask[a].text \in Texts
      BY <1>1 DEF PostTypes, Requests
    <3> QED BY <1>1, <1>10, <3>1 DEF Stored, At, Owning, PostTypes
  <2>2. PostTypes' /\ Owners'
    BY <1>1, <1>10, <2>1, OverOwners DEF Stored
  <2>3. MemoryInv'
    BY <1>1, <1>2, <1>10, MemoryKept DEF Stored
  <2> QED BY <2>2, <2>3 DEF PostInv
<1>11. ASSUME NEW a \in Asks, NEW t \in Texts, AskFor(a, t) PROVE PostInv'
  BY <1>1, <1>11, AskOwners, AskSound DEF PostInv
<1>12. ASSUME NEW t \in Texts, Expires(t) PROVE PostInv'
  <2>1. PostTypes' /\ Owners'
    BY <1>1, <1>12 DEF PostTypes, Owners, Expires
  <2>2. MemoryInv'
    BY <1>1, <1>2, <1>12, MemoryKept DEF Expires
  <2> QED BY <2>1, <2>2 DEF PostInv
<1>13. CASE UNCHANGED postVars
  <2>1. PostTypes' /\ Owners'
    BY <1>1, <1>13 DEF PostTypes, Owners, postVars
  <2>2. MemoryInv'
    BY <1>1, <1>2, <1>13, MemoryKept DEF postVars
  <2> QED BY <2>1, <2>2 DEF PostInv
<1>14. CASE PostNext
  BY <1>3, <1>4, <1>5, <1>6, <1>7, <1>8, <1>9, <1>10, <1>11, <1>12, <1>14 DEF PostNext, PostSteps
<1> QED BY <1>13, <1>14

LEMMA PostSafe == PostInv => PostTypeOK /\ OneCallPerText /\ LatelyUsedKept
<1> SUFFICES ASSUME PostInv PROVE PostTypeOK /\ OneCallPerText /\ LatelyUsedKept
  OBVIOUS
<1>1. /\ ask \in [Asks -> Requests] /\ pending \in [Texts -> Asks \cup {NoAsk}] /\ NoAsk \notin Asks
      /\ table \subseteq Texts /\ Owners
  BY PostAssumption DEF PostInv, PostTypes
<1>2. /\ memory \in Seq(Texts) /\ OnceEach(memory) /\ Len(memory) <= MemoryMax /\ expired \subseteq Range(memory)
      /\ since \in [Texts -> SUBSET Texts]
      /\ \A t \in Texts : t \notin Range(memory) => Cardinality(since[t]) >= MemoryMax
  BY DEF PostInv, MemoryInv
<1>3. PostTypeOK
  <2>1. IsInjective(memory)
    BY <1>2 DEF OnceEach, IsInjective
  <2>2. Range(memory) \subseteq Texts
    BY <1>2, InRange
  <2>3. ask \in [Asks -> [stage : {"idle", "looking", "found", "missing", "waiting", "calling",
                                   "storing", "answered", "refused"}, text : Texts, on : Asks \cup {NoAsk}]]
    BY <1>1 DEF Requests, AskStages
  <2> QED BY <1>1, <1>2, <2>1, <2>2, <2>3 DEF PostTypeOK
<1>4. \A a \in Asks : ask[a].text \in Texts
  BY <1>1 DEF Requests
<1>5. OneCallPerText
  <2>1. ASSUME NEW t \in Texts PROVE UnderWay(t) = {pending[t]} \ {NoAsk}
    <3>1. UnderWay(t) \subseteq {pending[t]} \ {NoAsk}
      BY <1>1 DEF UnderWay, Owners, Owning
    <3>2. {pending[t]} \ {NoAsk} \subseteq UnderWay(t)
      <4> SUFFICES ASSUME pending[t] # NoAsk PROVE pending[t] \in UnderWay(t)
        OBVIOUS
      <4>1. pending[t] \in Asks
        BY <1>1
      <4>2. ask[pending[t]].text = t /\ ask[pending[t]].stage \in Owning
        BY <1>1 DEF Owners
      <4> QED BY <4>1, <4>2 DEF UnderWay, Owning
    <3> QED BY <3>1, <3>2
  <2>2. \A a \in Asks : At(a, "waiting") => ask[a].on \in UnderWay(ask[a].text)
    BY <1>1 DEF UnderWay, Owners, Owning, At
  <2> QED BY <2>1, <2>2 DEF OneCallPerText
<1>6. LatelyUsedKept
  <2> SUFFICES ASSUME NEW t \in Texts, Cardinality(since[t]) < MemoryMax, t \notin Range(memory) PROVE FALSE
    BY DEF LatelyUsedKept
  <2>1. Cardinality(since[t]) \in Nat /\ MemoryMax \in Nat
    BY <1>2, FewTexts
  <2> QED BY <1>2, <2>1
<1> QED BY <1>3, <1>5, <1>6

-----------------------------------------------------------------------------
(* The calls of the engine.                                                 *)

CallRecords == [parts : Seq(Parts), retry : BOOLEAN]
Weights == [Parts -> Nat]

\* A list of parts for one call: it fits, or cannot be cut further.
Fit(z, parts) == parts \in Seq(Parts) /\ parts # <<>> /\ OnceEach(parts) /\ (Len(parts) > 1 => Total(z, parts) <= Budget)

\* The calls of a list ask for different parts.
WellCut(list, k, z) ==
  /\ list \in Seq(CallRecords)
  /\ \A i \in 1..Len(list) : Fit(z, list[i].parts) /\ (k = "batch" /\ ~list[i].retry => Len(list[i].parts) = 1)
  /\ \A i, j \in 1..Len(list) : i # j => Range(list[i].parts) \cap Range(list[j].parts) = {}

Members(list) == {p \in Parts : \E i \in 1..Len(list) : p \in Range(list[i].parts)}

\* What a call may still cost: one for each of its parts, and one more for each that it
\* may be cut off at or tried again for.
Again(call, k) ==
  IF k = "multi" THEN Range(call.parts) \ {call.parts[Len(call.parts)]}
  ELSE IF call.retry THEN Range(call.parts) ELSE {}
MayCost(call, k) == {x \in Parts \X {1, 2} : x[1] \in Range(call.parts) /\ (x[2] = 1 => x[1] \in Again(call, k))}
Spare(list, k) == {x \in Parts \X {1, 2} : \E i \in 1..Len(list) : x \in MayCost(list[i], k)}

\* The first call and the rest.
LEMMA FirstCall ==
  ASSUME NEW k, NEW z, NEW list, WellCut(list, k, z), list # <<>>
  PROVE  /\ Head(list) = list[1] /\ list[1] \in CallRecords /\ Fit(z, list[1].parts)
         /\ (k = "batch" /\ ~list[1].retry => Len(list[1].parts) = 1)
         /\ WellCut(Tail(list), k, z)
         /\ Members(list) = Range(list[1].parts) \cup Members(Tail(list))
         /\ Range(list[1].parts) \cap Members(Tail(list)) = {}
         /\ Spare(Tail(list), k) \subseteq Spare(list, k) /\ MayCost(list[1], k) \subseteq Spare(list, k)
<1>1. PICK rest : rest = Tail(list)
  OBVIOUS
<1>2. list \in Seq(CallRecords)
  BY DEF WellCut
<1>3. /\ rest \in Seq(CallRecords) /\ Len(rest) \in Nat /\ Len(list) = Len(rest) + 1
      /\ \A i \in 1..Len(rest) : rest[i] = list[i + 1]
      /\ Head(list) = list[1] /\ list[1] \in CallRecords
  BY <1>1, <1>2
<1>4. /\ \A i \in 1..Len(rest) : i + 1 \in 1..Len(list) /\ i + 1 # 1
      /\ \A i \in 1..Len(list) : i = 1 \/ (i - 1 \in 1..Len(rest) /\ rest[i - 1] = list[i])
      /\ 1 \in 1..Len(list)
  BY <1>3
<1>4a. \A i, j \in 1..Len(list) : i # j => Range(list[i].parts) \cap Range(list[j].parts) = {}
  BY DEF WellCut
<1>5. WellCut(rest, k, z)
  <2>1. \A i \in 1..Len(rest) : Fit(z, rest[i].parts) /\ (k = "batch" /\ ~rest[i].retry => Len(rest[i].parts) = 1)
    BY <1>3, <1>4 DEF WellCut
  <2>2. \A i, j \in 1..Len(rest) : i # j => Range(rest[i].parts) \cap Range(rest[j].parts) = {}
    <3> SUFFICES ASSUME NEW i \in 1..Len(rest), NEW j \in 1..Len(rest), i # j
                 PROVE  Range(rest[i].parts) \cap Range(rest[j].parts) = {}
      OBVIOUS
    <3>1. i + 1 # j + 1
      OBVIOUS
    <3>2. /\ i + 1 \in 1..Len(list) /\ j + 1 \in 1..Len(list)
          /\ rest[i] = list[i + 1] /\ rest[j] = list[j + 1]
      BY <1>3, <1>4
    <3>3. Range(list[i + 1].parts) \cap Range(list[j + 1].parts) = {}
      BY <1>4a, <3>1, <3>2
    <3> QED BY <3>2, <3>3
  <2> QED BY <1>3, <2>1, <2>2 DEF WellCut
<1>6. \A p \in Parts : p \in Members(list) <=> p \in Range(list[1].parts) \/ p \in Members(rest)
  BY <1>3, <1>4 DEF Members
<1>7. Fit(z, list[1].parts) /\ (k = "batch" /\ ~list[1].retry => Len(list[1].parts) = 1)
  BY <1>4 DEF WellCut
<1>8. Range(list[1].parts) \subseteq Parts
  BY <1>7, InRange DEF Fit
<1>9. Members(list) = Range(list[1].parts) \cup Members(rest)
  <2>1. Members(rest) \subseteq Parts /\ Members(list) \subseteq Parts
    BY DEF Members
  <2> QED BY <1>6, <1>8, <2>1
<1>10. Range(list[1].parts) \cap Members(rest) = {}
  <2> SUFFICES ASSUME NEW i \in 1..Len(rest) PROVE Range(list[1].parts) \cap Range(rest[i].parts) = {}
    BY DEF Members
  <2> QED BY <1>3, <1>4, <1>4a
<1>11. Spare(rest, k) \subseteq Spare(list, k) /\ MayCost(list[1], k) \subseteq Spare(list, k)
  <2>1. Spare(rest, k) \subseteq Spare(list, k)
    BY <1>3, <1>4 DEF Spare
  <2>2. MayCost(list[1], k) \subseteq Parts \X {1, 2}
    BY DEF MayCost
  <2> QED BY <1>4, <2>1, <2>2 DEF Spare
<1> QED BY <1>1, <1>3, <1>5, <1>7, <1>9, <1>10, <1>11

\* Two lists of calls for different parts.
LEMMA BothCut ==
  ASSUME NEW k, NEW z, NEW next, NEW rest, WellCut(next, k, z), WellCut(rest, k, z),
         Members(next) \cap Members(rest) = {}, NEW both, both = next \o rest
  PROVE  /\ WellCut(both, k, z)
         /\ \A p : p \in Members(both) <=> p \in Members(next) \/ p \in Members(rest)
         /\ \A x : x \in Spare(both, k) <=> x \in Spare(next, k) \/ x \in Spare(rest, k)
<1>2. next \in Seq(CallRecords) /\ rest \in Seq(CallRecords)
  BY DEF WellCut
<1>3. PICK n \in Nat, m \in Nat : n = Len(next) /\ m = Len(rest)
  BY <1>2
<1>4. /\ both \in Seq(CallRecords) /\ Len(both) = n + m
      /\ \A i \in 1..n : both[i] = next[i]
      /\ \A i \in 1..m : both[n + i] = rest[i]
  BY <1>2, <1>3
<1>5. /\ \A i \in 1..n : i \in 1..(n + m)
      /\ \A i \in 1..m : n + i \in 1..(n + m)
      /\ \A i \in 1..(n + m) : i \in 1..n \/ (i - n \in 1..m /\ n + (i - n) = i)
  OBVIOUS
<1>6. \A i \in 1..Len(both) : (i \in 1..n /\ both[i] = next[i]) \/ (i - n \in 1..m /\ both[i] = rest[i - n])
  BY <1>4, <1>5
<1>6a. /\ \A i \in 1..n : i \in 1..Len(both) /\ next[i] = both[i]
       /\ \A i \in 1..m : n + i \in 1..Len(both) /\ rest[i] = both[n + i]
  BY <1>4, <1>5
<1>7. \A p : p \in Members(both) <=> p \in Members(next) \/ p \in Members(rest)
  <2>1. ASSUME NEW p \in Members(both) PROVE p \in Members(next) \/ p \in Members(rest)
    <3>1. PICK i \in 1..Len(both) : p \in Parts /\ p \in Range(both[i].parts)
      BY DEF Members
    <3> QED BY <1>3, <1>6, <3>1 DEF Members
  <2>2. ASSUME NEW p, p \in Members(next) \/ p \in Members(rest) PROVE p \in Members(both)
    BY <1>3, <1>6a, <2>2 DEF Members
  <2> QED BY <2>1, <2>2
<1>8. \A x : x \in Spare(both, k) <=> x \in Spare(next, k) \/ x \in Spare(rest, k)
  <2>1. ASSUME NEW x \in Spare(both, k) PROVE x \in Spare(next, k) \/ x \in Spare(rest, k)
    <3>1. PICK i \in 1..Len(both) : x \in Parts \X {1, 2} /\ x \in MayCost(both[i], k)
      BY DEF Spare
    <3> QED BY <1>3, <1>6, <3>1 DEF Spare
  <2>2. ASSUME NEW x, x \in Spare(next, k) \/ x \in Spare(rest, k) PROVE x \in Spare(both, k)
    BY <1>3, <1>6a, <2>2 DEF Spare
  <2> QED BY <2>1, <2>2
<1>9. /\ \A i \in 1..n : Range(next[i].parts) \subseteq Members(next)
      /\ \A i \in 1..m : Range(rest[i].parts) \subseteq Members(rest)
  <2>1. /\ \A i \in 1..n : Range(next[i].parts) \subseteq Parts
        /\ \A i \in 1..m : Range(rest[i].parts) \subseteq Parts
    BY <1>3, InRange DEF WellCut, Fit
  <2> QED BY <1>3, <2>1 DEF Members
<1>10. \A i, j \in 1..Len(both) : i # j => Range(both[i].parts) \cap Range(both[j].parts) = {}
  <2> SUFFICES ASSUME NEW i \in 1..Len(both), NEW j \in 1..Len(both), i # j
               PROVE  Range(both[i].parts) \cap Range(both[j].parts) = {}
    OBVIOUS
  <2>1. CASE i \in 1..n /\ j \in 1..n
    BY <1>3, <1>4, <2>1 DEF WellCut
  <2>2. CASE i - n \in 1..m /\ both[i] = rest[i - n] /\ j - n \in 1..m /\ both[j] = rest[j - n]
    <3>1. i - n # j - n
      BY <1>4
    <3> QED BY <1>3, <2>2, <3>1 DEF WellCut
  <2>3. CASE i \in 1..n /\ j - n \in 1..m /\ both[j] = rest[j - n]
    <3>1. Range(both[i].parts) \subseteq Members(next)
      BY <1>4, <1>9, <2>3
    <3>2. Range(both[j].parts) \subseteq Members(rest)
      BY <1>9, <2>3
    <3> QED BY <3>1, <3>2
  <2>4. CASE j \in 1..n /\ i - n \in 1..m /\ both[i] = rest[i - n]
    <3>1. Range(both[j].parts) \subseteq Members(next)
      BY <1>4, <1>9, <2>4
    <3>2. Range(both[i].parts) \subseteq Members(rest)
      BY <1>9, <2>4
    <3> QED BY <3>1, <3>2
  <2> QED BY <1>6, <2>1, <2>2, <2>3, <2>4
<1>11. \A i \in 1..Len(both) : Fit(z, both[i].parts) /\ (k = "batch" /\ ~both[i].retry => Len(both[i].parts) = 1)
  <2>1. /\ \A i \in 1..n : Fit(z, next[i].parts) /\ (k = "batch" /\ ~next[i].retry => Len(next[i].parts) = 1)
        /\ \A i \in 1..m : Fit(z, rest[i].parts) /\ (k = "batch" /\ ~rest[i].retry => Len(rest[i].parts) = 1)
    BY <1>3 DEF WellCut
  <2> SUFFICES ASSUME NEW i \in 1..Len(both)
               PROVE  Fit(z, both[i].parts) /\ (k = "batch" /\ ~both[i].retry => Len(both[i].parts) = 1)
    OBVIOUS
  <2>2. CASE i \in 1..n /\ both[i] = next[i]
    BY <2>1, <2>2
  <2>3. CASE i - n \in 1..m /\ both[i] = rest[i - n]
    BY <2>1, <2>3
  <2> QED BY <1>6, <2>2, <2>3
<1>12. WellCut(both, k, z)
  BY <1>4, <1>10, <1>11 DEF WellCut
<1> QED BY <1>7, <1>8, <1>12

\* What may follow a call: calls for parts of it, at a lower cost.
FollowUp(next, call, k, z) ==
  /\ WellCut(next, k, z) /\ Members(next) \subseteq Range(call.parts)
  /\ Spare(next, k) \subseteq MayCost(call, k) /\ \E x \in MayCost(call, k) : x \notin Spare(next, k)

LEMMA NextCut ==
  ASSUME NEW k, NEW z, NEW list, WellCut(list, k, z), list # <<>>, NEW next, FollowUp(next, list[1], k, z)
  PROVE  /\ WellCut(next \o Tail(list), k, z)
         /\ Members(next \o Tail(list)) = Members(next) \cup Members(Tail(list))
         /\ \E x \in Spare(list, k) : Spare(next \o Tail(list), k) \subseteq Spare(list, k) \ {x}
<1>1. PICK call, rest : call = list[1] /\ rest = Tail(list)
  OBVIOUS
<1>2. /\ WellCut(rest, k, z) /\ Range(call.parts) \cap Members(rest) = {}
      /\ Spare(rest, k) \subseteq Spare(list, k) /\ MayCost(call, k) \subseteq Spare(list, k)
  BY <1>1, FirstCall
<1>3. PICK x \in MayCost(call, k) : x \notin Spare(next, k)
  BY <1>1 DEF FollowUp
<1>0. PICK both : both = next \o rest
  OBVIOUS
<1>4. /\ WellCut(both, k, z)
      /\ \A p : p \in Members(both) <=> p \in Members(next) \/ p \in Members(rest)
      /\ \A y : y \in Spare(both, k) <=> y \in Spare(next, k) \/ y \in Spare(rest, k)
  <2>1. WellCut(next, k, z) /\ Members(next) \subseteq Range(call.parts)
    BY <1>1 DEF FollowUp
  <2>2. Members(next) \cap Members(rest) = {}
    BY <1>2, <2>1
  <2>3. WellCut(rest, k, z)
    BY <1>2
  <2> QED BY <1>0, <2>1, <2>2, <2>3, BothCut
<1>5. x \notin Spare(rest, k)
  <2>1. \A y \in Spare(rest, k) : y[1] \in Members(rest)
    BY DEF Spare, Members, MayCost
  <2>2. x[1] \in Range(call.parts)
    BY <1>3 DEF MayCost
  <2> QED BY <1>2, <2>1, <2>2
<1>6. Spare(next, k) \subseteq Spare(list, k)
  BY <1>1, <1>2 DEF FollowUp
<1>7. Spare(both, k) \subseteq Spare(list, k) \ {x} /\ x \in Spare(list, k)
  BY <1>2, <1>3, <1>4, <1>5, <1>6
<1> QED BY <1>0, <1>1, <1>4, <1>7

LEMMA CallMade ==
  ASSUME NEW parts \in Seq(Parts), NEW retry \in BOOLEAN
  PROVE  OneCall(parts, retry) \in CallRecords /\ OneCall(parts, retry).parts = parts /\ OneCall(parts, retry).retry = retry
BY DEF OneCall, CallRecords

\* Nothing follows: the call is over.
LEMMA NothingFollows ==
  ASSUME NEW k, NEW z, NEW call \in CallRecords, Fit(z, call.parts)
  PROVE  FollowUp(<<>>, call, k, z)
<1>1. WellCut(<<>>, k, z) /\ Members(<<>>) = {} /\ Spare(<<>>, k) = {}
  BY DEF WellCut, Members, Spare
<1>2. call.parts[1] \in Parts /\ call.parts[1] \in Range(call.parts)
  <2>1. call.parts \in Seq(Parts) /\ 1 \in 1..Len(call.parts)
    BY DEF Fit
  <2> QED BY <2>1, InRange
<1>3. <<call.parts[1], 2>> \in MayCost(call, k)
  BY <1>2 DEF MayCost
<1> QED BY <1>1, <1>3 DEF FollowUp

\* Each half costs one less than twice its languages.
LEMMA HalvesFollow ==
  ASSUME NEW z \in Weights, \A p, q \in Parts : z[p] = z[q],
         NEW call \in CallRecords, Fit(z, call.parts), Len(call.parts) # 1
  PROVE  FollowUp(Halves(call.parts), call, "multi", z)
<1>1. PICK parts, n : parts = call.parts /\ n = Len(call.parts)
  OBVIOUS
<1>2. /\ parts \in Seq(Parts) /\ n \in Nat /\ n > 1 /\ Len(parts) = n /\ Total(z, parts) <= Budget
      /\ \A i, j \in 1..n : parts[i] = parts[j] => i = j
  <2>0. parts \in Seq(Parts) /\ parts # <<>> /\ Len(parts) # 1
    BY <1>1 DEF Fit
  <2>1. n \in Nat /\ n > 1 /\ Len(parts) = n
    <3>1. n \in Nat /\ n >= 1 /\ Len(parts) = n /\ n # 1
      BY <1>1, <2>0
    <3> QED BY <3>1
  <2> QED BY <1>1, <2>0, <2>1 DEF Fit, OnceEach
<1>3. PICK mid : mid = (n + 1) \div 2
  OBVIOUS
<1>4. mid \in 1..(n - 1)
  BY <1>2, <1>3
<1>5. PICK a, o : a = SubSeq(parts, 1, mid) /\ o = SubSeq(parts, mid + 1, n)
  OBVIOUS
<1>6. /\ a \in Seq(Parts) /\ Len(a) = mid /\ \A i \in 1..mid : a[i] = parts[i] /\ i \in 1..n
      /\ o \in Seq(Parts) /\ Len(o) = n - mid /\ \A i \in 1..(n - mid) : o[i] = parts[mid + i] /\ mid + i \in 1..n
  <2>1. /\ a \in Seq(Parts) /\ Len(a) = mid
        /\ \A i \in 1..mid : a[i] = parts[i]
    BY <1>2, <1>4, <1>5
  <2>2. /\ o \in Seq(Parts) /\ Len(o) = n - mid
        /\ \A i \in 1..(n - mid) : o[i] = parts[mid + i]
    BY <1>2, <1>4, <1>5
  <2>3. (\A i \in 1..mid : i \in 1..n) /\ \A i \in 1..(n - mid) : mid + i \in 1..n
    BY <1>2, <1>4
  <2> QED BY <2>1, <2>2, <2>3
<1>7. PICK h1, h2 : h1 = OneCall(a, TRUE) /\ h2 = OneCall(o, TRUE)
  OBVIOUS
<1>8. h1 \in CallRecords /\ h1.parts = a /\ h1.retry = TRUE /\ h2 \in CallRecords /\ h2.parts = o /\ h2.retry = TRUE
  BY <1>6, <1>7, CallMade
<1>9. PICK next : next = <<h1, h2>>
  OBVIOUS
<1>10. next = Halves(call.parts)
  BY <1>1, <1>3, <1>5, <1>7, <1>9 DEF Halves
<1>11. next \in Seq(CallRecords) /\ Len(next) = 2 /\ next[1] = h1 /\ next[2] = h2 /\ \A i \in 1..Len(next) : i = 1 \/ i = 2
  BY <1>8, <1>9
<1>12. /\ \A p : p \in Range(parts) <=> \E i \in 1..n : parts[i] = p
       /\ \A p : p \in Range(a) <=> \E i \in 1..mid : a[i] = p
       /\ \A p : p \in Range(o) <=> \E i \in 1..(n - mid) : o[i] = p
       /\ Range(a) \subseteq Parts /\ Range(o) \subseteq Parts
  <2>1. /\ Range(a) \subseteq Parts
        /\ \A p : p \in Range(a) <=> \E i \in 1..Len(a) : a[i] = p
    BY <1>6, InRange
  <2>2. /\ Range(o) \subseteq Parts
        /\ \A p : p \in Range(o) <=> \E i \in 1..Len(o) : o[i] = p
    BY <1>6, InRange
  <2>3. \A p : p \in Range(parts) <=> \E i \in 1..Len(parts) : parts[i] = p
    BY <1>2, InRange
  <2>4. Len(a) = mid /\ Len(o) = n - mid /\ Len(parts) = n
    BY <1>2, <1>6
  <2> QED BY <2>1, <2>2, <2>3, <2>4
<1>13. Range(a) \subseteq Range(parts) /\ Range(o) \subseteq Range(parts)
  BY <1>6, <1>12
<1>14. Range(a) \cap Range(o) = {}
  <2> SUFFICES ASSUME NEW i \in 1..mid, NEW j \in 1..(n - mid), a[i] = o[j] PROVE FALSE
    BY <1>12
  <2>1. i = mid + j
    BY <1>2, <1>6
  <2> QED BY <1>4, <2>1
<1>15. PICK c \in Nat : \A p \in Parts : z[p] = c
  <2>1. parts[1] \in Parts
    BY <1>2
  <2>2. z[parts[1]] \in Nat
    BY <2>1 DEF Weights
  <2> QED BY <2>1, <2>2
<1>16. Total(z, parts) = n * c /\ Total(z, a) = mid * c /\ Total(z, o) = (n - mid) * c
  <2>1. \A list \in Seq(Parts) : Total(z, list) = Len(list) * c
    BY <1>15, TotalOfEqual DEF Weights
  <2> QED BY <1>2, <1>6, <2>1
<1>17. mid * c <= n * c /\ (n - mid) * c <= n * c
  <2>1. \A x, y, w \in Nat : x <= y => x * w <= y * w
    OBVIOUS
  <2>2. mid \in Nat /\ n - mid \in Nat /\ mid <= n /\ n - mid <= n
    BY <1>2, <1>4
  <2> QED BY <1>2, <2>1, <2>2
<1>18. Fit(z, a) /\ Fit(z, o)
  <2>1. OnceEach(a)
    BY <1>2, <1>6 DEF OnceEach
  <2>2. OnceEach(o)
    <3> SUFFICES ASSUME NEW i \in 1..(n - mid), NEW j \in 1..(n - mid), o[i] = o[j] PROVE i = j
      BY <1>6 DEF OnceEach
    <3>1. mid + i = mid + j
      BY <1>2, <1>6
    <3> QED BY <1>4, <3>1
  <2>3. Total(z, a) <= Budget /\ Total(z, o) <= Budget
    <3>1. n * c \in Nat /\ mid * c \in Nat /\ (n - mid) * c \in Nat /\ Budget \in Nat
      BY <1>2, <1>4, EngineAssumption
    <3> QED BY <1>2, <1>16, <1>17, <3>1
  <2>4. a # <<>> /\ o # <<>>
    BY <1>2, <1>4, <1>6
  <2> QED BY <1>6, <2>1, <2>2, <2>3, <2>4 DEF Fit
<1>19. WellCut(next, "multi", z)
  BY <1>8, <1>11, <1>14, <1>18 DEF WellCut
<1>20. Members(next) \subseteq Range(call.parts)
  BY <1>1, <1>8, <1>11, <1>13 DEF Members
<1>21. /\ Again(call, "multi") = Range(parts) \ {parts[n]}
       /\ Again(h1, "multi") = Range(a) \ {parts[mid]} /\ Again(h2, "multi") = Range(o) \ {parts[n]}
  <2>1. a[mid] = parts[mid] /\ o[n - mid] = parts[n]
    <3>1. mid \in 1..mid /\ n - mid \in 1..(n - mid) /\ mid + (n - mid) = n
      BY <1>2, <1>4
    <3> QED BY <1>6, <3>1
  <2> QED BY <1>1, <1>6, <1>8, <2>1 DEF Again
<1>22. parts[n] \notin Range(a) /\ parts[mid] \in Range(a) /\ parts[mid] \notin Range(o) /\ parts[mid] # parts[n]
  <2>1. mid \in 1..mid /\ mid \in 1..n /\ n \in 1..n /\ n - mid \in 1..(n - mid) /\ mid + (n - mid) = n /\ mid # n
    BY <1>2, <1>4
  <2>2. parts[mid] \in Range(a) /\ parts[n] \in Range(o)
    BY <1>6, <1>12, <2>1
  <2>3. parts[mid] # parts[n]
    BY <1>2, <2>1
  <2> QED BY <1>14, <2>2, <2>3
<1>23. Spare(next, "multi") \subseteq MayCost(call, "multi")
  <2> SUFFICES ASSUME NEW x \in Parts \X {1, 2}, x \in MayCost(h1, "multi") \/ x \in MayCost(h2, "multi")
               PROVE  x \in MayCost(call, "multi")
    BY <1>11 DEF Spare
  <2>1. x[1] \in Range(parts)
    BY <1>8, <1>13 DEF MayCost
  <2>2. ASSUME x[2] = 1 PROVE x[1] \in Range(parts) \ {parts[n]}
    <3>1. x[1] \in Range(a) \/ x[1] \in Range(o) \ {parts[n]}
      BY <1>8, <1>21, <2>2 DEF MayCost
    <3> QED BY <1>13, <1>22, <3>1
  <2> QED BY <1>1, <1>21, <2>1, <2>2 DEF MayCost
<1>24. \E x \in MayCost(call, "multi") : x \notin Spare(next, "multi")
  <2>1. PICK x : x = <<parts[mid], 1>>
    OBVIOUS
  <2>2. x \in Parts \X {1, 2} /\ x[1] = parts[mid] /\ x[2] = 1
    BY <1>12, <1>22, <2>1
  <2>3. x \in MayCost(call, "multi")
    BY <1>1, <1>13, <1>21, <1>22, <2>2 DEF MayCost
  <2>4. x \notin MayCost(h1, "multi") /\ x \notin MayCost(h2, "multi")
    BY <1>8, <1>21, <1>22, <2>2 DEF MayCost
  <2>5. x \notin Spare(next, "multi")
    BY <1>11, <2>4 DEF Spare
  <2> QED BY <2>3, <2>5
<1>25. FollowUp(next, call, "multi", z)
  BY <1>19, <1>20, <1>23, <1>24 DEF FollowUp
<1> QED BY <1>10, <1>25

\* A text alone is not tried again.
LEMMA ItemsFollow ==
  ASSUME NEW z, NEW call \in CallRecords, Fit(z, call.parts), call.retry
  PROVE  FollowUp(PerItem(call.parts), call, "batch", z)
<1>1. PICK parts, n : parts = call.parts /\ n = Len(call.parts)
  OBVIOUS
<1>2. /\ parts \in Seq(Parts) /\ n \in Nat /\ n >= 1 /\ Len(parts) = n
      /\ \A i, j \in 1..n : parts[i] = parts[j] => i = j
  <2>1. parts \in Seq(Parts) /\ n \in Nat /\ n >= 1 /\ Len(parts) = n
    BY <1>1 DEF Fit
  <2> QED BY <1>1, <2>1 DEF Fit, OnceEach
<1>3. PICK next : next = PerItem(call.parts)
  OBVIOUS
<1>4. \A i \in 1..n : <<parts[i]>> \in Seq(Parts) /\ Len(<<parts[i]>>) = 1 /\ Range(<<parts[i]>>) = {parts[i]}
  <2>1. \A i \in 1..n : parts[i] \in Parts
    BY <1>2
  <2> QED BY <2>1, ListOfOne
<1>5. next = [i \in 1..n |-> OneCall(<<parts[i]>>, FALSE)]
  BY <1>1, <1>2, <1>3 DEF PerItem
<1>6. \A i \in 1..n : next[i] \in CallRecords /\ next[i].parts = <<parts[i]>> /\ next[i].retry = FALSE
  BY <1>4, <1>5, CallMade
<1>7. next \in Seq(CallRecords) /\ Len(next) = n
  <2>1. next \in [1..n -> CallRecords]
    BY <1>5, <1>6
  <2> QED BY <1>2, <2>1
<1>8. \A i \in 1..n : Fit(z, next[i].parts) /\ Len(next[i].parts) = 1 /\ Range(next[i].parts) = {parts[i]}
  <2> SUFFICES ASSUME NEW i \in 1..n PROVE Fit(z, <<parts[i]>>)
    BY <1>4, <1>6
  <2>1. OnceEach(<<parts[i]>>) /\ <<parts[i]>> # <<>>
    BY DEF OnceEach
  <2> QED BY <1>4, <2>1 DEF Fit
<1>9. WellCut(next, "batch", z)
  <2>1. \A i \in 1..Len(next) : Fit(z, next[i].parts) /\ Len(next[i].parts) = 1
    BY <1>7, <1>8
  <2>2. \A i, j \in 1..Len(next) : i # j => Range(next[i].parts) \cap Range(next[j].parts) = {}
    <3> SUFFICES ASSUME NEW i \in 1..n, NEW j \in 1..n, i # j PROVE Range(next[i].parts) \cap Range(next[j].parts) = {}
      BY <1>7
    <3>1. parts[i] # parts[j]
      BY <1>2
    <3> QED BY <1>8, <3>1
  <2> QED BY <1>7, <2>1, <2>2 DEF WellCut
<1>10. /\ \A p : p \in Range(parts) <=> \E i \in 1..n : parts[i] = p
       /\ Range(parts) \subseteq Parts
  BY <1>2, InRange
<1>11. Members(next) \subseteq Range(call.parts)
  <2> SUFFICES ASSUME NEW i \in 1..n, NEW p \in Parts, p \in Range(next[i].parts) PROVE p \in Range(parts)
    BY <1>1, <1>7 DEF Members
  <2> QED BY <1>8, <1>10
<1>12. \A x \in Spare(next, "batch") : x \in Parts \X {1, 2} /\ x[1] \in Range(parts) /\ x[2] # 1
  <2> SUFFICES ASSUME NEW i \in 1..n, NEW x \in Parts \X {1, 2}, x \in MayCost(next[i], "batch")
               PROVE  x[1] \in Range(parts) /\ x[2] # 1
    BY <1>7 DEF Spare
  <2>1. Again(next[i], "batch") = {}
    BY <1>6 DEF Again
  <2>2. x[1] \in {parts[i]}
    BY <1>8 DEF MayCost
  <2>3. x[2] # 1
    BY <2>1 DEF MayCost
  <2> QED BY <1>10, <2>2, <2>3
<1>13. Again(call, "batch") = Range(parts)
  BY <1>1 DEF Again
<1>14. Spare(next, "batch") \subseteq MayCost(call, "batch")
  BY <1>1, <1>12 DEF MayCost
<1>15. \E x \in MayCost(call, "batch") : x \notin Spare(next, "batch")
  <2>1. parts[1] \in Parts /\ parts[1] \in Range(parts)
    <3>1. 1 \in 1..n
      BY <1>2
    <3> QED BY <1>10, <3>1
  <2>2. <<parts[1], 1>> \in MayCost(call, "batch")
    BY <1>1, <1>13, <2>1 DEF MayCost
  <2>3. <<parts[1], 1>> \notin Spare(next, "batch")
    BY <1>12
  <2> QED BY <2>2, <2>3
<1> QED BY <1>3, <1>9, <1>11, <1>14, <1>15 DEF FollowUp

\* The parts up to a number, cut into calls that fit.
Cut(chunks, z, n) ==
  /\ chunks \in Seq(Seq(Parts)) /\ \A i \in 1..Len(chunks) : Fit(z, chunks[i])
  /\ \A i \in 1..Len(chunks) : Range(chunks[i]) \subseteq 1..n
  /\ \A p \in 1..n : \E i \in 1..Len(chunks) : p \in Range(chunks[i])
  /\ \A i, j \in 1..Len(chunks) : i # j => Range(chunks[i]) \cap Range(chunks[j]) = {}

\* One text more, in a chunk of its own or in the last one.
LEMMA TakenCut ==
  ASSUME size \in Weights, NEW n \in Nat, NEW p \in Parts, p = n + 1, NEW chunks, Cut(chunks, size, n)
  PROVE  Cut(Taken(chunks, p), size, p)
<1>1. PICK N : N = Len(chunks)
  OBVIOUS
<1>2. /\ chunks \in Seq(Seq(Parts)) /\ N \in Nat /\ \A i \in 1..N : chunks[i] \in Seq(Parts) /\ Fit(size, chunks[i])
      /\ \A i \in 1..N : Range(chunks[i]) \subseteq 1..n
      /\ \A q \in 1..n : \E i \in 1..N : q \in Range(chunks[i])
      /\ \A i, j \in 1..N : i # j => Range(chunks[i]) \cap Range(chunks[j]) = {}
  <2>1. chunks \in Seq(Seq(Parts)) /\ N \in Nat /\ \A i \in 1..N : chunks[i] \in Seq(Parts)
    BY <1>1 DEF Cut
  <2> QED BY <1>1, <2>1 DEF Cut
<1>3. p \notin 1..n /\ \A q \in 1..p : q = p \/ q \in 1..n
  OBVIOUS
<1>4. PICK more : more = Taken(chunks, p)
  OBVIOUS
<1>5. CASE chunks = <<>> \/ SizeOf(Last(chunks)) + size[p] > Budget
  <2>1. PICK own : own = <<p>>
    OBVIOUS
  <2>2. own \in Seq(Parts) /\ Len(own) = 1 /\ Range(own) = {p} /\ OnceEach(own) /\ own # <<>>
    BY <2>1, ListOfOne
  <2>3. Fit(size, own)
    BY <2>2 DEF Fit
  <2>4. more = Append(chunks, own)
    BY <1>4, <1>5, <2>1 DEF Taken
  <2>5. /\ more \in Seq(Seq(Parts)) /\ Len(more) = N + 1 /\ more[N + 1] = own
        /\ \A i \in 1..N : more[i] = chunks[i] /\ i \in 1..(N + 1)
        /\ \A i \in 1..(N + 1) : i = N + 1 \/ i \in 1..N
    BY <1>1, <1>2, <2>2, <2>4
  <2>6. \A i \in 1..(N + 1) : Fit(size, more[i])
    BY <1>2, <2>3, <2>5
  <2>7. \A i \in 1..(N + 1) : Range(more[i]) \subseteq 1..p
    <3>1. 1..n \subseteq 1..p /\ p \in 1..p
      OBVIOUS
    <3>2. \A i \in 1..N : Range(more[i]) \subseteq 1..p
      BY <1>2, <2>5, <3>1
    <3>3. Range(own) \subseteq 1..p
      BY <2>2, <3>1
    <3> QED BY <2>5, <3>2, <3>3
  <2>8. \A q \in 1..p : \E i \in 1..(N + 1) : q \in Range(more[i])
    <3>1. N + 1 \in 1..(N + 1)
      BY <1>2
    <3> QED BY <1>2, <1>3, <2>2, <2>5, <3>1
  <2>9. \A i \in 1..N : Range(more[i]) \cap Range(own) = {}
    <3>1. \A i \in 1..N : Range(more[i]) \subseteq 1..n
      BY <1>2, <2>5
    <3> QED BY <1>3, <2>2, <3>1
  <2>10. \A i, j \in 1..(N + 1) : i # j => Range(more[i]) \cap Range(more[j]) = {}
    <3> SUFFICES ASSUME NEW i \in 1..(N + 1), NEW j \in 1..(N + 1), i # j PROVE Range(more[i]) \cap Range(more[j]) = {}
      OBVIOUS
    <3>1. CASE i \in 1..N /\ j \in 1..N
      BY <1>2, <2>5, <3>1
    <3>2. CASE i = N + 1 /\ j \in 1..N
      BY <2>5, <2>9, <3>2
    <3>3. CASE j = N + 1 /\ i \in 1..N
      BY <2>5, <2>9, <3>3
    <3> QED BY <2>5, <3>1, <3>2, <3>3
  <2> QED BY <1>4, <2>5, <2>6, <2>7, <2>8, <2>10 DEF Cut
<1>6. CASE chunks # <<>> /\ ~(SizeOf(Last(chunks)) + size[p] > Budget)
  <2>0. N \in 1..N
    BY <1>1, <1>2, <1>6
  <2>1. PICK last, wide : last = chunks[N] /\ wide = Append(chunks[N], p)
    OBVIOUS
  <2>2. last \in Seq(Parts) /\ OnceEach(last) /\ Range(last) \subseteq 1..n /\ p \notin Range(last)
    BY <1>2, <1>3, <2>0, <2>1 DEF Fit
  <2>3. wide \in Seq(Parts) /\ OnceEach(wide) /\ Len(wide) = Len(last) + 1 /\ Range(wide) = Range(last) \cup {p}
    BY <2>1, <2>2, AppendedOnce
  <2>4. Total(size, wide) = Total(size, last) + size[p] /\ Total(size, last) \in Nat /\ size[p] \in Nat
    <3>1. size \in [Parts -> Nat]
      BY DEF Weights
    <3>2. Total(size, Append(last, p)) = Total(size, last) + size[p] /\ Total(size, last) \in Nat
      BY <2>2, <3>1, TotalAppend
    <3> QED BY <2>1, <3>1, <3>2
  <2>5. SizeOf(Last(chunks)) = Total(size, last)
    BY <1>1, <2>1 DEF SizeOf, Last
  <2>6. Total(size, wide) <= Budget
    BY <1>6, <2>4, <2>5, EngineAssumption
  <2>7. Fit(size, wide)
    <3>1. wide # <<>>
      BY <2>2, <2>3
    <3> QED BY <2>3, <2>6, <3>1 DEF Fit
  <2>8. PICK front : front = SubSeq(chunks, 1, N - 1)
    OBVIOUS
  <2>9. front \in Seq(Seq(Parts)) /\ Len(front) = N - 1 /\ \A i \in 1..(N - 1) : front[i] = chunks[i]
    BY <1>1, <1>2, <2>0, <2>8
  <2>10. more = Append(front, wide)
    BY <1>1, <1>4, <1>6, <2>1, <2>8 DEF Taken, Front, Last
  <2>11. /\ more \in Seq(Seq(Parts)) /\ Len(more) = N /\ more[N] = wide
         /\ \A i \in 1..(N - 1) : more[i] = chunks[i] /\ i \in 1..N
         /\ \A i \in 1..N : i = N \/ i \in 1..(N - 1)
    <3>1. /\ more \in Seq(Seq(Parts)) /\ Len(more) = (N - 1) + 1 /\ more[(N - 1) + 1] = wide
          /\ \A i \in 1..(N - 1) : more[i] = front[i]
      BY <1>2, <2>0, <2>3, <2>9, <2>10
    <3> QED BY <1>2, <2>0, <2>9, <3>1
  <2>12. \A i \in 1..N : Fit(size, more[i])
    BY <1>2, <2>7, <2>11
  <2>13. \A i \in 1..N : Range(more[i]) \subseteq 1..p
    <3>1. 1..n \subseteq 1..p /\ p \in 1..p
      OBVIOUS
    <3>2. \A i \in 1..(N - 1) : Range(more[i]) \subseteq 1..p
      BY <1>2, <2>11, <3>1
    <3>3. Range(wide) \subseteq 1..p
      BY <2>2, <2>3, <3>1
    <3> QED BY <2>11, <3>2, <3>3
  <2>14. \A q \in 1..p : \E i \in 1..N : q \in Range(more[i])
    <3> SUFFICES ASSUME NEW q \in 1..p PROVE \E i \in 1..N : q \in Range(more[i])
      OBVIOUS
    <3>1. CASE q = p
      BY <2>0, <2>3, <2>11, <3>1
    <3>2. CASE q \in 1..n
      <4>1. PICK i \in 1..N : q \in Range(chunks[i])
        BY <1>2, <3>2
      <4>2. CASE i = N
        BY <2>0, <2>1, <2>3, <2>11, <4>1, <4>2
      <4>3. CASE i \in 1..(N - 1)
        BY <2>11, <4>1, <4>3
      <4> QED BY <2>11, <4>2, <4>3
    <3> QED BY <1>3, <3>1, <3>2
  <2>15. \A i \in 1..(N - 1) : Range(more[i]) \cap Range(wide) = {}
    <3> SUFFICES ASSUME NEW i \in 1..(N - 1) PROVE Range(more[i]) \cap Range(wide) = {}
      OBVIOUS
    <3>1. i \in 1..N /\ i # N /\ more[i] = chunks[i]
      BY <1>2, <2>11
    <3>2. Range(chunks[i]) \cap Range(last) = {} /\ p \notin Range(chunks[i])
      BY <1>2, <1>3, <2>0, <2>1, <3>1
    <3> QED BY <2>3, <3>1, <3>2
  <2>16. \A i, j \in 1..N : i # j => Range(more[i]) \cap Range(more[j]) = {}
    <3> SUFFICES ASSUME NEW i \in 1..N, NEW j \in 1..N, i # j PROVE Range(more[i]) \cap Range(more[j]) = {}
      OBVIOUS
    <3>1. CASE i \in 1..(N - 1) /\ j \in 1..(N - 1)
      BY <1>2, <2>11, <3>1
    <3>2. CASE i = N /\ j \in 1..(N - 1)
      BY <2>11, <2>15, <3>2
    <3>3. CASE j = N /\ i \in 1..(N - 1)
      BY <2>11, <2>15, <3>3
    <3> QED BY <2>11, <3>1, <3>2, <3>3
  <2>17. more \in Seq(Seq(Parts)) /\ Len(more) = N
    BY <2>11
  <2>18. Cut(more, size, p)
    BY <2>12, <2>13, <2>14, <2>16, <2>17 DEF Cut
  <2> QED BY <1>4, <2>18
<1> QED BY <1>5, <1>6

LEMMA TakenType ==
  ASSUME NEW chunks \in Seq(Seq(Parts)), NEW p \in Parts
  PROVE  Taken(chunks, p) \in Seq(Seq(Parts))
<1>1. <<p>> \in Seq(Parts)
  BY ListOfOne
<1>2. Append(chunks, <<p>>) \in Seq(Seq(Parts))
  BY <1>1
<1>3. ASSUME chunks # <<>> PROVE Append(Front(chunks), Append(Last(chunks), p)) \in Seq(Seq(Parts))
  <2>1. PICK last, front : last = chunks[Len(chunks)] /\ front = SubSeq(chunks, 1, Len(chunks) - 1)
    OBVIOUS
  <2>2. last \in Seq(Parts) /\ front \in Seq(Seq(Parts))
    BY <1>3, <2>1
  <2>3. Append(last, p) \in Seq(Parts)
    BY <2>2
  <2>4. Append(front, Append(last, p)) \in Seq(Seq(Parts))
    BY <2>2, <2>3
  <2> QED BY <2>1, <2>4 DEF Front, Last
<1> QED BY <1>2, <1>3 DEF Taken

\* translateBatch cuts all texts.
LEMMA TextsCut ==
  ASSUME size \in Weights
  PROVE  Cut(TextChunks, size, PartCount)
<1>0. PICK N \in Nat : N = PartCount /\ Parts = 1..N
  BY EngineAssumption DEF Parts
<1>1. PICK T : T = Seq(Seq(Parts))
  OBVIOUS
<1> DEFINE step == [p \in 1..N |-> [c \in T |-> Taken(c, p)]]
           f == CHOOSE g : g = [p \in 0..N |-> IF p = 0 THEN <<>> ELSE Taken(g[p - 1], p)]
           P == {n \in 0..N : Cut(f[n], size, n)}
<1>2. <<>> \in T
  BY <1>1
<1>3. \A p \in 1..N, c \in T : Taken(c, p) \in T
  BY <1>0, <1>1, TakenType
<1>4. Steps(step, N, T) /\ \A p \in 1..N, c \in T : step[p][c] = Taken(c, p)
  BY <1>3 DEF Steps
<1> HIDE DEF step
<1>5. PICK g : Iterates(g, N, T, <<>>, step)
  BY <1>2, <1>4, Recursion
<1>6. ASSUME NEW p \in 1..N PROVE g[p] = Taken(g[p - 1], p)
  <2>1. g[p-1] \in T /\ g[p] = step[p][g[p-1]]
    BY <1>5 DEF Iterates
  <2> QED BY <1>4, <2>1
<1>7. g = [p \in 0..N |-> IF p = 0 THEN <<>> ELSE Taken(g[p - 1], p)]
  <2>1. g \in [0..N -> T] /\ g[0] = <<>>
    BY <1>5 DEF Iterates
  <2>2. \A p \in 0..N : p = 0 \/ p \in 1..N
    OBVIOUS
  <2> QED BY <1>6, <2>1, <2>2
<1>8. f = [p \in 0..N |-> IF p = 0 THEN <<>> ELSE Taken(f[p - 1], p)] /\ TextChunks = f[N]
  BY <1>0, <1>7 DEF TextChunks
<1> HIDE DEF f
<1>9. f[0] = <<>> /\ \A n \in 0..(N-1) : f[n+1] = Taken(f[n], n + 1)
  <2>1. \A n \in 0..(N-1) : n + 1 \in 0..N /\ n + 1 # 0 /\ (n + 1) - 1 = n
    OBVIOUS
  <2>2. 0 \in 0..N
    OBVIOUS
  <2> QED BY <1>8, <2>1, <2>2
<1>10. 0 \in P
  <2>1. Cut(<<>>, size, 0)
    BY DEF Cut
  <2>2. 0 \in 0..N
    OBVIOUS
  <2> QED BY <1>9, <2>1, <2>2
<1>11. ASSUME NEW n \in 0..(N-1), n \in P PROVE n + 1 \in P
  <2>1. n \in Nat /\ n + 1 \in 0..N /\ n + 1 \in Parts
    BY <1>0
  <2>2. Cut(f[n], size, n)
    BY <1>11
  <2>3. Cut(Taken(f[n], n + 1), size, n + 1)
    BY <2>1, <2>2, TakenCut
  <2> QED BY <1>9, <2>1, <2>3
<1>12. N \in P
  <2> HIDE DEF P
  <2>1. \A n \in 0..N : n \in P
    BY <1>10, <1>11, UpTo
  <2>2. N \in 0..N
    OBVIOUS
  <2> QED BY <2>1, <2>2
<1> QED BY <1>0, <1>8, <1>12

\* translateMulti cuts all languages, into equal chunks but the last.
LEMMA LanguagesCut ==
  ASSUME size \in [Parts -> Sizes], \A p, q \in Parts : size[p] = size[q]
  PROVE  Cut(LanguageChunks, size, PartCount)
<1>0. PICK N \in Nat \ {0} : N = PartCount /\ Parts = 1..N
  BY EngineAssumption DEF Parts
<1>1. PICK c \in Nat \ {0} : c = size[1] /\ \A p \in Parts : size[p] = c
  <2>1. 1 \in Parts
    BY <1>0
  <2>2. size[1] \in Nat \ {0}
    BY <2>1, EngineAssumption
  <2> QED BY <2>1, <2>2
<1>2. PICK P \in Nat \ {0} : P = PerCall /\ (P > 1 => P * c <= Budget)
  <2>1. Budget \in Nat /\ Budget \div c \in Nat /\ (Budget \div c) * c <= Budget
    BY EngineAssumption
  <2> QED BY <1>1, <2>1 DEF PerCall
<1>3. PICK K : K = (N + P - 1) \div P
  OBVIOUS
<1>4. K \in Nat /\ K * P <= N + P - 1 /\ N + P - 1 < K * P + P
  <2>1. N + P - 1 \in Nat
    OBVIOUS
  <2> QED BY <1>3, <2>1
<1> DEFINE From(i) == (i - 1) * P + 1
           Upto(i) == IF i * P < N THEN i * P ELSE N
<1>5. ASSUME NEW i \in 1..K
      PROVE  /\ i * P \in Nat /\ (i - 1) * P \in Nat /\ i * P = (i - 1) * P + P
             /\ (i - 1) * P < N
  <2>1. i * P \in Nat /\ (i - 1) * P \in Nat /\ i * P = (i - 1) * P + P
    BY <1>4
  <2>2. i * P <= K * P
    <3>1. \A x, y, w \in Nat : x <= y => x * w <= y * w
      OBVIOUS
    <3> QED BY <1>4, <3>1
  <2> QED BY <1>4, <2>1, <2>2
<1>6. ASSUME NEW i \in 1..K, NEW j \in 1..K, i < j PROVE i * P <= (j - 1) * P
  <2>1. \A x, y, w \in Nat : x <= y => x * w <= y * w
    OBVIOUS
  <2>2. i \in Nat /\ j - 1 \in Nat /\ i <= j - 1
    BY <1>4, <1>6
  <2> QED BY <2>1, <2>2
<1>7. ASSUME NEW p \in 1..N PROVE \E i \in 1..K : (i - 1) * P < p /\ p <= i * P
  <2>1. PICK d \in Nat : d = (p - 1) \div P /\ d * P <= p - 1 /\ p - 1 < d * P + P
    <3>1. p - 1 \in Nat
      OBVIOUS
    <3>2. \A x \in Nat : x \div P \in Nat /\ (x \div P) * P <= x /\ x < (x \div P) * P + P
      OBVIOUS
    <3> QED BY <3>1, <3>2
  <2>2. (d + 1) * P = d * P + P /\ d * P \in Nat /\ K * P \in Nat
    <3>1. \A x, y \in Nat : (x + 1) * y = x * y + y /\ x * y \in Nat
      OBVIOUS
    <3> QED BY <1>4, <3>1
  <2>3. d < K
    <3>1. d * P < K * P
      BY <1>4, <2>1, <2>2
    <3>2. \A x, y \in Nat, w \in Nat \ {0} : x * w < y * w => x < y
      OBVIOUS
    <3> QED BY <1>4, <3>1, <3>2
  <2>4. d + 1 \in 1..K /\ (d + 1) - 1 = d
    BY <1>4, <2>3
  <2>5. d * P < p /\ p <= (d + 1) * P
    BY <2>1, <2>2
  <2> QED BY <2>4, <2>5
<1>8. PICK id : id = [p \in Parts |-> p]
  OBVIOUS
<1>9. id \in Seq(Parts) /\ Len(id) = N /\ \A p \in 1..N : id[p] = p
  BY <1>0, <1>8
<1>10. PICK chunks : chunks = [i \in 1..K |-> SubSeq(id, From(i), Upto(i))]
  OBVIOUS
<1>11. chunks = LanguageChunks
  BY <1>0, <1>2, <1>3, <1>8, <1>10 DEF LanguageChunks
<1>12. ASSUME NEW i \in 1..K
       PROVE  /\ From(i) \in 1..N /\ Upto(i) \in 1..N /\ From(i) <= Upto(i)
              /\ From(i) = (i - 1) * P + 1 /\ Upto(i) <= i * P /\ (Upto(i) = i * P \/ Upto(i) = N)
              /\ Upto(i) - From(i) + 1 <= P
  BY <1>5
<1> HIDE DEF From, Upto
<1>13. ASSUME NEW i \in 1..K
       PROVE  /\ chunks[i] \in Seq(Parts) /\ Len(chunks[i]) = Upto(i) - From(i) + 1
              /\ \A k \in 1..Len(chunks[i]) : chunks[i][k] = From(i) + k - 1
  <2>1. PICK a \in 1..N, o \in 1..N : a = From(i) /\ o = Upto(i)
    BY <1>12
  <2>2. a <= o
    BY <1>12, <2>1
  <2>3. PICK s : s = SubSeq(id, a, o)
    OBVIOUS
  <2>4. s \in Seq(Parts) /\ Len(s) = o - a + 1 /\ \A k \in 1..(o - a + 1) : s[k] = id[a + k - 1]
    BY <1>9, <2>2, <2>3
  <2>5. \A k \in 1..(o - a + 1) : a + k - 1 \in 1..N
    BY <2>2
  <2>6. chunks[i] = s
    BY <1>10, <2>1, <2>3
  <2> QED BY <1>9, <2>1, <2>4, <2>5, <2>6
<1>14. chunks \in Seq(Seq(Parts)) /\ Len(chunks) = K
  <2>1. chunks \in [1..K -> Seq(Parts)]
    BY <1>10, <1>13
  <2> QED BY <1>4, <2>1
<1>15. \A i \in 1..K : \A p : p \in Range(chunks[i]) <=> p \in From(i)..Upto(i)
  <2> SUFFICES ASSUME NEW i \in 1..K, NEW p PROVE p \in Range(chunks[i]) <=> p \in From(i)..Upto(i)
    OBVIOUS
  <2>1. PICK a \in 1..N, o \in 1..N : a = From(i) /\ o = Upto(i)
    BY <1>12
  <2>2. PICK s : s = chunks[i]
    OBVIOUS
  <2>3. s \in Seq(Parts) /\ Len(s) = o - a + 1 /\ \A k \in 1..(o - a + 1) : s[k] = a + k - 1
    BY <1>13, <2>1, <2>2
  <2>4. p \in Range(s) <=> \E k \in 1..(o - a + 1) : s[k] = p
    BY <2>3, InRange
  <2>5. ASSUME p \in a..o PROVE \E k \in 1..(o - a + 1) : s[k] = p
    <3>1. p - a + 1 \in 1..(o - a + 1) /\ a + (p - a + 1) - 1 = p
      BY <2>5
    <3> QED BY <2>3, <3>1
  <2>6. ASSUME NEW k \in 1..(o - a + 1), s[k] = p PROVE p \in a..o
    BY <2>3, <2>6
  <2> QED BY <2>1, <2>2, <2>4, <2>5, <2>6
<1>16. ASSUME NEW i \in 1..K PROVE Fit(size, chunks[i])
  <2>1. PICK s, n : s = chunks[i] /\ n = Upto(i) - From(i) + 1
    OBVIOUS
  <2>2. n \in Nat \ {0} /\ n <= P /\ s \in Seq(Parts) /\ Len(s) = n /\ \A k \in 1..n : s[k] = From(i) + k - 1
    BY <1>12, <1>13, <2>1
  <2>3. OnceEach(s) /\ s # <<>>
    <3>1. From(i) \in Nat
      BY <1>12
    <3> QED BY <2>2, <3>1 DEF OnceEach
  <2>4. Total(size, s) = n * c
    <3>1. size \in [Parts -> Nat] /\ \A p \in Parts : size[p] = c
      BY <1>1, EngineAssumption
    <3>2. \A list \in Seq(Parts) : Total(size, list) = Len(list) * c
      BY <3>1, TotalOfEqual
    <3> QED BY <2>2, <3>2
  <2>5. ASSUME n > 1 PROVE n * c <= Budget
    <3>1. n * c <= P * c /\ n * c \in Nat /\ P * c \in Nat
      BY <2>2
    <3>2. P * c <= Budget
      BY <1>2, <2>2, <2>5
    <3> QED BY <3>1, <3>2, EngineAssumption
  <2> QED BY <2>1, <2>2, <2>3, <2>4, <2>5 DEF Fit
<1>17. \A i \in 1..K : Range(chunks[i]) \subseteq 1..N
  BY <1>12, <1>15
<1>18. \A p \in 1..N : \E i \in 1..K : p \in Range(chunks[i])
  <2> SUFFICES ASSUME NEW p \in 1..N PROVE \E i \in 1..K : p \in From(i)..Upto(i)
    BY <1>15
  <2>1. PICK i \in 1..K : (i - 1) * P < p /\ p <= i * P
    BY <1>7
  <2>2. (i - 1) * P \in Nat /\ i * P \in Nat
    BY <1>5
  <2> QED BY <1>12, <2>1, <2>2
<1>19. \A i, j \in 1..K : i # j => Range(chunks[i]) \cap Range(chunks[j]) = {}
  <2>1. ASSUME NEW i \in 1..K, NEW j \in 1..K, i < j PROVE \A p : ~(p \in From(i)..Upto(i) /\ p \in From(j)..Upto(j))
    <3>1. i * P <= (j - 1) * P /\ i * P \in Nat /\ (j - 1) * P \in Nat
      BY <1>5, <1>6, <2>1
    <3>2. Upto(i) < From(j) /\ Upto(i) \in Nat /\ From(j) \in Nat /\ From(i) \in Nat
      BY <1>12, <3>1
    <3> QED BY <3>2
  <2>2. \A i, j \in 1..K : i # j => i < j \/ j < i
    BY <1>4
  <2>3. \A i, j \in 1..K : i # j => \A p : ~(p \in Range(chunks[i]) /\ p \in Range(chunks[j]))
    BY <1>15, <2>1, <2>2
  <2> QED BY <2>3
<1> QED BY <1>0, <1>11, <1>14, <1>16, <1>17, <1>18, <1>19 DEF Cut

LEMMA TwoElements == \A a, o : a # o => IsFiniteSet({a, o}) /\ Cardinality({a, o}) = 2
<1> SUFFICES ASSUME NEW a, NEW o, a # o PROVE IsFiniteSet({a, o}) /\ Cardinality({a, o}) = 2
  OBVIOUS
<1>1. IsFiniteSet({a}) /\ Cardinality({a}) = 1
  BY FS_Singleton
<1>2. o \notin {a}
  OBVIOUS
<1>3. IsFiniteSet({a} \cup {o}) /\ Cardinality({a} \cup {o}) = 1 + 1
  BY <1>1, <1>2, FS_AddElement
<1>4. {a, o} = {a} \cup {o}
  OBVIOUS
<1> QED BY <1>3, <1>4

\* What there is to spend is never more than two calls for each part.
LEMMA SpareCount ==
  /\ \A list, k : IsFiniteSet(Spare(list, k)) /\ Cardinality(Spare(list, k)) \in Nat
                  /\ Cardinality(Spare(list, k)) <= 2 * PartCount
  /\ \A list, k, S : \A x \in Spare(list, k) : S \subseteq Spare(list, k) \ {x} =>
       Cardinality(S) \in Nat /\ Cardinality(S) + 1 <= Cardinality(Spare(list, k))
<1>1. PICK All : All = Parts \X {1, 2}
  OBVIOUS
<1>2. IsFiniteSet(Parts) /\ Cardinality(Parts) = PartCount
  BY EngineAssumption, FS_Interval DEF Parts
<1>3. IsFiniteSet({1, 2}) /\ Cardinality({1, 2}) = 2
  BY TwoElements
<1>4. IsFiniteSet(All) /\ Cardinality(All) = PartCount * 2
  BY <1>1, <1>2, <1>3, FS_Product
<1>5. \A list, k : Spare(list, k) \subseteq All
  BY <1>1 DEF Spare
<1>6. \A list, k : IsFiniteSet(Spare(list, k)) /\ Cardinality(Spare(list, k)) \in Nat
                   /\ Cardinality(Spare(list, k)) <= 2 * PartCount
  <2> SUFFICES ASSUME NEW S \in SUBSET All PROVE IsFiniteSet(S) /\ Cardinality(S) \in Nat /\ Cardinality(S) <= 2 * PartCount
    BY <1>5
  <2>1. IsFiniteSet(S) /\ Cardinality(S) <= Cardinality(All)
    BY <1>4, FS_Subset
  <2>2. Cardinality(S) \in Nat
    BY <2>1, FS_CardinalityType
  <2> QED BY <1>4, <2>1, <2>2, EngineAssumption
<1>7. ASSUME NEW list, NEW k, NEW S, NEW x \in Spare(list, k), S \subseteq Spare(list, k) \ {x}
      PROVE  Cardinality(S) \in Nat /\ Cardinality(S) + 1 <= Cardinality(Spare(list, k))
  <2>1. PICK D, less : D = Spare(list, k) /\ less = Spare(list, k) \ {x}
    OBVIOUS
  <2>2. IsFiniteSet(D) /\ Cardinality(D) \in Nat
    BY <1>6, <2>1
  <2>3. IsFiniteSet(less) /\ Cardinality(less) = Cardinality(D) - 1
    BY <2>1, <2>2, FS_RemoveElement
  <2>4. IsFiniteSet(S) /\ Cardinality(S) <= Cardinality(less)
    BY <1>7, <2>1, <2>3, FS_Subset
  <2>5. Cardinality(S) \in Nat
    BY <2>4, FS_CardinalityType
  <2> QED BY <2>1, <2>2, <2>3, <2>4, <2>5
<1> QED BY <1>6, <1>7

EngineStages == {"asked", "calling", "done", "thrown"}

EngineInv ==
  /\ kind \in {"multi", "batch"} /\ size \in [Parts -> Sizes]
  /\ kind = "multi" => \A p, q \in Parts : size[p] = size[q]
  /\ WellCut(todo, kind, size)
  /\ given \subseteq tried /\ tried \subseteq Parts /\ Members(todo) \cap given = {}
  /\ engineAt \in EngineStages
  /\ engineAt # "calling" => todo = <<>>
  /\ engineAt = "asked" => given = {} /\ tried = {} /\ calls = 0
  /\ engineAt = "calling" => tried \cup Members(todo) = Parts
  /\ engineAt = "done" => tried = Parts
  /\ calls \in Nat /\ calls + Cardinality(Spare(todo, kind)) <= 2 * PartCount

LEMMA NothingCut == \A k, z : WellCut(<<>>, k, z) /\ Members(<<>>) = {} /\ Spare(<<>>, k) = {}
BY DEF WellCut, Members, Spare

LEMMA EngineStarts == EngineInit => EngineInv
<1> SUFFICES ASSUME EngineInit PROVE EngineInv
  OBVIOUS
<1>1. /\ kind \in {"multi", "batch"} /\ size \in [Parts -> Sizes] /\ (kind = "multi" => Cardinality(Range(size)) <= 1)
      /\ todo = <<>> /\ given = {} /\ tried = {} /\ calls = 0 /\ engineAt = "asked"
  BY DEF EngineInit
<1>2. ASSUME kind = "multi", NEW p \in Parts, NEW q \in Parts PROVE size[p] = size[q]
  <2> SUFFICES ASSUME size[p] # size[q] PROVE FALSE
    OBVIOUS
  <2>1. PICK S, two : S = Range(size) /\ two = {size[p], size[q]}
    OBVIOUS
  <2>2. two \subseteq S
    BY <1>1, <2>1 DEF Range
  <2>3. IsFiniteSet(S)
    <3>1. IsFiniteSet(Parts)
      BY EngineAssumption, FS_Interval DEF Parts
    <3>2. size \in Surjection(Parts, S)
      BY <1>1, <2>1 DEF Range, Surjection
    <3> QED BY <3>1, <3>2, FS_Surjection
  <2>4. Cardinality(two) = 2
    BY <2>1, TwoElements
  <2>5. Cardinality(two) <= Cardinality(S) /\ Cardinality(S) \in Nat
    BY <2>2, <2>3, FS_Subset, FS_CardinalityType
  <2> QED BY <1>1, <1>2, <2>1, <2>4, <2>5
<1>3. WellCut(todo, kind, size) /\ Members(todo) = {} /\ Spare(todo, kind) = {}
  BY <1>1, NothingCut
<1>4. calls + Cardinality(Spare(todo, kind)) <= 2 * PartCount
  BY <1>1, <1>3, FS_EmptySet, EngineAssumption
<1> QED BY <1>1, <1>2, <1>3, <1>4 DEF EngineInv, EngineStages

\* Cutting the request makes the calls for all its parts.
LEMMA ChunkedSound == ASSUME EngineInv, Chunked PROVE EngineInv'
<1>1. /\ kind \in {"multi", "batch"} /\ size \in [Parts -> Sizes]
      /\ kind = "multi" => \A p, q \in Parts : size[p] = size[q]
      /\ given = {} /\ tried = {} /\ calls = 0
  BY DEF EngineInv, Chunked
<1>2. PICK chunks : chunks = IF kind = "multi" THEN LanguageChunks ELSE TextChunks
  OBVIOUS
<1>3. Cut(chunks, size, PartCount)
  <2>1. size \in Weights
    BY <1>1, EngineAssumption DEF Weights
  <2>2. CASE kind = "multi"
    BY <1>1, <1>2, <2>2, LanguagesCut
  <2>3. CASE kind # "multi"
    BY <1>2, <2>1, <2>3, TextsCut
  <2> QED BY <2>2, <2>3
<1>4. PICK z, k, list : z = size /\ k = kind /\ list = [i \in DOMAIN chunks |-> [parts |-> chunks[i], retry |-> TRUE]]
  OBVIOUS
<1>5. todo' = list /\ kind' = k /\ size' = z /\ given' = {} /\ tried' = {} /\ calls' = 0 /\ engineAt' = "calling"
  BY <1>1, <1>2, <1>4 DEF Chunked
<1>6. PICK N : N = Len(chunks)
  OBVIOUS
<1>7. /\ chunks \in Seq(Seq(Parts)) /\ N \in Nat /\ DOMAIN chunks = 1..N
      /\ \A i \in 1..N : chunks[i] \in Seq(Parts) /\ Fit(z, chunks[i])
  <2>1. chunks \in Seq(Seq(Parts))
    BY <1>3 DEF Cut
  <2> QED BY <1>3, <1>4, <1>6, <2>1 DEF Cut
<1>8. \A i \in 1..N : list[i].parts = chunks[i] /\ list[i].retry = TRUE /\ list[i] \in CallRecords
  BY <1>4, <1>7 DEF CallRecords
<1>9. list \in Seq(CallRecords) /\ Len(list) = N
  <2>1. list \in [1..N -> CallRecords]
    BY <1>4, <1>7, <1>8
  <2> QED BY <1>7, <2>1
<1>10. WellCut(list, k, z)
  <2>1. \A i, j \in 1..N : i # j => Range(chunks[i]) \cap Range(chunks[j]) = {}
    BY <1>3, <1>6 DEF Cut
  <2>2. \A i, j \in 1..N : i # j => Range(list[i].parts) \cap Range(list[j].parts) = {}
    BY <1>8, <2>1
  <2> QED BY <1>7, <1>8, <1>9, <2>2 DEF WellCut
<1>11. Members(list) = Parts
  <2>1. \A p \in Parts : \E i \in 1..N : p \in Range(chunks[i])
    BY <1>3, <1>6 DEF Cut, Parts
  <2>2. \A p \in Parts : p \in Members(list)
    BY <1>8, <1>9, <2>1 DEF Members
  <2> QED BY <2>2 DEF Members
<1>12. Cardinality(Spare(list, k)) \in Nat /\ Cardinality(Spare(list, k)) <= 2 * PartCount
  BY SpareCount
<1>13. /\ k \in {"multi", "batch"} /\ z \in [Parts -> Sizes]
       /\ k = "multi" => \A p, q \in Parts : z[p] = z[q]
  BY <1>1, <1>4
<1> QED BY <1>5, <1>10, <1>11, <1>12, <1>13 DEF EngineInv, EngineStages

\* An answer that makes other calls of the first one.
LEMMA FollowsSound ==
  ASSUME EngineInv, engineAt = "calling", todo # <<>>, NEW next, FollowUp(next, todo[1], kind, size),
         NEW parts, parts \subseteq Range(todo[1].parts), next = <<>> \/ parts = {}, Follows(next, parts)
  PROVE  EngineInv'
<1>1. /\ WellCut(todo, kind, size) /\ given \subseteq tried /\ tried \subseteq Parts /\ Members(todo) \cap given = {}
      /\ tried \cup Members(todo) = Parts
      /\ calls \in Nat /\ calls + Cardinality(Spare(todo, kind)) <= 2 * PartCount
  BY DEF EngineInv
<1>2. PICK list, z, k, rest, all : list = todo /\ z = size /\ k = kind /\ rest = Tail(todo) /\ all = next \o Tail(todo)
  OBVIOUS
<1>3. PICK mine : mine = Range(list[1].parts)
  OBVIOUS
<1>4. /\ Head(list) = list[1] /\ Members(list) = mine \cup Members(rest) /\ mine \cap Members(rest) = {}
      /\ mine \subseteq Parts
  <2>1. /\ Head(list) = list[1] /\ Members(list) = mine \cup Members(rest) /\ mine \cap Members(rest) = {}
    BY <1>1, <1>2, <1>3, FirstCall
  <2>2. Members(list) \subseteq Parts
    BY DEF Members
  <2> QED BY <2>1, <2>2
<1>5. /\ WellCut(all, k, z) /\ Members(all) = Members(next) \cup Members(rest)
      /\ \E x \in Spare(list, k) : Spare(all, k) \subseteq Spare(list, k) \ {x}
  <2>1. WellCut(list, k, z) /\ list # <<>> /\ FollowUp(next, list[1], k, z)
    BY <1>1, <1>2
  <2> QED BY <1>2, <2>1, NextCut
<1>6. Members(next) \subseteq mine /\ (next = <<>> => Members(next) = {})
  BY <1>2, <1>3, NothingCut DEF FollowUp
<1>7. /\ todo' = all /\ given' = given \cup parts /\ tried' = tried \cup mine
      /\ kind' = k /\ size' = z /\ engineAt' = "calling" /\ calls' = calls + 1
  BY <1>2, <1>3, <1>4 DEF Follows
<1>8. PICK B, A : B = Cardinality(Spare(list, k)) /\ A = Cardinality(Spare(all, k))
  OBVIOUS
<1>9. A \in Nat /\ B \in Nat /\ A + 1 <= B
  <2>1. \A S : \A x \in Spare(list, k) : S \subseteq Spare(list, k) \ {x} =>
          Cardinality(S) \in Nat /\ Cardinality(S) + 1 <= Cardinality(Spare(list, k))
    BY SpareCount
  <2>2. Cardinality(Spare(list, k)) \in Nat
    BY SpareCount
  <2> QED BY <1>5, <1>8, <2>1, <2>2
<1>10. calls' \in Nat /\ calls' + A <= 2 * PartCount
  BY <1>1, <1>2, <1>7, <1>8, <1>9, EngineAssumption
<1>11. given' \subseteq tried' /\ tried' \subseteq Parts
  BY <1>1, <1>2, <1>3, <1>4, <1>7
<1>12. tried' \cup Members(all) = Parts
  <2>1. tried' \cup Members(all) \subseteq Parts
    BY <1>11 DEF Members
  <2>2. Parts \subseteq tried' \cup Members(all)
    BY <1>1, <1>2, <1>4, <1>5, <1>7
  <2> QED BY <2>1, <2>2
<1>13. Members(all) \cap given' = {}
  <2>1. CASE parts = {}
    BY <1>1, <1>2, <1>4, <1>5, <1>6, <1>7, <2>1
  <2>2. CASE next = <<>>
    <3>1. Members(all) = Members(rest)
      BY <1>5, <1>6, <2>2
    <3> QED BY <1>1, <1>2, <1>3, <1>4, <1>7, <3>1
  <2> QED BY <2>1, <2>2
<1>14. /\ k \in {"multi", "batch"} /\ z \in [Parts -> Sizes]
       /\ k = "multi" => \A p, q \in Parts : z[p] = z[q]
  BY <1>2 DEF EngineInv
<1> QED BY <1>5, <1>7, <1>8, <1>10, <1>11, <1>12, <1>13, <1>14 DEF EngineInv, EngineStages

LEMMA ThrowsSound ==
  ASSUME EngineInv, engineAt = "calling", todo # <<>>, Throws
  PROVE  EngineInv'
<1>1. WellCut(todo, kind, size) /\ tried \subseteq Parts /\ calls \in Nat /\ calls + Cardinality(Spare(todo, kind)) <= 2 * PartCount
  BY DEF EngineInv
<1>2. PICK list, z, k : list = todo /\ z = size /\ k = kind
  OBVIOUS
<1>3. Head(list) = list[1] /\ list[1] \in CallRecords /\ Fit(z, list[1].parts) /\ MayCost(list[1], k) \subseteq Spare(list, k)
  BY <1>1, <1>2, FirstCall
<1>4. Range(list[1].parts) \subseteq Parts
  BY <1>3, InRange DEF Fit
<1>5. \E x \in Spare(list, k) : {} \subseteq Spare(list, k) \ {x}
  <2>1. FollowUp(<<>>, list[1], k, z)
    BY <1>3, NothingFollows
  <2> QED BY <1>3, <2>1 DEF FollowUp
<1>6. Cardinality(Spare(list, k)) \in Nat /\ 0 + 1 <= Cardinality(Spare(list, k))
  <2>1. \A x \in Spare(list, k) : {} \subseteq Spare(list, k) \ {x} => Cardinality({}) + 1 <= Cardinality(Spare(list, k))
    BY SpareCount
  <2>2. Cardinality(Spare(list, k)) \in Nat
    BY SpareCount
  <2> QED BY <1>5, <2>1, <2>2, FS_EmptySet
<1>7. /\ todo' = <<>> /\ given' = {} /\ tried' = tried \cup Range(list[1].parts) /\ calls' = calls + 1 /\ engineAt' = "thrown"
      /\ kind' = k /\ size' = z
  BY <1>2, <1>3 DEF Throws
<1>8. WellCut(<<>>, k, z) /\ Members(<<>>) = {} /\ Cardinality(Spare(<<>>, k)) = 0
  BY NothingCut, FS_EmptySet
<1>9. calls' \in Nat /\ calls' + 0 <= 2 * PartCount
  BY <1>1, <1>2, <1>6, <1>7, EngineAssumption
<1>10. tried' \subseteq Parts
  BY <1>1, <1>4, <1>7
<1>11. /\ k \in {"multi", "batch"} /\ z \in [Parts -> Sizes]
       /\ k = "multi" => \A p, q \in Parts : z[p] = z[q]
  BY <1>2 DEF EngineInv
<1> QED BY <1>7, <1>8, <1>9, <1>10, <1>11 DEF EngineInv, EngineStages

LEMMA EngineStep == EngineInv /\ [EngineNext]_engineVars => EngineInv'
<1> SUFFICES ASSUME EngineInv, [EngineNext]_engineVars PROVE EngineInv'
  OBVIOUS
<1>1. CASE UNCHANGED engineVars
  BY <1>1 DEF EngineInv, engineVars
<1>2. CASE Chunked
  BY <1>2, ChunkedSound
<1>3. CASE Returns
  <2>1. /\ engineAt = "calling" /\ todo = <<>> /\ engineAt' = "done"
        /\ UNCHANGED <<kind, size, todo, given, tried, calls>>
    BY <1>3 DEF Returns
  <2>2. tried = Parts
    BY <2>1, NothingCut DEF EngineInv
  <2> QED BY <2>1, <2>2 DEF EngineInv, EngineStages
<1>4. CASE CallEnds
  <2>1. engineAt = "calling" /\ todo # <<>> /\ (Answers \/ CutShort \/ NotJson \/ Throws)
    BY <1>4 DEF CallEnds
  <2>2. PICK list, z, k, call : list = todo /\ z = size /\ k = kind /\ call = todo[1]
    OBVIOUS
  <2>3. /\ Head(list) = call /\ call \in CallRecords /\ Fit(z, call.parts)
        /\ (k = "batch" /\ ~call.retry => Len(call.parts) = 1)
        /\ k \in {"multi", "batch"}
    <3>1. WellCut(list, k, z) /\ list # <<>> /\ k \in {"multi", "batch"}
      BY <2>1, <2>2 DEF EngineInv
    <3>2. /\ Head(list) = list[1] /\ list[1] \in CallRecords /\ Fit(z, list[1].parts)
          /\ (k = "batch" /\ ~list[1].retry => Len(list[1].parts) = 1)
      BY <3>1, FirstCall
    <3> QED BY <2>2, <3>1, <3>2
  <2>4. FollowUp(<<>>, call, k, z)
    BY <2>3, NothingFollows
  <2>5. ASSUME NEW parts \in SUBSET Range(call.parts), Follows(<<>>, parts) PROVE EngineInv'
    BY <2>1, <2>2, <2>4, <2>5, FollowsSound
  <2>6. ASSUME k = "multi", Len(call.parts) # 1 PROVE FollowUp(Halves(call.parts), call, k, z)
    <3>1. z \in Weights /\ \A p, q \in Parts : z[p] = z[q]
      BY <2>2, <2>6, EngineAssumption DEF EngineInv, Weights
    <3> QED BY <2>3, <2>6, <3>1, HalvesFollow
  <2>7. ASSUME k = "batch", call.retry PROVE FollowUp(PerItem(call.parts), call, k, z)
    BY <2>3, <2>7, ItemsFollow
  <2>8. ASSUME NEW next, FollowUp(next, call, k, z), Follows(next, {}) PROVE EngineInv'
    BY <2>1, <2>2, <2>8, FollowsSound
  <2>9. CASE Answers
    BY <2>2, <2>3, <2>5, <2>9 DEF Answers
  <2>10. CASE CutShort
    <3>1. PICK next : /\ Follows(next, {})
                      /\ next = IF Len(call.parts) = 1 THEN <<>>
                                ELSE IF k = "multi" THEN Halves(call.parts) ELSE PerItem(call.parts)
      BY <2>2, <2>3, <2>10 DEF CutShort
    <3>2. FollowUp(next, call, k, z)
      <4>1. CASE Len(call.parts) = 1
        BY <2>4, <3>1, <4>1
      <4>2. CASE Len(call.parts) # 1 /\ k = "multi"
        BY <2>6, <3>1, <4>2
      <4>3. CASE Len(call.parts) # 1 /\ k # "multi"
        <5>1. k = "batch" /\ call.retry
          BY <2>3, <4>3 DEF CallRecords
        <5> QED BY <2>7, <3>1, <4>3, <5>1
      <4> QED BY <4>1, <4>2, <4>3
    <3> QED BY <2>8, <3>1, <3>2
  <2>11. CASE Throws
    BY <2>1, <2>11, ThrowsSound
  <2>12. CASE NotJson
    <3>1. CASE k = "multi"
      BY <2>2, <2>11, <2>12, <3>1 DEF NotJson
    <3>2. CASE k # "multi"
      <4>1. PICK next : Follows(next, {}) /\ next = IF call.retry THEN PerItem(call.parts) ELSE <<>>
        BY <2>2, <2>3, <2>12, <3>2 DEF NotJson
      <4>2. FollowUp(next, call, k, z)
        <5>1. k = "batch"
          BY <2>3, <3>2
        <5> QED BY <2>4, <2>7, <4>1, <5>1
      <4> QED BY <2>8, <4>1, <4>2
    <3> QED BY <3>1, <3>2
  <2> QED BY <2>1, <2>9, <2>10, <2>11, <2>12
<1> QED BY <1>1, <1>2, <1>3, <1>4 DEF EngineNext

\* The invariant, in the terms of the properties.
LEMMA EngineSafe == EngineInv => EngineSound /\ EngineTypeOK
<1> SUFFICES ASSUME EngineInv PROVE EngineSound /\ EngineTypeOK
  OBVIOUS
<1>1. PICK N : N = Len(todo)
  OBVIOUS
<1>2. /\ N \in Nat /\ DOMAIN todo = 1..N
      /\ \A i \in 1..N : Fit(size, todo[i].parts) /\ Range(todo[i].parts) \subseteq Parts
      /\ \A i, j \in 1..N : i # j => Range(todo[i].parts) \cap Range(todo[j].parts) = {}
  <2>1. WellCut(todo, kind, size)
    BY DEF EngineInv
  <2>2. todo \in Seq(CallRecords)
    BY <2>1 DEF WellCut
  <2>3. N \in Nat /\ DOMAIN todo = 1..N
    BY <1>1, <2>2
  <2>4. \A i \in 1..N : Fit(size, todo[i].parts)
    BY <1>1, <2>1 DEF WellCut
  <2>5. \A i \in 1..N : Range(todo[i].parts) \subseteq Parts
    BY <2>4, InRange DEF Fit
  <2> QED BY <1>1, <2>1, <2>3, <2>4, <2>5 DEF WellCut
<1>3. ToCome = Members(todo)
  <2>1. \A p : p \in ToCome <=> \E i \in 1..N : p \in Range(todo[i].parts)
    BY <1>2 DEF ToCome
  <2>2. \A p : p \in Members(todo) <=> \E i \in 1..N : p \in Range(todo[i].parts)
    BY <1>1, <1>2 DEF Members
  <2> QED BY <2>1, <2>2
<1>4. EachOnce
  BY <1>2, <1>3 DEF EngineInv, EachOnce
<1>5. CallsFit
  BY <1>2 DEF CallsFit, Fit, SizeOf
<1>6. CallsBounded
  <2>1. Cardinality(Spare(todo, kind)) \in Nat
    BY SpareCount
  <2> QED BY <2>1, EngineAssumption DEF EngineInv, CallsBounded
<1>7. EngineTypeOK
  BY <1>2 DEF EngineInv, EngineTypeOK, Fit, EngineStages
<1> QED BY <1>4, <1>5, <1>6, <1>7 DEF EngineSound

-----------------------------------------------------------------------------
(* The pipeline.                                                            *)

PipelineInv ==
  QueueInv /\ WindowInv /\ EngineInv /\ PostInv /\ RetentionInv /\ text \subseteq Characters

LEMMA PipelineStarts == PipelineInit => PipelineInv
<1> SUFFICES ASSUME PipelineInit PROVE PipelineInv
  OBVIOUS
<1>1. QueueInit /\ EngineInit /\ PostInit /\ ScriptsInit /\ RetentionInit
  BY DEF PipelineInit
<1>2. text \subseteq Characters
  BY <1>1 DEF ScriptsInit
<1> QED BY <1>1, <1>2, QueueInitial, WindowInitial, EngineStarts, PostStarts, RetentionStarts DEF PipelineInv

LEMMA PipelineStep == PipelineInv /\ [PipelineNext]_pipelineVars => PipelineInv'
<1> SUFFICES ASSUME PipelineInv, [PipelineNext]_pipelineVars PROVE PipelineInv'
  OBVIOUS
<1>1. QueueInv /\ WindowInv /\ EngineInv /\ PostInv /\ RetentionInv /\ text \subseteq Characters
  BY DEF PipelineInv
<1>2. /\ [QueueNext]_queueVars /\ [EngineNext]_engineVars /\ [PostNext]_postVars
      /\ [NextText]_text /\ [RetentionNext]_retentionVars
  BY DEF PipelineNext, pipelineVars
<1>3. QueueInv'
  BY <1>1, <1>2, QueueStep
<1>4. WindowInv'
  BY <1>1, <1>2, WindowStep
<1>5. EngineInv'
  BY <1>1, <1>2, EngineStep
<1>6. PostInv'
  BY <1>1, <1>2, PostStep
<1>7. RetentionInv' /\ text' \subseteq Characters
  BY <1>1, <1>2, RetentionStep, ScriptsStep
<1> QED BY <1>3, <1>4, <1>5, <1>6, <1>7 DEF PipelineInv

LEMMA PipelineSafe ==
  ASSUME PipelineInv
  PROVE  PipelineSound /\ PipelineTypeOK
<1>1. QueueInv /\ WindowInv /\ EngineInv /\ PostInv /\ RetentionInv /\ text \subseteq Characters
  BY DEF PipelineInv
<1>2. SlotsExact /\ WindowWithinLimit /\ QueueTypeOK
  BY <1>1, QueueExact, WindowSafe, QueueTyped
<1>3. EngineSound /\ EngineTypeOK
  BY <1>1, EngineSafe
<1>4. OneCallPerText /\ LatelyUsedKept /\ PostTypeOK
  BY <1>1, PostSafe
<1>5. ScriptsAgree
  BY <1>1, ScriptsSafe
<1>6. RetentionComplete /\ RetentionTypeOK
  BY <1>1 DEF RetentionInv
<1> QED BY <1>1, <1>2, <1>3, <1>4, <1>5, <1>6 DEF PipelineSound, PipelineTypeOK

\* Whatever the limits, the texts and the answers of the provider: the slots are counted
\* exactly and the window is kept (translation-queue.service.ts), every part of a request
\* is asked for, in calls that fit and of which two per part are enough
\* (translate-engine.service.ts), whoever asks for the same text shares one call and what
\* was used lately is remembered (translate.service.ts, translation-cache.service.ts),
\* server and browser leave out the same texts, and what is cleaned is cleaned completely
\* (message-retention.service.ts).
THEOREM PipelineServed == PipelineSpec => [](PipelineSound /\ PipelineTypeOK)
BY PipelineStarts, PipelineStep, PipelineSafe, PTL DEF PipelineSpec
=============================================================================
