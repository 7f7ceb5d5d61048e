-------------------------- MODULE TranslationQueue --------------------------
(***************************************************************************)
(* The queue in front of the translation provider                          *)
(* (server/src/translate/translation-queue.service.ts): a few calls at a   *)
(* time, a number of them per window, and a refusal beyond that.  Time is  *)
(* relative: what has started carries its age, up to the window.           *)
(***************************************************************************)
EXTENDS Lists

CONSTANTS
  Calls,         \* calls of run(), each made once
  Concurrency,   \* TRANSLATION_QUEUE_CONCURRENCY
  Rpm,           \* TRANSLATE_GLOBAL_RPM
  QueueWindow    \* TRANSLATION_QUEUE_WINDOW_MS

ASSUME QueueAssumption ==
  Concurrency \in Nat \ {0} /\ Rpm \in Nat \ {0} /\ QueueWindow \in Nat \ {0}

VARIABLES
  run,      \* per call: "idle", "waiting", "running", "over" or "limit"
  running,
  waiting,  \* the calls that wait for a slot, in order
  started,  \* ages of the reservations, the oldest first
  accepted  \* per call: the age of its reservation, or -1

queueVars == <<run, running, waiting, started, accepted>>

QueueInit ==
  /\ run = [c \in Calls |-> "idle"] /\ running = 0 /\ waiting = <<>>
  /\ started = <<>> /\ accepted = [c \in Calls |-> -1]

Older(age) == IF age = -1 \/ age = QueueWindow THEN age ELSE age + 1

QueueTick ==
  /\ started' = [i \in DOMAIN started |-> Older(started[i])]
  /\ accepted' = [c \in Calls |-> Older(accepted[c])]
  /\ UNCHANGED <<run, running, waiting>>

\* MUTANT of Pruned: the oldest of the window goes with them.
PrunedEarly == Those(started, 0..(QueueWindow - 2))

\* prune: what is a window old has no part in the limit.
Pruned == Those(started, 0..(QueueWindow - 1))

\* run: a place in the window first, then a slot or a place in the line.
Run(c) ==
  /\ run[c] = "idle"
  /\ IF Len(Pruned) >= Rpm
     THEN /\ run' = [run EXCEPT ![c] = "limit"]
          /\ started' = Pruned
          /\ UNCHANGED <<running, waiting, accepted>>
     ELSE /\ started' = Append(Pruned, 0) /\ accepted' = [accepted EXCEPT ![c] = 0]
          /\ IF running < Concurrency
             THEN run' = [run EXCEPT ![c] = "running"] /\ running' = running + 1 /\ UNCHANGED waiting
             ELSE run' = [run EXCEPT ![c] = "waiting"] /\ waiting' = Append(waiting, c) /\ UNCHANGED running

\* MUTANT of RunEnds: the slot is given back, and the line is not looked at.
RunEndsOnly(c) ==
  /\ run[c] = "running"
  /\ run' = [run EXCEPT ![c] = "over"] /\ running' = running - 1
  /\ UNCHANGED <<waiting, started, accepted>>

\* MUTANT of RunEnds: the slot is handed on and given back.
RunEndsTwice(c) ==
  /\ run[c] = "running"
  /\ running' = running - 1
  /\ IF waiting = <<>> THEN run' = [run EXCEPT ![c] = "over"] /\ UNCHANGED waiting
                       ELSE run' = [run EXCEPT ![c] = "over", ![Head(waiting)] = "running"] /\ waiting' = Tail(waiting)
  /\ UNCHANGED <<started, accepted>>

\* It resolves or rejects: release hands the slot to the next in the line.
RunEnds(c) ==
  /\ run[c] = "running"
  /\ IF waiting = <<>>
     THEN run' = [run EXCEPT ![c] = "over"] /\ running' = running - 1 /\ UNCHANGED waiting
     ELSE /\ run' = [run EXCEPT ![c] = "over", ![Head(waiting)] = "running"]
          /\ waiting' = Tail(waiting) /\ UNCHANGED running
  /\ UNCHANGED <<started, accepted>>

QueueNext == QueueTick \/ \E c \in Calls : Run(c) \/ RunEnds(c)

\* The provider answers within its thirty seconds.
QueueFairness == WF_queueVars(\E c \in Calls : RunEnds(c))

-----------------------------------------------------------------------------
QueueTypeOK ==
  /\ run \in [Calls -> {"idle", "waiting", "running", "over", "limit"}]
  /\ running \in 0..Concurrency /\ waiting \in Seq(Calls)
  /\ Len(started) <= Rpm /\ accepted \in [Calls -> -1..QueueWindow]

\* The counter is the number of calls that run: slots are neither lost nor given twice,
\* and nobody is in the line while one is free.
SlotsExact ==
  /\ running = Cardinality({c \in Calls : run[c] = "running"})
  /\ waiting # <<>> => running = Concurrency

\* In no window of time are more calls let in than the limit says, those that
\* still wait among them.
WindowWithinLimit == Cardinality({c \in Calls : accepted[c] \in 0..(QueueWindow - 1)}) <= Rpm

\* A call was let in and has not come to run.
InLine == \E c \in Calls : run[c] = "waiting"
=============================================================================
