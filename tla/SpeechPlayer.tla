---------------------------- MODULE SpeechPlayer ----------------------------
(***************************************************************************)
(* The two players that speak a countdown in the browser                   *)
(* (web/src/components/Battle/countdownPlayer.js, rallyGroupPlayer.js) and *)
(* the effects that drive them (Countdown.jsx, RallyGroupCountdown.jsx).   *)
(* Every word is reserved on the audio clock, which stands still while the *)
(* device is called away; a late buffer is dropped, and a resumed clock    *)
(* gets a new schedule.  A tick is a second; the device clock is the       *)
(* server's, so that clock and personal are what the estimate is off by.   *)
(* The players have the same code but for the words, so kind says which    *)
(* one a behaviour is about.                                               *)
(***************************************************************************)
EXTENDS Integers, FiniteSets, FiniteSetsExt

CONSTANTS
  TotalSeconds,    \* of the alliance countdown
  Marches,         \* values of myMarchSeconds, 0 for null
  Fires,           \* fireOffsets of the rally: <<orderIndex, second>>
  LeadIn,          \* the announcement comes this much ahead (6)
  PreCount,        \* and the count down to the start (3)
  MaxOffset,       \* MAX_OFFSET_SEC
  Threshold,       \* RESCHEDULE_THRESHOLD_MS
  ClockOffsets, PersonalOffsets,
  EndOfTime, MaxShows, MaxMoves, MaxPauses, MaxFailedBuffers,
  NoPlan

ASSUME PlayerAssumption ==
  /\ {TotalSeconds, PreCount, MaxOffset, Threshold, LeadIn} \subseteq Nat /\ LeadIn > PreCount
  /\ PreCount <= MaxOffset /\ EndOfTime \in Nat
  /\ Marches \subseteq Nat /\ Fires \subseteq (Nat \X Nat) /\ IsFiniteSet(Fires)
  /\ ClockOffsets \subseteq Int /\ PersonalOffsets \subseteq Int
  /\ 0 \in ClockOffsets \cap PersonalOffsets \cap Marches
  /\ NoPlan \notin [start : Int, offset : Int, march : Nat]

VARIABLES
  kind,             \* "countdown" or "rally"
  wall, audio,      \* seconds of the server, and of the audio clock
  ctx,              \* "running" or "suspended"
  clip,             \* per word: "none", "loading" or "ready"
  pendingSchedule,
  calls,            \* schedule() calls under way; live: the id is still the latest
  waits,            \* words reserved for when their buffer arrives
  sources,          \* words reserved on the audio clock, or sounding
  shown,            \* the countdown of the store: its start, or 0
  clock, personal, march,
  lastOffset,       \* lastOffsetRef
  budget            \* shows, moves, pauses, failed buffers so far

playerVars == <<kind, wall, audio, ctx, clip, pendingSchedule, calls, waits, sources, shown, clock, personal, march, lastOffset, budget>>

\* Every number from n down to 1, and the departure of this user when it falls in range.
CountdownSlots(p) ==
  {[word |-> <<"number", n>>, at |-> TotalSeconds - n] : n \in 1..TotalSeconds}
    \cup {[word |-> <<"march", 0>>, at |-> TotalSeconds - m] : m \in {p.march} \cap 1..Min({180, TotalSeconds})}

CaptainSeconds == {f[2] : f \in Fires}

\* The announcement, the count down to the start, the captains, and the seconds between
\* them, without those the count down has used.
RallySlots ==
  {[word |-> <<"start", 1>>, at |-> -LeadIn]}
    \cup {[word |-> <<"number", n>>, at |-> -n] : n \in 1..PreCount}
    \cup {[word |-> <<"captain", f[1]>>, at |-> f[2]] : f \in Fires}
    \cup {[word |-> <<"number", t>>, at |-> t] :
            t \in (PreCount + 1)..Min({Max(CaptainSeconds \cup {0}), MaxOffset}) \ CaptainSeconds}

SlotsOf(p) == IF kind = "rally" THEN RallySlots ELSE CountdownSlots(p)

Words == {<<"start", 1>>, <<"march", 0>>} \cup {<<"number", n>> : n \in 1..Max({TotalSeconds, MaxOffset})}
           \cup {<<"captain", f[1]>> : f \in Fires}

\* cold: the words whose buffers are not decoded yet.
PlayerInit(k, cold) ==
  /\ kind = k /\ wall = 0 /\ audio = 0 /\ ctx = "running"
  /\ clip = [w \in Words |-> IF w \in cold THEN "none" ELSE "ready"]
  /\ pendingSchedule = NoPlan /\ calls = {} /\ waits = {} /\ sources = {}
  /\ shown = 0 /\ clock = 0 /\ personal = 0 /\ march = 0 /\ lastOffset = 0
  /\ budget = [shows |-> 0, moves |-> 0, pauses |-> 0, failed |-> 0]

-----------------------------------------------------------------------------
(***************************************************************************)
(* The player                                                              *)
(***************************************************************************)
\* loadBuffer: one request per word.
Fetched(words) == [w \in Words |-> IF w \in words /\ clip[w] = "none" THEN "loading" ELSE clip[w]]

Dead(set) == {[x EXCEPT !.live = FALSE] : x \in set}

\* What is reserved falls silent, what is waited for is not reserved any more.
Silenced == waits' = Dead(waits) /\ sources' = {}

\* MUTANT of Stopped: what would be scheduled again on a resume is kept.
StoppedKeepsPending ==
  /\ calls' = Dead(calls) /\ Silenced /\ UNCHANGED <<pendingSchedule, clip>>

\* stopCountdownAudio, stopRallyCountdown: the id moves on, what is reserved is silenced.
Stopped ==
  /\ calls' = Dead(calls) /\ Silenced
  /\ pendingSchedule' = NoPlan /\ UNCHANGED clip

NewCall(p) == [live |-> TRUE, stage |-> "warming", aged |-> FALSE, plan |-> p]

\* MUTANT of Scheduled: the old reservations stay.
ScheduledBeside(p) ==
  /\ calls' = calls \cup {NewCall(p)}
  /\ pendingSchedule' = p /\ clip' = Fetched({s.word : s \in SlotsOf(p)}) /\ UNCHANGED <<waits, sources>>

\* What was scheduled is stopped, all words are fetched, and the first one is waited for.
Scheduled(p) ==
  /\ calls' = Dead(calls) \cup {NewCall(p)} /\ Silenced
  /\ pendingSchedule' = p /\ clip' = Fetched({s.word : s \in SlotsOf(p)})

\* MUTANT of Punctual: what is late begins at once.
PunctualOrNot(at) == TRUE

\* startSource drops what is past due.
Punctual(at) == at >= audio

\* MUTANT of Live: a call goes on under a newer id.
LiveOrNot(c) == TRUE

\* The comparison of myId after an await.
Live(c) == c.live

\* schedulePlay of words whose buffers are there.
Reserved(slots) == {[word |-> s.word, at |-> Max({s.at, audio})] : s \in {r \in slots : Punctual(r.at)}}

\* The audio time at which the countdown starts by the clock of now.
AnchorOf(p) == audio + p.start - (wall + p.offset)

\* A reservation for every word, now or when its buffer is there.
Anchored(p) ==
  LET slots == {[word |-> s.word, at |-> AnchorOf(p) + s.at] : s \in SlotsOf(p)}
      ready == {s \in slots : clip[s.word] = "ready"}
  IN /\ sources' = sources \cup Reserved(ready)
     /\ waits' = waits \cup {[word |-> s.word, at |-> s.at, live |-> TRUE] : s \in slots \ ready}
     /\ clip' = Fetched({s.word : s \in slots})

\* The first buffer, or half a second; a stopped clock is given a moment more.
WarmedUp(c) ==
  /\ c \in calls /\ c.stage = "warming"
  /\ IF Live(c) /\ ctx = "suspended"
     THEN calls' = (calls \ {c}) \cup {[c EXCEPT !.stage = "resuming"]} /\ UNCHANGED <<sources, waits, clip>>
     ELSE /\ calls' = calls \ {c}
          /\ IF Live(c) THEN Anchored(c.plan) ELSE UNCHANGED <<sources, waits, clip>>
  /\ UNCHANGED <<kind, wall, audio, ctx, pendingSchedule, shown, clock, personal, march, lastOffset, budget>>

\* It runs by now, or the call withdraws until the clock says that it runs.
ResumeWaited(c) ==
  /\ c \in calls /\ c.stage = "resuming"
  /\ calls' = calls \ {c}
  /\ IF Live(c) /\ ctx = "running" THEN Anchored(c.plan) ELSE UNCHANGED <<sources, waits, clip>>
  /\ UNCHANGED <<kind, wall, audio, ctx, pendingSchedule, shown, clock, personal, march, lastOffset, budget>>

\* A buffer is fetched and decoded: those who wait for it look at the time again.
BufferArrives(w) ==
  /\ clip[w] = "loading" /\ clip' = [clip EXCEPT ![w] = "ready"]
  /\ waits' = {x \in waits : x.word # w}
  /\ sources' = sources \cup Reserved({x \in waits : x.word = w /\ Live(x)})
  /\ UNCHANGED <<kind, wall, audio, ctx, pendingSchedule, calls, shown, clock, personal, march, lastOffset, budget>>

BufferFails(w) ==
  /\ clip[w] = "loading" /\ clip' = [clip EXCEPT ![w] = "none"]
  /\ budget.failed < MaxFailedBuffers /\ budget' = [budget EXCEPT !.failed = @ + 1]
  /\ waits' = {x \in waits : x.word # w}
  /\ UNCHANGED <<kind, wall, audio, ctx, pendingSchedule, calls, sources, shown, clock, personal, march, lastOffset>>

\* primeCountdownAudio when the page comes up, warmupRallyAudio when somebody logs in.
CountdownPrimed == kind = "countdown" /\ clip' = Fetched({w \in Words : w[1] = "number"})
RallyPrimed == kind = "rally" /\ clip' = Fetched({w \in Words : w[1] # "march"})

Primes ==
  /\ wall = 0 /\ budget.shows = 0 /\ (CountdownPrimed \/ RallyPrimed)
  /\ UNCHANGED <<kind, wall, audio, ctx, pendingSchedule, calls, waits, sources, shown, clock, personal, march, lastOffset, budget>>

\* A telephone call, or autoplay that is not allowed.
Suspends ==
  /\ ctx = "running" /\ ctx' = "suspended"
  /\ budget.pauses < MaxPauses /\ budget' = [budget EXCEPT !.pauses = @ + 1]
  /\ UNCHANGED <<kind, wall, audio, clip, pendingSchedule, calls, waits, sources, shown, clock, personal, march, lastOffset>>

\* MUTANT of Resumes: nobody listens for the state of the clock.
ResumesUnheard ==
  /\ ctx = "suspended" /\ ctx' = "running"
  /\ UNCHANGED <<kind, wall, audio, clip, pendingSchedule, calls, waits, sources, shown, clock, personal, march, lastOffset, budget>>

\* statechange: what is pending is scheduled again by the clock of now.
Resumes ==
  /\ ctx = "suspended" /\ ctx' = "running"
  /\ IF pendingSchedule = NoPlan
     THEN UNCHANGED <<clip, pendingSchedule, calls, waits, sources>>
     ELSE Scheduled(pendingSchedule)
  /\ UNCHANGED <<kind, wall, audio, shown, clock, personal, march, lastOffset, budget>>

\* Seconds pass.  The awaits of a call last less than one.
Passes ==
  /\ wall < EndOfTime /\ \A c \in calls : ~c.aged
  /\ wall' = wall + 1 /\ audio' = IF ctx = "running" THEN audio + 1 ELSE audio
  /\ calls' = {[c EXCEPT !.aged = TRUE] : c \in calls}
  /\ sources' = {s \in sources : s.at >= audio'}
  /\ UNCHANGED <<kind, ctx, clip, pendingSchedule, waits, shown, clock, personal, march, lastOffset, budget>>

-----------------------------------------------------------------------------
(***************************************************************************)
(* The components                                                          *)
(***************************************************************************)
Effective == clock + personal
PlanFor(start, offset, m) == [start |-> start, offset |-> offset, march |-> IF kind = "rally" THEN 0 ELSE m]

\* The countdown of the store changes: the effect on its start schedules.  A browser that
\* connects in the middle of a countdown gets one that has begun.
Shows(start) ==
  /\ budget.shows < MaxShows /\ start # shown
  /\ shown' = start /\ budget' = [budget EXCEPT !.shows = @ + 1]
  /\ Scheduled(PlanFor(start, Effective, march)) /\ lastOffset' = Effective
  /\ UNCHANGED <<kind, wall, audio, ctx, clock, personal, march>>

\* It is over or stopped, or the component goes.
Hides ==
  /\ shown # 0 /\ shown' = 0 /\ Stopped
  /\ UNCHANGED <<kind, wall, audio, ctx, clock, personal, march, lastOffset, budget>>

Distance(a, b) == IF a < b THEN b - a ELSE a - b

Rescheduled(offset, m) == Scheduled(PlanFor(shown, offset, m)) /\ lastOffset' = offset

NotRescheduled == UNCHANGED <<clip, pendingSchedule, calls, waits, sources, lastOffset>>

\* MUTANT of Jumped: compared with the estimate of before, not the one in use.
JumpedSinceBefore(offset) == Distance(offset, Effective) > Threshold

Jumped(offset) == Distance(offset, lastOffset) > Threshold

\* The effect on the estimate.
ClockMoves(o) ==
  /\ o # clock /\ clock' = o
  /\ budget.moves < MaxMoves /\ budget' = [budget EXCEPT !.moves = @ + 1]
  /\ IF shown # 0 /\ Jumped(o + personal) THEN Rescheduled(o + personal, march) ELSE NotRescheduled
  /\ UNCHANGED <<kind, wall, audio, ctx, shown, personal, march>>

\* The effect on the correction of this device, whatever its size.
PersonalMoves(o) ==
  /\ o # personal /\ personal' = o
  /\ budget.moves < MaxMoves /\ budget' = [budget EXCEPT !.moves = @ + 1]
  /\ IF shown # 0 /\ lastOffset # clock + o THEN Rescheduled(clock + o, march) ELSE NotRescheduled
  /\ UNCHANGED <<kind, wall, audio, ctx, shown, clock, march>>

\* The effect on the march time of the alliance countdown leaves lastOffsetRef as it was.
MarchMoves(m) ==
  /\ kind = "countdown" /\ m # march /\ march' = m
  /\ budget.moves < MaxMoves /\ budget' = [budget EXCEPT !.moves = @ + 1]
  /\ IF shown # 0 THEN Scheduled(PlanFor(shown, Effective, m))
                  ELSE UNCHANGED <<clip, pendingSchedule, calls, waits, sources>>
  /\ UNCHANGED <<kind, wall, audio, ctx, shown, clock, personal, lastOffset>>

\* A reconnect brings the same rally as a new object, which two of the effects look at.
SnapshotAgain ==
  /\ kind = "rally" /\ shown # 0 /\ lastOffset # Effective
  /\ Rescheduled(Effective, march)
  /\ UNCHANGED <<kind, wall, audio, ctx, shown, clock, personal, march, budget>>

PlayerNext ==
  \/ \E c \in calls : WarmedUp(c) \/ ResumeWaited(c)
  \/ \E w \in Words : BufferArrives(w) \/ BufferFails(w)
  \/ Primes \/ Suspends \/ Resumes \/ Passes
  \/ \E s \in 1..EndOfTime : Shows(s)
  \/ Hides \/ SnapshotAgain
  \/ \E o \in ClockOffsets : ClockMoves(o)
  \/ \E o \in PersonalOffsets : PersonalMoves(o)
  \/ \E m \in Marches : MarchMoves(m)

-----------------------------------------------------------------------------
PlayerTypeOK ==
  /\ wall \in 0..EndOfTime /\ audio \in 0..wall /\ ctx \in {"running", "suspended"}
  /\ clip \in [Words -> {"none", "loading", "ready"}]
  /\ \A s \in sources \cup waits : s.word \in Words /\ s.at \in Int
  /\ \A c \in calls : c.stage \in {"warming", "resuming"}
  /\ shown \in 0..EndOfTime /\ clock \in ClockOffsets /\ personal \in PersonalOffsets /\ march \in Marches

\* What is reserved is what the last schedule asked for, and it will sound in its
\* second: no word of an older one, none late, none shifted by the time that the audio
\* clock stood still.
SpokenInTime ==
  ctx = "running" =>
    \A s \in sources :
      /\ pendingSchedule # NoPlan
      /\ \E t \in SlotsOf(pendingSchedule) :
           t.word = s.word /\ wall + s.at - audio + pendingSchedule.offset = pendingSchedule.start + t.at

\* And nothing of it is left out: when no call is under way, every decoded word that is
\* still to come is reserved.
NothingSkipped ==
  (ctx = "running" /\ pendingSchedule # NoPlan /\ \A c \in calls : ~c.live) =>
    \A t \in SlotsOf(pendingSchedule) :
      LET due == pendingSchedule.start + t.at - pendingSchedule.offset
      IN (clip[t.word] = "ready" /\ due >= wall) => \E s \in sources : s.word = t.word /\ s.at - audio = due - wall

\* When no countdown is shown nothing sounds, and nothing comes back with the clock.
SilentWhenHidden == shown = 0 => sources = {} /\ pendingSchedule = NoPlan

\* What is spoken follows the estimate: it is off by no more than the threshold, and by
\* twice that where the march time has been changed in between.
FollowsClock ==
  pendingSchedule # NoPlan =>
    Distance(pendingSchedule.offset, Effective) <= IF kind = "rally" THEN Threshold ELSE 2 * Threshold
=============================================================================
