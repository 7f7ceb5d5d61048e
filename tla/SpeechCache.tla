----------------------------- MODULE SpeechCache -----------------------------
(***************************************************************************)
(* The spoken numbers and phrases of the countdowns: the cache of mp3      *)
(* files (server/src/tts/tts.service.ts, tts.controller.ts), what makes    *)
(* them invalid when a release changes a setting (tts.cache-meta.ts), and  *)
(* the script that fills the cache while the server may run                *)
(* (scripts/tts-generate.ts).  A setting is a version, a file is the       *)
(* settings it was made with, and a fingerprint is what it is made of.     *)
(***************************************************************************)
EXTENDS Integers, FiniteSets, SequencesExt

CONSTANTS
  Numbers, Phrases,  \* clips: a language and a key each
  Voices,            \* languages
  VoiceOf,           \* the language of a clip
  Asks,              \* requests of browsers and of preGenerateAll
  Slots,             \* of the semaphore
  MaxAttempts,       \* MAX_TTS_RETRIES
  MaxReleases,       \* bound on the releases
  NoAsk              \* no request

Clips == Numbers \cup Phrases
\* The settings a sound depends on: speakingRate and template of all, voice, text.
Settings == {"rate", "template"} \cup Voices \cup Phrases
Needs(c) == {"rate", "template", VoiceOf[c]} \cup ({c} \cap Phrases)

ASSUME SpeechAssumption ==
  /\ VoiceOf \in [Clips -> Voices] /\ Numbers \cap Phrases = {} /\ Voices \cap Clips = {}
  /\ {"rate", "template"} \cap (Voices \cup Clips) = {} /\ IsFiniteSet(Asks)
  /\ Slots \in Nat \ {0} /\ MaxAttempts \in Nat \ {0} /\ MaxReleases \in Nat /\ NoAsk \notin Asks

VARIABLES
  meta,     \* cache.meta.json: its version, 0 for none, and what has changed since
  allowed,  \* the clips this release has
  disk,     \* per clip: "none", "damaged" (too small), "fresh" or "stale"
  tmp,      \* per clip, its .tmp file: "none", "partial" or "whole"
  undeleted,   \* clips whose last unlink in a reconciliation has failed
  proc,     \* server and script: [stage, saved, doomed]
  keyed,    \* the server has an API key
  ask,      \* per request: [stage, clip, on, tries]
  owner,    \* pendingFiles: per clip the request that makes it, or NoAsk
  free,     \* the count of the semaphore
  line,     \* its queue
  task,     \* per clip: what the script does about it
  releases

speechVars == <<meta, allowed, disk, tmp, undeleted, proc, keyed, ask, owner, free, line, task, releases>>
askVars == <<ask, owner, free, line>>

Procs == {"server", "script"}
NoMeta == [version |-> 0, changed |-> {}]
Current == [version |-> 2, changed |-> {}]
Halted == [stage |-> "down", saved |-> NoMeta, doomed |-> {}]
NotAsking == [stage |-> "idle", clip |-> CHOOSE c \in Clips : TRUE, on |-> NoAsk, tries |-> 0]
Existing == {c \in Clips : disk[c] # "none"}
Good(c) == disk[c] \in {"fresh", "stale"}

\* A cache that an earlier release has left, with files that were too small even then.
SpeechInit ==
  /\ meta \in {NoMeta, Current, [Current EXCEPT !.version = 1]}
  /\ allowed = Clips
  /\ disk \in [Clips -> {"none", "damaged", "fresh"}]
  /\ tmp = [c \in Clips |-> "none"] /\ undeleted = {}
  /\ proc = [p \in Procs |-> Halted] /\ keyed = TRUE
  /\ ask = [a \in Asks |-> NotAsking] /\ owner = [c \in Clips |-> NoAsk]
  /\ free = Slots /\ line = <<>> /\ task = [c \in Clips |-> "no"] /\ releases = 0

-----------------------------------------------------------------------------
(* Releases, starts and ends.                                              *)

\* A setting or a text is changed, or a clip is dropped.  The first metadata do not
\* know the template: the code asks not to change it together with the migration.
NewRelease ==
  /\ releases < MaxReleases /\ \A p \in Procs : proc[p] = Halted
  /\ \/ \E i \in Settings :
          /\ i = "template" => meta.version # 1
          /\ meta' = [meta EXCEPT !.changed = IF meta.version = 0 THEN @ ELSE @ \cup {i}]
          /\ disk' = [c \in Clips |-> IF disk[c] = "fresh" /\ i \in Needs(c) THEN "stale" ELSE disk[c]]
          /\ UNCHANGED allowed
     \/ \E c \in allowed :
          /\ allowed' = allowed \ {c}
          /\ meta' = [meta EXCEPT !.changed = IF meta.version = 0 THEN @ ELSE @ \cup ({c} \cap Phrases)]
          /\ UNCHANGED disk
  /\ releases' = releases + 1
  /\ UNCHANGED <<tmp, undeleted, proc, keyed, askVars, task>>

\* onModuleInit and main: without a key nothing is reconciled.  The script runs once.
Start(p) ==
  /\ proc[p] = Halted
  /\ \/ /\ p = "script" => \A c \in Clips : task[c] = "no"
        /\ proc' = [proc EXCEPT ![p].stage = "reading"]
        /\ keyed' = (p = "server" \/ keyed)
     \/ /\ p = "server" /\ keyed' = FALSE
        /\ proc' = [proc EXCEPT ![p].stage = "up"]
  /\ UNCHANGED <<meta, allowed, disk, tmp, undeleted, askVars, task, releases>>

\* The process ends, whatever it was doing; the requests of the server are lost.
Stop(p) ==
  /\ proc[p] # Halted
  /\ proc' = [proc EXCEPT ![p] = Halted]
  /\ IF p = "server"
     THEN /\ ask' = [a \in Asks |-> IF ask[a].stage = "idle" THEN ask[a] ELSE [NotAsking EXCEPT !.stage = "lost"]]
          /\ owner' = [c \in Clips |-> NoAsk] /\ free' = Slots /\ line' = <<>>
          /\ UNCHANGED task
     ELSE task' = [c \in Clips |-> "over"] /\ UNCHANGED askVars
  /\ UNCHANGED <<meta, allowed, disk, tmp, undeleted, keyed, releases>>

-----------------------------------------------------------------------------
(* reconcileCache.                                                         *)

\* MUTANT of Doomed: a text that has changed takes the language with it.
DoomedByLanguage(saved) ==
  IF saved.version = 0 \/ saved.changed # {} THEN Existing ELSE Existing \ allowed

\* planCacheInvalidation: all, what depends on a voice or a text that has changed, and
\* always what is no longer allowed.
Doomed(saved) ==
  IF \/ saved.version = 0 \/ "rate" \in saved.changed
     \/ saved.version = 2 /\ "template" \in saved.changed
     \/ saved.version = 1 /\ saved.changed \cap Voices # {}
  THEN Existing
  ELSE (Existing \ allowed)
       \cup {c \in Existing : IF saved.version = 1 THEN c \in Phrases ELSE saved.changed \cap {c, VoiceOf[c]} # {}}

Reaches(p, stage) == proc' = [proc EXCEPT ![p].stage = stage]

ReadsMeta(p) ==
  /\ proc[p].stage = "reading"
  /\ proc' = [proc EXCEPT ![p] = [stage |-> "listing", saved |-> meta, doomed |-> {}]]
  /\ UNCHANGED <<meta, allowed, disk, tmp, undeleted, keyed, askVars, task, releases>>

\* MUTANT of ListsFiles: the metadata are written before the files are deleted.
ListsAndWrites(p) ==
  /\ proc[p].stage = "listing"
  /\ proc' = [proc EXCEPT ![p].stage = "deleting", ![p].doomed = Doomed(proc[p].saved)]
  /\ meta' = Current
  /\ UNCHANGED <<allowed, disk, tmp, undeleted, keyed, askVars, task, releases>>

ListsFiles(p) ==
  /\ proc[p].stage = "listing"
  /\ proc' = [proc EXCEPT ![p].stage = "deleting", ![p].doomed = Doomed(proc[p].saved)]
  /\ UNCHANGED <<meta, allowed, disk, tmp, undeleted, keyed, askVars, task, releases>>

\* One file after the other; an unlink that fails is passed over.
DeletesFile(p, c) ==
  /\ proc[p].stage = "deleting" /\ c \in proc[p].doomed
  /\ proc' = [proc EXCEPT ![p].doomed = @ \ {c}]
  /\ \/ disk' = [disk EXCEPT ![c] = "none"] /\ undeleted' = undeleted \ {c}
     \/ disk[c] # "none" /\ undeleted' = undeleted \cup {c} /\ UNCHANGED disk
  /\ UNCHANGED <<meta, allowed, tmp, keyed, askVars, task, releases>>

\* The file is truncated before it is written.
WritesMeta(p) ==
  /\ proc[p].stage = "deleting" /\ proc[p].doomed = {}
  /\ IF proc[p].saved = Current
     THEN Reaches(p, "up") /\ UNCHANGED meta
     ELSE Reaches(p, "writing") /\ meta' = NoMeta
  /\ UNCHANGED <<allowed, disk, tmp, undeleted, keyed, askVars, task, releases>>

MetaWritten(p) ==
  /\ proc[p].stage = "writing"
  /\ Reaches(p, "up") /\ meta' = Current
  /\ UNCHANGED <<allowed, disk, tmp, undeleted, keyed, askVars, task, releases>>

-----------------------------------------------------------------------------
(* The server: a clip is asked for.                                        *)

Is(a, stage) == ask[a].stage = stage
Turns(a, stage) == ask' = [ask EXCEPT ![a].stage = stage]
keepsFiles == UNCHANGED <<meta, allowed, undeleted, proc, keyed, task, releases>>

\* A browser's request, or one of preGenerateAll for a clip it found missing.
AskClip(a, c) ==
  /\ Is(a, "idle") /\ proc["server"].stage = "up" /\ c \in allowed
  /\ ask' = [ask EXCEPT ![a].stage = "looking", ![a].clip = c]
  /\ UNCHANGED <<disk, tmp, owner, free, line>> /\ keepsFiles

\* ensureFile: a file of a sound size is enough.
LooksUp(a) ==
  /\ Is(a, "looking")
  /\ Turns(a, IF Good(ask[a].clip) THEN "found" ELSE IF keyed THEN "unlinking" ELSE "unavailable")
  /\ UNCHANGED <<disk, tmp, owner, free, line>> /\ keepsFiles

\* What is there is too small, and goes.  After that the clip is somebody's, or this
\* request makes it, as soon as it has a slot.
Unlinked(c) == disk' \in {disk, [disk EXCEPT ![c] = "none"]}
Makes(a, c) ==
  /\ owner' = [owner EXCEPT ![c] = a]
  /\ IF free > 0
     THEN free' = free - 1 /\ Turns(a, "calling") /\ UNCHANGED line
     ELSE line' = Append(line, a) /\ Turns(a, "queued") /\ UNCHANGED free

\* MUTANT of Unlinks: pendingFiles is looked at before the unlink is awaited.
UnlinksLate(a) ==
  /\ Is(a, "unlinking") /\ Unlinked(ask[a].clip) /\ Makes(a, ask[a].clip)
  /\ UNCHANGED tmp /\ keepsFiles

Unlinks(a) ==
  LET c == ask[a].clip
  IN  /\ Is(a, "unlinking") /\ Unlinked(c)
      /\ IF owner[c] # NoAsk
         THEN ask' = [ask EXCEPT ![a].stage = "waiting", ![a].on = owner[c]] /\ UNCHANGED <<owner, free, line>>
         ELSE Makes(a, c)
      /\ UNCHANGED tmp /\ keepsFiles

\* MUTANT of Released: the slot is handed on and counted.
ReleasedTwice(then) ==
  /\ line' = IF line = <<>> THEN line ELSE Tail(line)
  /\ free' = free + 1
  /\ ask' = IF line = <<>> THEN then ELSE [then EXCEPT ![Head(line)].stage = "calling"]

\* The slot of the semaphore: to the next in the queue, or back.
Released(then) ==
  IF line = <<>>
  THEN free' = free + 1 /\ ask' = then /\ UNCHANGED line
  ELSE line' = Tail(line) /\ ask' = [then EXCEPT ![Head(line)].stage = "calling"] /\ UNCHANGED free

\* MUTANT of Made: an error on the way skips the release of the slot.
MadeKeepingSlot(a, stage) ==
  /\ ask' = [b \in Asks |-> IF b = a \/ ask[b].on = a THEN [ask[b] EXCEPT !.stage = stage, !.on = NoAsk] ELSE ask[b]]
  /\ owner' = [owner EXCEPT ![ask[a].clip] = NoAsk]
  /\ UNCHANGED <<free, line>>

\* generateFile is over, for all who wait for it.
Made(a, stage) ==
  /\ Released([b \in Asks |-> IF b = a \/ ask[b].on = a THEN [ask[b] EXCEPT !.stage = stage, !.on = NoAsk] ELSE ask[b]])
  /\ owner' = [owner EXCEPT ![ask[a].clip] = NoAsk]

\* Another attempt, or the last one was made.
Retries(a) ==
  IF ask[a].tries + 1 < MaxAttempts
  THEN ask' = [ask EXCEPT ![a].stage = "calling", ![a].tries = @ + 1] /\ UNCHANGED <<owner, free, line>>
  ELSE Made(a, "failed")

\* A silent answer is not written; an error removes the .tmp file.
GoogleAnswers(a) ==
  LET c == ask[a].clip
  IN  /\ Is(a, "calling")
      /\ \/ Turns(a, "writing") /\ tmp' = [tmp EXCEPT ![c] = "partial"] /\ UNCHANGED <<owner, free, line>>
         \/ Retries(a) /\ UNCHANGED tmp
         \/ Retries(a) /\ tmp' = [tmp EXCEPT ![c] = "none"]
      /\ UNCHANGED disk /\ keepsFiles

\* MUTANT of Written: the clip itself is written, without the .tmp file.
WrittenInPlace(a) ==
  LET c == ask[a].clip
  IN  /\ Is(a, "writing")
      /\ \/ Turns(a, "renaming") /\ tmp' = [tmp EXCEPT ![c] = "whole"] /\ disk' = [disk EXCEPT ![c] = "damaged"]
            /\ UNCHANGED <<owner, free, line>>
         \/ Made(a, "found") /\ UNCHANGED <<tmp, disk>>
      /\ keepsFiles

Written(a) ==
  LET c == ask[a].clip
  IN  /\ Is(a, "writing")
      /\ \/ Turns(a, "renaming") /\ tmp' = [tmp EXCEPT ![c] = "whole"] /\ UNCHANGED <<owner, free, line>>
         \/ Retries(a) /\ tmp' = [tmp EXCEPT ![c] = "none"]
      /\ UNCHANGED disk /\ keepsFiles

\* What the .tmp file holds is the clip now.
Renamed(c) ==
  /\ disk' = [disk EXCEPT ![c] = IF tmp[c] = "whole" THEN "fresh" ELSE "damaged"]
  /\ tmp' = [tmp EXCEPT ![c] = "none"]

Renames(a) ==
  LET c == ask[a].clip
  IN  /\ Is(a, "renaming")
      /\ IF tmp[c] = "none" THEN Retries(a) /\ UNCHANGED <<disk, tmp>> ELSE Renamed(c) /\ Made(a, "found")
      /\ keepsFiles

\* prepareAudio: whatever file is there is sent.
Sends(a) ==
  /\ Is(a, "found")
  /\ Turns(a, IF Good(ask[a].clip) THEN "served" ELSE IF disk[ask[a].clip] = "damaged" THEN "broken" ELSE "failed")
  /\ UNCHANGED <<disk, tmp, owner, free, line>> /\ keepsFiles

AskSteps(a) == LooksUp(a) \/ Unlinks(a) \/ GoogleAnswers(a) \/ Written(a) \/ Renames(a) \/ Sends(a)

-----------------------------------------------------------------------------
(* The script: three clips at a time, where there is no file of any size.  *)

Works(c, stage) == task' = [task EXCEPT ![c] = stage]
keepsServer == UNCHANGED <<meta, allowed, undeleted, proc, keyed, askVars, releases>>

Takes(c) ==
  /\ proc["script"].stage = "up" /\ task[c] = "no" /\ c \in allowed
  /\ Works(c, IF disk[c] = "none" THEN "calling" ELSE "over")
  /\ UNCHANGED <<disk, tmp>> /\ keepsServer

ScriptAnswered(c) ==
  /\ task[c] = "calling"
  /\ \/ Works(c, "writing") /\ tmp' = [tmp EXCEPT ![c] = "partial"]
     \/ Works(c, "over") /\ tmp' = [tmp EXCEPT ![c] = "none"]
  /\ UNCHANGED disk /\ keepsServer

ScriptWrote(c) ==
  /\ task[c] = "writing"
  /\ Works(c, "renaming") /\ tmp' = [tmp EXCEPT ![c] = "whole"]
  /\ UNCHANGED disk /\ keepsServer

ScriptRenames(c) ==
  /\ task[c] = "renaming"
  /\ Works(c, "made")
  /\ IF tmp[c] = "none" THEN UNCHANGED <<disk, tmp>> ELSE Renamed(c)
  /\ keepsServer

-----------------------------------------------------------------------------
ReconcileNext ==
  \/ NewRelease
  \/ \E p \in Procs :
       \/ Start(p) \/ Stop(p) \/ ReadsMeta(p) \/ ListsFiles(p) \/ WritesMeta(p) \/ MetaWritten(p)
       \/ \E c \in Clips : DeletesFile(p, c)
ClipNext ==
  \/ \E a \in Asks : AskSteps(a) \/ \E c \in Clips : AskClip(a, c)
  \/ \E c \in Clips : Takes(c) \/ ScriptAnswered(c) \/ ScriptWrote(c) \/ ScriptRenames(c)

\* Files and the provider, which has ten seconds, answer.
SpeechFairness == WF_speechVars(\E a \in Asks : AskSteps(a))

-----------------------------------------------------------------------------
(* Properties.                                                             *)

SpeechTypeOK ==
  /\ meta \in [version : 0..2, changed : SUBSET Settings] /\ allowed \subseteq Clips /\ undeleted \subseteq Clips
  /\ disk \in [Clips -> {"none", "damaged", "fresh", "stale"}] /\ tmp \in [Clips -> {"none", "partial", "whole"}]
  /\ \A p \in Procs : proc[p].stage \in {"down", "reading", "listing", "deleting", "writing", "up"} /\ proc[p].doomed \subseteq Clips
  /\ free \in 0..Slots /\ owner \in [Clips -> Asks \cup {NoAsk}]

\* Nothing old is heard: once the server that has a key or the script has reconciled the
\* cache, a file made with other settings is only there if it could not be deleted,
\* wherever an earlier reconciliation was cut off.
NothingStale ==
  \A p \in Procs : proc[p].stage = "up" /\ (p = "server" => keyed) =>
    \A c \in Existing : disk[c] = "stale" \/ c \notin allowed => c \in undeleted

\* Nothing is made again for nothing: with metadata of its own format a reconciliation
\* is never about to delete a file that still is what it would be made again as, and
\* with the older ones no number unless a voice or the rate has changed.
NothingWasted ==
  \A p \in Procs : proc[p].saved = meta =>
    \A c \in proc[p].doomed \cap allowed : disk[c] = "fresh" =>
      \/ meta.version = 0
      \/ meta.version = 1 /\ (c \in Phrases \/ meta.changed \cap ({"rate"} \cup Voices) # {})

Making(c) == {a \in Asks : ask[a].clip = c /\ ask[a].stage \in {"queued", "calling", "writing", "renaming"}}

\* A clip is made by one request at a time, which pendingFiles names for as long, and
\* the slots of the semaphore are exactly what its calls leave.
OneMaker ==
  /\ \A c \in Clips : Making(c) = {owner[c]} \ {NoAsk}
  /\ free = Slots - Cardinality({a \in Asks : ask[a].stage \in {"calling", "writing", "renaming"}})
  /\ line # <<>> => free = 0

\* No browser is sent a file that is too small, unless the script wrote the same one at
\* the same time.
NothingBroken == \A a \in Asks : Is(a, "broken") => task[ask[a].clip] # "no"

SpeechSound == NothingStale /\ NothingWasted /\ OneMaker /\ NothingBroken

\* Somebody waits for a clip.
SpeechOpen == \E a \in Asks : ask[a].stage \notin {"idle", "served", "broken", "failed", "unavailable", "lost"}
=============================================================================
