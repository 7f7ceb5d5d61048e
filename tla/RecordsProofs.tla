---------------------------- MODULE RecordsProofs ---------------------------
(***************************************************************************)
(* What is spoken is neither old nor broken nor made twice, for any        *)
(* number of requests and clips, and any releases, starts and crashes of   *)
(* the server and of the script that makes clips in advance.  The captains *)
(* of a group are numbered and called as they have to start, for any       *)
(* captains and requests.  The schema of the database is what its history  *)
(* says, for any containers, releases and files.                           *)
(***************************************************************************)
EXTENDS SpeechCache, RallyMembers, Migrations, Counting

-----------------------------------------------------------------------------
(* Lists.                                                                   *)

LEMMA ListRest ==
    ASSUME NEW S, NEW list \in Seq(S), list # <<>>
    PROVE  /\ Head(list) \in S /\ Tail(list) \in Seq(S) /\ Len(Tail(list)) = Len(list) - 1
           /\ \A i \in 1..Len(Tail(list)) : Tail(list)[i] = list[i+1]
OBVIOUS

-----------------------------------------------------------------------------
(* Speech.                                                                 *)

SpeechSpec == SpeechInit /\ [][ReconcileNext \/ ClipNext]_speechVars

Metas == [version : 0..2, changed : SUBSET Settings]
Progress == [stage : {"down", "reading", "listing", "deleting", "writing", "up"}, saved : Metas, doomed : SUBSET Clips]

InSlot == {"calling", "writing", "renaming"}
MakingStages == {"queued"} \cup InSlot
Keyed == {"unlinking", "waiting"} \cup MakingStages
Active == {"looking", "found"} \cup Keyed
Answered == {"served", "broken", "failed", "unavailable"}
Reqs == [stage : {"idle", "lost"} \cup Active \cup Answered, clip : Clips \cup {NotAsking.clip}, on : Asks \cup {NoAsk}, tries : Nat]

SpeechTyped ==
  /\ meta \in Metas /\ allowed \subseteq Clips /\ undeleted \subseteq Clips
  /\ disk \in [Clips -> {"none", "damaged", "fresh", "stale"}] /\ tmp \in [Clips -> {"none", "partial", "whole"}]
  /\ proc \in [Procs -> Progress] /\ keyed \in BOOLEAN
  /\ task \in [Clips -> {"no", "over", "made"} \cup InSlot]

AsksTyped ==
  /\ ask \in [Asks -> Reqs] /\ owner \in [Clips -> Asks \cup {NoAsk}] /\ free \in Nat /\ line \in Seq(Asks)
  /\ \A a \in Asks : ask[a].stage \in Active \cup Answered => ask[a].clip \in Clips

\* Who works has its process, and a clip of this release.
Served ==
  /\ \A a \in Asks : ask[a].stage \in Active => proc["server"].stage = "up" /\ ask[a].clip \in allowed
  /\ \A a \in Asks : ask[a].stage \in Keyed => keyed
  /\ \A c \in Clips : task[c] \in InSlot => proc["script"].stage = "up" /\ c \in allowed

\* What metadata say has to go.
Covers(saved, c) ==
  \/ saved.version = 0 \/ "rate" \in saved.changed
  \/ saved.version = 2 /\ "template" \in saved.changed
  \/ saved.version = 1 /\ (saved.changed \cap Voices # {} \/ c \in Phrases)
  \/ saved.version # 1 /\ saved.changed \cap {c, VoiceOf[c]} # {}

Reconciled(p) == proc[p].stage = "up" /\ (p = "server" => keyed)

\* What should not be there and was not found undeletable.
Bad == {c \in Existing \ undeleted : disk[c] = "stale" \/ c \notin allowed}

\* Metadata, as they are or as they were read, tell what is old; from the listing on the
\* process knows it.
Revealed(saved) == \A c \in Bad \cap allowed : Covers(saved, c)
Knows(p) ==
  /\ proc[p].stage = "listing" => Revealed(proc[p].saved)
  /\ proc[p].stage = "deleting" => Bad \subseteq proc[p].doomed
  /\ proc[p].stage = "writing" \/ Reconciled(p) => Bad = {}

\* No file is newer than what the metadata say has changed.
FreshTrue == meta.version # 0 => \A c \in allowed : disk[c] = "fresh" => meta.changed \cap Needs(c) = {}

\* Whoever has reconciled, or has nothing to reconcile, leaves no other metadata.
Settled(p) ==
  \/ proc[p].stage \in {"listing", "deleting"} /\ proc[p].saved = Current
  \/ proc[p].stage = "writing" \/ Reconciled(p)
  => meta \in {Current, NoMeta}

Grounds(p) == \A c \in proc[p].doomed \cap allowed : Covers(proc[p].saved, c)

CacheInv ==
  /\ Revealed(meta) /\ FreshTrue
  /\ \A p \in Procs : Knows(p) /\ Settled(p) /\ Grounds(p)

\* The slots and the queue.
Holders == {a \in Asks : ask[a].stage \in InSlot}
Queued == {a \in Asks : ask[a].stage = "queued"}
\* Who waits for another one waits for its clip to be made.
Awaits(a) ==
  ask[a].on # NoAsk =>
    /\ ask[a].stage = "waiting" /\ ask[a].on \in Asks
    /\ ask[ask[a].on].stage \in MakingStages /\ ask[ask[a].on].clip = ask[a].clip

MakerInv ==
  /\ \A c \in Clips : Making(c) = {owner[c]} \ {NoAsk}
  /\ \A a \in Asks : Awaits(a)
  /\ free = Slots - Cardinality(Holders)
  /\ line # <<>> => free = 0
  /\ \A i \in 1..Len(line) : line[i] \in Queued
  /\ \A i, j \in 1..Len(line) : line[i] = line[j] => i = j

\* Only the script may cut a file short.
WholeOf(a) ==
  ask[a].stage \in Active \cup Answered /\ task[ask[a].clip] = "no" =>
    /\ ask[a].stage = "renaming" => tmp[ask[a].clip] = "whole"
    /\ ask[a].stage = "found" => disk[ask[a].clip] # "damaged"
    /\ ask[a].stage # "broken"
TmpInv == \A a \in Asks : WholeOf(a)

SpeechInv == SpeechTyped /\ AsksTyped /\ Served /\ CacheInv /\ MakerInv /\ TmpInv

-----------------------------------------------------------------------------
(* Metadata and files.                                                     *)

LEMMA DoomedIs ==
  ASSUME SpeechTyped, NEW saved \in Metas, NEW c \in Clips
  PROVE  c \in Doomed(saved) <=> c \in Existing /\ (c \notin allowed \/ Covers(saved, c))
<1>1. CASE \/ saved.version = 0 \/ "rate" \in saved.changed
           \/ saved.version = 2 /\ "template" \in saved.changed
           \/ saved.version = 1 /\ saved.changed \cap Voices # {}
  BY <1>1 DEF Doomed, Covers
<1>2. CASE ~ \/ saved.version = 0 \/ "rate" \in saved.changed
             \/ saved.version = 2 /\ "template" \in saved.changed
             \/ saved.version = 1 /\ saved.changed \cap Voices # {}
  <2>1. Doomed(saved) = (Existing \ allowed)
          \cup {x \in Existing : IF saved.version = 1 THEN x \in Phrases ELSE saved.changed \cap {x, VoiceOf[x]} # {}}
    BY <1>2 DEF Doomed
  <2>2. Covers(saved, c) <=> IF saved.version = 1 THEN c \in Phrases ELSE saved.changed \cap {c, VoiceOf[c]} # {}
    BY <1>2 DEF Covers
  <2> QED BY <2>1, <2>2 DEF Existing
<1> QED BY <1>1, <1>2

\* Files that are deleted, and those that a reconciled process makes, harm nothing.
LEMMA FilesKeepCache ==
  ASSUME SpeechTyped, CacheInv, UNCHANGED <<meta, allowed, undeleted, proc, keyed>>,
         \A c \in Clips : \/ disk'[c] = disk[c] \/ disk'[c] = "none"
                          \/ disk'[c] \in {"fresh", "damaged"} /\ c \in allowed /\ \E p \in Procs : Reconciled(p)
  PROVE  CacheInv'
<1>1. Bad' \subseteq Bad
  BY DEF Bad, Existing
<1>2. Revealed(meta)'
  BY <1>1 DEF CacheInv, Revealed, Covers
<1>3. FreshTrue'
  <2> SUFFICES ASSUME meta.version # 0, NEW c \in allowed, disk'[c] = "fresh" PROVE meta.changed \cap Needs(c) = {}
    BY DEF FreshTrue, Needs
  <2>1. c \in Clips
    BY DEF SpeechTyped
  <2>2. CASE disk[c] = "fresh"
    BY <2>2 DEF CacheInv, FreshTrue
  <2>3. CASE disk[c] # "fresh"
    <3>1. PICK p \in Procs : Reconciled(p)
      BY <2>1, <2>3
    <3>2. meta = Current \/ meta = NoMeta
      BY <3>1 DEF CacheInv, Settled
    <3> QED BY <3>2 DEF Current, NoMeta
  <2> QED BY <2>2, <2>3
<1>4. \A p \in Procs : Knows(p)' /\ Settled(p)' /\ Grounds(p)'
  <2> SUFFICES ASSUME NEW p \in Procs PROVE Knows(p)' /\ Settled(p)' /\ Grounds(p)'
    OBVIOUS
  <2>1. Knows(p) /\ Settled(p) /\ Grounds(p)
    BY DEF CacheInv
  <2>2. Knows(p)'
    BY <1>1, <2>1 DEF Knows, Revealed, Covers, Reconciled
  <2>3. Settled(p)' /\ Grounds(p)'
    BY <2>1 DEF Settled, Grounds, Covers, Reconciled, Current, NoMeta
  <2> QED BY <2>2, <2>3
<1> QED BY <1>2, <1>3, <1>4 DEF CacheInv

\* A step of one process, after which there is not more to delete.
LEMMA ProcKeepsCache ==
  ASSUME SpeechTyped, CacheInv, NEW p \in Procs, NEW x \in Progress, proc' = [proc EXCEPT ![p] = x],
         UNCHANGED allowed, Bad' \subseteq Bad,
         \A c \in Clips : disk'[c] = disk[c] \/ disk'[c] = "none",
         keyed' \in BOOLEAN, keyed' = keyed \/ p = "server",
         meta' = meta \/ meta' = NoMeta \/ (meta' = Current /\ Bad = {}),
         Knows(p)', Settled(p)', Grounds(p)'
  PROVE  CacheInv'
<1>1. proc'[p] = x /\ \A q \in Procs : q # p => proc'[q] = proc[q]
  BY DEF SpeechTyped
<1>2. Revealed(meta)'
  <2>1. CASE meta' = meta
    BY <2>1 DEF CacheInv, Revealed, Covers
  <2>2. CASE meta' = NoMeta
    BY <2>2 DEF Revealed, Covers, NoMeta
  <2>3. CASE Bad = {}
    BY <2>3 DEF Revealed
  <2> QED BY <2>1, <2>2, <2>3
<1>3. FreshTrue'
  <2>1. CASE meta' = meta
    <3>1. \A c \in allowed : disk'[c] = "fresh" => disk[c] = "fresh"
      BY DEF SpeechTyped
    <3> QED BY <2>1, <3>1 DEF CacheInv, FreshTrue, Needs
  <2>2. CASE meta' # meta
    <3>1. meta'.version = 0 \/ meta'.changed = {}
      BY <2>2 DEF NoMeta, Current
    <3> QED BY <3>1 DEF FreshTrue
  <2> QED BY <2>1, <2>2
<1>4. ASSUME NEW q \in Procs PROVE Knows(q)' /\ Settled(q)' /\ Grounds(q)'
  <2>1. CASE q = p
    BY <2>1
  <2>2. CASE q # p
    <3>1. proc'[q] = proc[q] /\ Knows(q) /\ Settled(q) /\ Grounds(q)
      BY <1>1, <2>2 DEF CacheInv
    <3>2. Reconciled(q)' => Reconciled(q)
      BY <2>2, <3>1 DEF Reconciled
    <3>3. Knows(q)'
      BY <3>1, <3>2 DEF Knows, Revealed, Covers
    <3>4. Settled(q)'
      BY <3>1, <3>2 DEF Settled, Current, NoMeta
    <3>5. Grounds(q)'
      BY <3>1 DEF Grounds, Covers
    <3> QED BY <3>3, <3>4, <3>5
  <2> QED BY <2>1, <2>2
<1> QED BY <1>2, <1>3, <1>4 DEF CacheInv

LEMMA MetasTyped == NoMeta \in Metas /\ Current \in Metas /\ Halted \in Progress
  BY DEF NoMeta, Current, Metas, Halted, Progress

\* Bad does not change.
LEMMA SameBad ==
  ASSUME UNCHANGED <<disk, allowed, undeleted>>
  PROVE  Bad' = Bad /\ Existing' = Existing
  BY DEF Bad, Existing

LEMMA StartsKeep ==
  ASSUME SpeechTyped, CacheInv, NEW p \in Procs, Start(p) \/ Stop(p)
  PROVE  CacheInv' /\ proc' \in [Procs -> Progress] /\ keyed' \in BOOLEAN
<1>1. PICK st \in {"reading", "up", "down"} :
        /\ proc' = [proc EXCEPT ![p] = [stage |-> st, saved |-> NoMeta, doomed |-> {}]]
        /\ keyed' \in BOOLEAN /\ (keyed' = keyed \/ p = "server") /\ (st = "up" => p = "server" /\ ~keyed')
  <2>1. ASSUME Stop(p) PROVE proc' = [proc EXCEPT ![p] = [stage |-> "down", saved |-> NoMeta, doomed |-> {}]] /\ keyed' = keyed
    BY <2>1 DEF Stop, Halted
  <2>2. ASSUME Start(p)
        PROVE  \/ proc' = [proc EXCEPT ![p] = [stage |-> "reading", saved |-> NoMeta, doomed |-> {}]] /\ keyed' = (p = "server" \/ keyed)
               \/ proc' = [proc EXCEPT ![p] = [stage |-> "up", saved |-> NoMeta, doomed |-> {}]] /\ p = "server" /\ keyed' = FALSE
    <3>1. proc[p] = Halted /\ proc \in [Procs -> Progress]
      BY <2>2 DEF Start, SpeechTyped
    <3>2. \A st \in {"reading", "up"} : [proc EXCEPT ![p].stage = st] = [proc EXCEPT ![p] = [stage |-> st, saved |-> NoMeta, doomed |-> {}]]
      <4>1. ASSUME NEW st \in {"reading", "up"}
            PROVE  [proc EXCEPT ![p].stage = st] = [proc EXCEPT ![p] = [stage |-> st, saved |-> NoMeta, doomed |-> {}]]
        <5>1. PICK h : h = [Halted EXCEPT !.stage = st]
          OBVIOUS
        <5>2. h = [stage |-> st, saved |-> NoMeta, doomed |-> {}]
          BY <5>1 DEF Halted
        <5>3. [proc EXCEPT ![p].stage = st] = [proc EXCEPT ![p] = h]
          BY <3>1, <5>1 DEF Progress
        <5> QED BY <5>2, <5>3
      <4> QED BY <4>1
    <3> QED BY <2>2, <3>2 DEF Start
  <2>3. keyed \in BOOLEAN
    BY DEF SpeechTyped
  <2>4. CASE p = "server"
    BY <2>1, <2>2, <2>3, <2>4
  <2>5. CASE p # "server"
    BY <2>1, <2>2, <2>3, <2>5
  <2> QED BY <2>4, <2>5
<1>2. PICK x : x = [stage |-> st, saved |-> NoMeta, doomed |-> {}]
  OBVIOUS
<1>3. x \in Progress /\ x.stage = st /\ x.doomed = {}
  BY <1>2, MetasTyped DEF Progress
<1>4. proc' = [proc EXCEPT ![p] = x] /\ proc'[p] = x /\ proc' \in [Procs -> Progress]
  BY <1>1, <1>2, <1>3 DEF SpeechTyped
<1>5. UNCHANGED <<meta, allowed, disk, undeleted>>
  BY DEF Start, Stop
<1>6. Knows(p)' /\ Settled(p)' /\ Grounds(p)'
  BY <1>1, <1>3, <1>4 DEF Knows, Settled, Grounds, Reconciled
<1>7. CacheInv'
  BY <1>1, <1>3, <1>4, <1>5, <1>6, SameBad, ProcKeepsCache
<1> QED BY <1>1, <1>4, <1>7

LEMMA ReadsMetaKeeps ==
  ASSUME SpeechTyped, CacheInv, NEW p \in Procs, ReadsMeta(p)
  PROVE  CacheInv' /\ proc' \in [Procs -> Progress]
<1>1. PICK m : m = meta
  OBVIOUS
<1>2. PICK x : x = [stage |-> "listing", saved |-> m, doomed |-> {}]
  OBVIOUS
<1>3. x \in Progress /\ x.stage = "listing" /\ x.saved = m /\ x.doomed = {}
  BY <1>1, <1>2 DEF Progress, SpeechTyped
<1>4. proc' = [proc EXCEPT ![p] = x] /\ proc'[p] = x /\ proc' \in [Procs -> Progress]
  BY <1>1, <1>2, <1>3 DEF SpeechTyped, ReadsMeta
<1>5. UNCHANGED <<meta, allowed, disk, undeleted, keyed>> /\ keyed \in BOOLEAN
  BY DEF ReadsMeta, SpeechTyped
<1>6. Knows(p)' /\ Settled(p)' /\ Grounds(p)'
  BY <1>1, <1>3, <1>4, <1>5, SameBad DEF CacheInv, Knows, Settled, Grounds, Reconciled, Revealed, Covers, Current, NoMeta
<1>7. CacheInv'
  BY <1>3, <1>4, <1>5, <1>6, SameBad, ProcKeepsCache
<1> QED BY <1>4, <1>7

LEMMA ListsFilesKeeps ==
  ASSUME SpeechTyped, CacheInv, NEW p \in Procs, ListsFiles(p)
  PROVE  CacheInv' /\ proc' \in [Procs -> Progress]
<1>1. PICK m \in Metas : m = proc[p].saved
  BY DEF SpeechTyped, Progress
<1>2. PICK d \in SUBSET Clips : d = Doomed(m)
  <2>1. Doomed(m) \in SUBSET Clips
    BY DEF Doomed, Existing
  <2> QED BY <2>1
<1>3. PICK x : x = [proc[p] EXCEPT !.stage = "deleting", !.doomed = d]
  OBVIOUS
<1>4. x \in Progress /\ x.stage = "deleting" /\ x.saved = m /\ x.doomed = d
  BY <1>1, <1>3 DEF Progress, SpeechTyped
<1>5. proc' = [proc EXCEPT ![p] = x] /\ proc'[p] = x /\ proc' \in [Procs -> Progress]
  <2>1. proc \in [Procs -> Progress] /\ proc[p].stage = "listing"
        /\ proc' = [proc EXCEPT ![p].stage = "deleting", ![p].doomed = d]
    BY <1>1, <1>2 DEF SpeechTyped, ListsFiles, Doomed
  <2>2. [proc EXCEPT ![p].stage = "deleting", ![p].doomed = d] = [proc EXCEPT ![p] = x]
    BY <1>3, <2>1 DEF Progress
  <2> QED BY <1>4, <2>1, <2>2
<1>6. UNCHANGED <<meta, allowed, disk, undeleted, keyed>> /\ keyed \in BOOLEAN /\ proc[p].stage = "listing"
  BY DEF ListsFiles, SpeechTyped
<1>7. \A c \in Clips : c \in d <=> c \in Existing /\ (c \notin allowed \/ Covers(m, c))
  BY <1>2, DoomedIs
<1>8. Knows(p)'
  <2>1. Revealed(m)
    BY <1>1, <1>6 DEF CacheInv, Knows
  <2>2. Bad \subseteq d
    BY <1>7, <2>1 DEF Bad, Revealed, Existing
  <2> QED BY <1>4, <1>5, <1>6, <2>2, SameBad DEF Knows, Reconciled
<1>9. Settled(p)'
  BY <1>1, <1>4, <1>5, <1>6 DEF CacheInv, Settled, Reconciled, Current, NoMeta
<1>10. Grounds(p)'
  BY <1>4, <1>5, <1>6, <1>7 DEF Grounds, Covers
<1>11. CacheInv'
  BY <1>4, <1>5, <1>6, <1>8, <1>9, <1>10, SameBad, ProcKeepsCache
<1> QED BY <1>5, <1>11

LEMMA DeletesFileKeeps ==
  ASSUME SpeechTyped, CacheInv, NEW p \in Procs, NEW c \in Clips, DeletesFile(p, c)
  PROVE  CacheInv' /\ proc' \in [Procs -> Progress] /\ disk' \in [Clips -> {"none", "damaged", "fresh", "stale"}]
         /\ undeleted' \subseteq Clips /\ (\A k \in Clips : disk'[k] \in {disk[k], "none"})
<1>1. PICK m \in Metas, d \in SUBSET Clips : m = proc[p].saved /\ d = proc[p].doomed
  BY DEF SpeechTyped, Progress
<1>2. PICK x : x = [proc[p] EXCEPT !.doomed = @ \ {c}]
  OBVIOUS
<1>3. x \in Progress /\ x.stage = "deleting" /\ x.saved = m /\ x.doomed = d \ {c}
  BY <1>1, <1>2 DEF Progress, SpeechTyped, DeletesFile
<1>4. proc[p].stage = "deleting" /\ UNCHANGED <<meta, allowed, keyed>> /\ keyed \in BOOLEAN
  BY DEF DeletesFile, SpeechTyped
<1>5. proc' = [proc EXCEPT ![p] = x] /\ proc'[p] = x /\ proc' \in [Procs -> Progress]
  <2>1. proc \in [Procs -> Progress] /\ proc' = [proc EXCEPT ![p].doomed = @ \ {c}]
    BY DEF SpeechTyped, DeletesFile
  <2>2. [proc EXCEPT ![p].doomed = @ \ {c}] = [proc EXCEPT ![p] = x]
    BY <1>2, <2>1 DEF Progress
  <2> QED BY <1>3, <2>1, <2>2
<1>6. \/ disk' = [disk EXCEPT ![c] = "none"] /\ undeleted' = undeleted \ {c}
      \/ undeleted' = undeleted \cup {c} /\ disk' = disk
  BY DEF DeletesFile
<1>7. disk' \in [Clips -> {"none", "damaged", "fresh", "stale"}] /\ undeleted' \subseteq Clips /\ \A k \in Clips : disk'[k] \in {disk[k], "none"}
  BY <1>6 DEF SpeechTyped
<1>8. Bad' \subseteq Bad \ {c}
  BY <1>4, <1>6 DEF Bad, Existing, SpeechTyped
<1>9. Knows(p)'
  <2>1. Bad \subseteq d
    BY <1>1, <1>4 DEF CacheInv, Knows
  <2> QED BY <1>3, <1>5, <1>8, <2>1 DEF Knows, Reconciled
<1>10. Settled(p)'
  BY <1>1, <1>3, <1>4, <1>5 DEF CacheInv, Settled, Reconciled, Current, NoMeta
<1>11. Grounds(p)'
  BY <1>1, <1>3, <1>4, <1>5 DEF CacheInv, Grounds, Covers
<1>12. CacheInv'
  BY <1>3, <1>4, <1>5, <1>7, <1>8, <1>9, <1>10, <1>11, ProcKeepsCache
<1> QED BY <1>5, <1>7, <1>12

LEMMA WritesKeep ==
  ASSUME SpeechTyped, CacheInv, NEW p \in Procs, WritesMeta(p) \/ MetaWritten(p)
  PROVE  CacheInv' /\ proc' \in [Procs -> Progress] /\ meta' \in Metas
<1>1. PICK m \in Metas, d \in SUBSET Clips : m = proc[p].saved /\ d = proc[p].doomed
  BY DEF SpeechTyped, Progress
<1>2. PICK st \in {"up", "writing"} :
        /\ proc' = [proc EXCEPT ![p].stage = st]
        /\ \/ proc[p].stage = "deleting" /\ d = {} /\ st = "up" /\ m = Current /\ meta' = meta
           \/ proc[p].stage = "deleting" /\ d = {} /\ st = "writing" /\ meta' = NoMeta
           \/ proc[p].stage = "writing" /\ st = "up" /\ meta' = Current
  BY <1>1 DEF WritesMeta, MetaWritten, Reaches
<1>3. PICK x : x = [proc[p] EXCEPT !.stage = st]
  OBVIOUS
<1>4. x \in Progress /\ x.stage = st /\ x.saved = m /\ x.doomed = d
  BY <1>1, <1>3 DEF Progress, SpeechTyped
<1>5. proc' = [proc EXCEPT ![p] = x] /\ proc'[p] = x /\ proc' \in [Procs -> Progress]
  <2>1. proc \in [Procs -> Progress]
    BY DEF SpeechTyped
  <2>2. [proc EXCEPT ![p].stage = st] = [proc EXCEPT ![p] = x]
    BY <1>3, <2>1 DEF Progress
  <2> QED BY <1>2, <1>4, <2>1, <2>2
<1>6. UNCHANGED <<allowed, disk, undeleted, keyed>> /\ keyed \in BOOLEAN
  BY DEF WritesMeta, MetaWritten, SpeechTyped
<1>7. Bad = {}
  BY <1>1, <1>2 DEF CacheInv, Knows
<1>8. Knows(p)'
  BY <1>2, <1>4, <1>5, <1>6, <1>7, SameBad DEF Knows
<1>9. Settled(p)'
  <2>1. CASE meta' = meta
    <3>1. (proc[p].stage = "deleting" /\ proc[p].saved = Current) \/ meta' = Current \/ meta' = NoMeta
      BY <1>1, <1>2
    <3>2. meta \in {Current, NoMeta}
      BY <2>1, <3>1 DEF CacheInv, Settled
    <3> QED BY <2>1, <3>2 DEF Settled, Current, NoMeta
  <2>2. CASE meta' # meta
    BY <1>2, <2>2 DEF Settled, Current, NoMeta
  <2> QED BY <2>1, <2>2
<1>10. Grounds(p)'
  BY <1>1, <1>4, <1>5, <1>6 DEF CacheInv, Grounds, Covers
<1>11. CacheInv'
  <2>1. meta' = meta \/ meta' = NoMeta \/ (meta' = Current /\ Bad = {})
    BY <1>2, <1>7
  <2> QED BY <1>4, <1>5, <1>6, <1>8, <1>9, <1>10, <2>1, SameBad, ProcKeepsCache
<1>12. meta' \in Metas
  BY <1>2, MetasTyped DEF SpeechTyped
<1> QED BY <1>5, <1>11, <1>12

\* A release is recorded, or there are no metadata to record it in.
LEMMA NewReleaseKeeps ==
  ASSUME SpeechTyped, CacheInv, NewRelease
  PROVE  /\ CacheInv' /\ meta' \in Metas /\ allowed' \subseteq allowed
         /\ disk' \in [Clips -> {"none", "damaged", "fresh", "stale"}]
<1>1. /\ meta \in Metas /\ allowed \subseteq Clips /\ disk \in [Clips -> {"none", "damaged", "fresh", "stale"}]
      /\ VoiceOf \in [Clips -> Voices]
  BY SpeechAssumption DEF SpeechTyped
<1>2. \A p \in Procs : proc[p] = Halted /\ proc'[p] = Halted
  BY DEF NewRelease
<1>3. UNCHANGED <<undeleted, proc, keyed>>
  BY DEF NewRelease
<1>4. \A p \in Procs : Knows(p)' /\ Settled(p)' /\ Grounds(p)'
  BY <1>2 DEF Knows, Settled, Grounds, Reconciled, Halted
<1>5. PICK v, ch : v = meta.version /\ ch = meta.changed
  OBVIOUS
<1>6. v \in 0..2 /\ ch \in SUBSET Settings /\ meta = [version |-> v, changed |-> ch]
  BY <1>1, <1>5 DEF Metas
<1>7. PICK more \in SUBSET Settings :
        /\ meta' = [meta EXCEPT !.changed = more] /\ ch \subseteq more /\ allowed' \subseteq allowed
        /\ \A c \in Clips : disk[c] # "fresh" => disk'[c] = disk[c]
        /\ \A c \in Clips : disk[c] = "fresh" =>
             \/ disk'[c] = "fresh" /\ (v # 0 => more \cap Needs(c) = ch \cap Needs(c))
             \/ disk'[c] = "fresh" /\ c \notin allowed'
             \/ disk'[c] = "stale" /\ (v # 0 => \E i \in more : i \in Needs(c) /\ (v = 1 => i # "template"))
        /\ disk' \in [Clips -> {"none", "damaged", "fresh", "stale"}]
  <2>1. ASSUME NEW i \in Settings, i = "template" => meta.version # 1,
               meta' = [meta EXCEPT !.changed = IF meta.version = 0 THEN @ ELSE @ \cup {i}],
               disk' = [c \in Clips |-> IF disk[c] = "fresh" /\ i \in Needs(c) THEN "stale" ELSE disk[c]],
               UNCHANGED allowed
        PROVE  \E more \in SUBSET Settings :
                 /\ meta' = [meta EXCEPT !.changed = more] /\ ch \subseteq more /\ allowed' \subseteq allowed
                 /\ \A c \in Clips : disk[c] # "fresh" => disk'[c] = disk[c]
                 /\ \A c \in Clips : disk[c] = "fresh" =>
                      \/ disk'[c] = "fresh" /\ (v # 0 => more \cap Needs(c) = ch \cap Needs(c))
                      \/ disk'[c] = "fresh" /\ c \notin allowed'
                      \/ disk'[c] = "stale" /\ (v # 0 => \E k \in more : k \in Needs(c) /\ (v = 1 => k # "template"))
                 /\ disk' \in [Clips -> {"none", "damaged", "fresh", "stale"}]
    <3>1. PICK more : more = IF v = 0 THEN ch ELSE ch \cup {i}
      OBVIOUS
    <3>2. more \in SUBSET Settings /\ ch \subseteq more /\ meta' = [meta EXCEPT !.changed = more]
      BY <1>5, <1>6, <2>1, <3>1
    <3>3. \A c \in Clips : disk'[c] = IF disk[c] = "fresh" /\ i \in Needs(c) THEN "stale" ELSE disk[c]
      BY <2>1
    <3>4. disk' \in [Clips -> {"none", "damaged", "fresh", "stale"}]
      BY <1>1, <2>1
    <3>5. v = 1 => i # "template"
      BY <1>5, <2>1
    <3>6. v # 0 => i \in more /\ \A c \in Clips : i \notin Needs(c) => more \cap Needs(c) = ch \cap Needs(c)
      BY <3>1
    <3>7. ASSUME NEW c \in Clips, disk[c] = "fresh"
          PROVE  \/ disk'[c] = "fresh" /\ (v # 0 => more \cap Needs(c) = ch \cap Needs(c))
                 \/ disk'[c] = "stale" /\ (v # 0 => \E k \in more : k \in Needs(c) /\ (v = 1 => k # "template"))
      <4>1. CASE i \in Needs(c)
        BY <3>3, <3>5, <3>6, <3>7, <4>1
      <4>2. CASE i \notin Needs(c)
        BY <3>3, <3>6, <3>7, <4>2
      <4> QED BY <4>1, <4>2
    <3> QED BY <2>1, <3>2, <3>3, <3>4, <3>7
  <2>2. ASSUME NEW x \in allowed, allowed' = allowed \ {x},
               meta' = [meta EXCEPT !.changed = IF meta.version = 0 THEN @ ELSE @ \cup ({x} \cap Phrases)],
               UNCHANGED disk
        PROVE  \E more \in SUBSET Settings :
                 /\ meta' = [meta EXCEPT !.changed = more] /\ ch \subseteq more /\ allowed' \subseteq allowed
                 /\ \A c \in Clips : disk[c] # "fresh" => disk'[c] = disk[c]
                 /\ \A c \in Clips : disk[c] = "fresh" =>
                      \/ disk'[c] = "fresh" /\ (v # 0 => more \cap Needs(c) = ch \cap Needs(c))
                      \/ disk'[c] = "fresh" /\ c \notin allowed'
                      \/ disk'[c] = "stale" /\ (v # 0 => \E k \in more : k \in Needs(c) /\ (v = 1 => k # "template"))
                 /\ disk' \in [Clips -> {"none", "damaged", "fresh", "stale"}]
    <3>1. PICK more : more = IF v = 0 THEN ch ELSE ch \cup ({x} \cap Phrases)
      OBVIOUS
    <3>2. more \in SUBSET Settings /\ ch \subseteq more /\ meta' = [meta EXCEPT !.changed = more]
      BY <1>5, <1>6, <2>2, <3>1 DEF Settings
    <3>3. \A c \in Clips \ {x} : x \notin Needs(c)
      BY <1>1, <2>2, SpeechAssumption DEF Needs
    <3>4. \A c \in Clips \ {x} : more \cap Needs(c) = ch \cap Needs(c)
      BY <3>1, <3>3
    <3> QED BY <1>1, <2>2, <3>2, <3>4
  <2> QED BY <2>1, <2>2 DEF NewRelease
<1>8. meta' \in Metas /\ meta'.version = v /\ meta'.changed = more
  BY <1>6, <1>7 DEF Metas
<1>9. FreshTrue'
  <2> SUFFICES ASSUME v # 0, NEW c \in allowed', disk'[c] = "fresh" PROVE more \cap Needs(c) = {}
    BY <1>8 DEF FreshTrue, Needs
  <2>1. c \in Clips /\ c \in allowed
    BY <1>1, <1>7
  <2>2. disk[c] = "fresh"
    BY <1>7, <2>1
  <2>3. more \cap Needs(c) = ch \cap Needs(c)
    BY <1>7, <2>1, <2>2
  <2> QED BY <1>5, <2>1, <2>2, <2>3 DEF CacheInv, FreshTrue
<1>10. Revealed(meta)'
  <2> SUFFICES ASSUME NEW c \in Bad', c \in allowed' PROVE Covers(meta, c)'
    BY DEF Revealed
  <2>1. c \in Clips /\ c \in allowed /\ disk'[c] = "stale" /\ c \notin undeleted
    BY <1>1, <1>3, <1>7 DEF Bad, Existing
  <2>2. CASE v = 0
    BY <1>8, <2>2 DEF Covers
  <2>3. CASE v # 0 /\ disk[c] = "stale"
    <3>1. Covers(meta, c)
      BY <2>1, <2>3 DEF CacheInv, Revealed, Bad, Existing
    <3> QED BY <1>5, <1>7, <1>8, <3>1 DEF Covers
  <2>4. CASE v # 0 /\ disk[c] # "stale"
    <3>1. disk[c] = "fresh"
      BY <1>7, <2>1, <2>4
    <3>2. PICK i \in more : i \in Needs(c) /\ (v = 1 => i # "template")
      BY <1>7, <2>1, <2>4, <3>1
    <3>3. VoiceOf[c] \in Voices
      BY <1>1, <2>1
    <3> QED BY <1>6, <1>8, <2>4, <3>2, <3>3 DEF Covers, Needs
  <2> QED BY <2>2, <2>3, <2>4
<1> QED BY <1>4, <1>7, <1>8, <1>9, <1>10 DEF CacheInv

\* What the invariant says: nothing old is heard, and nothing is made again for nothing.
LEMMA CacheTells == SpeechTyped /\ CacheInv => NothingStale /\ NothingWasted
<1> SUFFICES ASSUME SpeechTyped, CacheInv PROVE NothingStale /\ NothingWasted
  OBVIOUS
<1>1. NothingStale
  BY DEF CacheInv, Knows, Reconciled, Bad, NothingStale, Existing
<1>2. ASSUME NEW p \in Procs, proc[p].saved = meta, NEW c \in proc[p].doomed \cap allowed, disk[c] = "fresh"
      PROVE  \/ meta.version = 0
             \/ meta.version = 1 /\ (c \in Phrases \/ meta.changed \cap ({"rate"} \cup Voices) # {})
  <2>1. Covers(meta, c) /\ meta \in Metas /\ c \in Clips
    BY <1>2 DEF CacheInv, Grounds, SpeechTyped
  <2>2. meta.version # 0 => meta.changed \cap Needs(c) = {}
    BY <1>2 DEF CacheInv, FreshTrue
  <2>3. CASE meta.version = 1
    BY <2>1, <2>3 DEF Covers
  <2>4. CASE meta.version = 2
    <3>1. "rate" \notin meta.changed /\ "template" \notin meta.changed /\ VoiceOf[c] \notin meta.changed
      BY <2>2, <2>4 DEF Needs
    <3>2. c \notin meta.changed
      <4>1. CASE c \in Phrases
        BY <2>2, <2>4, <4>1 DEF Needs
      <4>2. CASE c \notin Phrases
        BY <2>1, <4>2, SpeechAssumption DEF Metas, Settings
      <4> QED BY <4>1, <4>2
    <3> QED BY <2>1, <2>4, <3>1, <3>2 DEF Covers
  <2> QED BY <2>1, <2>3, <2>4 DEF Metas
<1> QED BY <1>1, <1>2 DEF NothingWasted

-----------------------------------------------------------------------------
(* The requests, the slots and the queue.                                  *)

AskStages == {"idle", "lost"} \cup Active \cup Answered

LEMMA NotAskingTyped ==
  /\ NotAsking \in Reqs /\ [NotAsking EXCEPT !.stage = "lost"] \in Reqs
  /\ NotAsking.on = NoAsk /\ NotAsking.stage = "idle"
  /\ [NotAsking EXCEPT !.stage = "lost"].on = NoAsk /\ [NotAsking EXCEPT !.stage = "lost"].stage = "lost"
  BY DEF NotAsking, Reqs

\* One request goes on.
LEMMA Turning ==
  ASSUME AsksTyped, NEW a \in Asks, NEW stage \in AskStages, Turns(a, stage)
  PROVE  \E n \in Reqs : /\ ask' = [ask EXCEPT ![a] = n]
                         /\ n.stage = stage /\ n.clip = ask[a].clip /\ n.on = ask[a].on /\ n.tries = ask[a].tries
<1>1. ask \in [Asks -> Reqs] /\ ask[a] \in Reqs
  BY DEF AsksTyped
<1>2. PICK n : n = [ask[a] EXCEPT !.stage = stage]
  OBVIOUS
<1>3. n \in Reqs /\ n.stage = stage /\ n.clip = ask[a].clip /\ n.on = ask[a].on /\ n.tries = ask[a].tries
  BY <1>1, <1>2 DEF Reqs, AskStages
<1>4. ask' = [ask EXCEPT ![a] = n]
  BY <1>1, <1>2 DEF Turns, Reqs
<1> QED BY <1>3, <1>4

LEMMA HoldersFinite == IsFiniteSet(Holders) /\ Cardinality(Holders) \in Nat
<1>1. Holders \in SUBSET Asks
  BY DEF Holders
<1> QED BY <1>1, FS_Subset, FS_CardinalityType, SpeechAssumption

\* A request that neither makes nor waits, before and after, or one that goes on making.
LEMMA QuietKeeps ==
  ASSUME AsksTyped, MakerInv, NEW a \in Asks, NEW n \in Reqs, ask' = [ask EXCEPT ![a] = n],
         UNCHANGED <<owner, free, line>>,
         n.stage \in Active \cup Answered => n.clip \in Clips,
         \/ ask[a].stage \notin MakingStages \cup {"waiting"} /\ n.stage \notin MakingStages \cup {"waiting"} /\ n.on = NoAsk
         \/ ask[a].stage \in InSlot /\ n.stage \in InSlot /\ n.clip = ask[a].clip /\ n.on = ask[a].on
  PROVE  AsksTyped' /\ MakerInv'
<1>1. ask' \in [Asks -> Reqs] /\ \A b \in Asks : ask'[b] = IF b = a THEN n ELSE ask[b]
  BY DEF AsksTyped
<1>2. AsksTyped'
  BY <1>1 DEF AsksTyped
<1>3. \A c \in Clips : Making(c)' = Making(c)
  BY <1>1 DEF Making, MakingStages, InSlot
<1>4. Holders' = Holders /\ Queued' = Queued
  BY <1>1 DEF Holders, Queued, MakingStages, InSlot
<1>5. ASSUME NEW b \in Asks PROVE Awaits(b)'
  <2> SUFFICES ASSUME ask'[b].on # NoAsk
               PROVE  /\ ask'[b].stage = "waiting" /\ ask'[b].on \in Asks
                      /\ ask'[ask'[b].on].stage \in MakingStages /\ ask'[ask'[b].on].clip = ask'[b].clip
    BY DEF Awaits
  <2>1. Awaits(b) /\ Awaits(a)
    BY DEF MakerInv
  <2>2. b # a
    BY <1>1, <2>1 DEF Awaits, InSlot
  <2>3. ask'[b] = ask[b]
    BY <1>1, <2>2
  <2>4. PICK o \in Asks : o = ask[b].on
    BY <2>1, <2>3 DEF Awaits
  <2>5. ask[o].stage \in MakingStages /\ ask[o].clip = ask[b].clip /\ ask[b].stage = "waiting"
    BY <2>1, <2>3, <2>4 DEF Awaits
  <2>6. ask'[o].stage \in MakingStages /\ ask'[o].clip = ask[o].clip
    BY <1>1, <2>5 DEF MakingStages, InSlot
  <2> QED BY <2>3, <2>4, <2>5, <2>6
<1>6. MakerInv'
  BY <1>3, <1>4, <1>5 DEF MakerInv
<1> QED BY <1>2, <1>6

\* A request becomes the maker of its clip: in a slot, or at the end of the queue.
LEMMA MakesKeeps ==
  ASSUME AsksTyped, MakerInv, NEW a \in Asks, NEW c \in Clips, ask[a].stage = "unlinking", ask[a].clip = c,
         owner[c] = NoAsk, Makes(a, c)
  PROVE  /\ AsksTyped' /\ MakerInv' /\ ask'[a].stage \in {"queued", "calling"} /\ ask'[a].clip = c
         /\ \A b \in Asks : b # a => ask'[b] = ask[b]
<1>1. PICK st \in {"queued", "calling"} :
        /\ Turns(a, st)
        /\ st = "calling" => free > 0 /\ free' = free - 1 /\ line' = line
        /\ st = "queued" => ~(free > 0) /\ free' = free /\ line' = Append(line, a)
  BY DEF Makes
<1>2. PICK n \in Reqs : /\ ask' = [ask EXCEPT ![a] = n]
                        /\ n.stage = st /\ n.clip = ask[a].clip /\ n.on = ask[a].on /\ n.tries = ask[a].tries
  BY <1>1, Turning DEF AskStages, Active, Keyed, MakingStages, InSlot
<1>3. ask' \in [Asks -> Reqs] /\ \A b \in Asks : ask'[b] = IF b = a THEN n ELSE ask[b]
  BY <1>2 DEF AsksTyped
<1>4. owner' = [owner EXCEPT ![c] = a] /\ owner \in [Clips -> Asks \cup {NoAsk}] /\ line \in Seq(Asks) /\ free \in Nat
  BY DEF Makes, AsksTyped
<1>5. Awaits(a) /\ ask[a].on = NoAsk
  BY DEF MakerInv, Awaits
<1>6. \A k \in Clips : Making(k)' = {owner'[k]} \ {NoAsk}
  <2> SUFFICES ASSUME NEW k \in Clips PROVE Making(k)' = {owner'[k]} \ {NoAsk}
    OBVIOUS
  <2>1. CASE k = c
    <3>1. Making(c) = {}
      BY DEF MakerInv
    <3>2. Making(c)' = {a}
      BY <1>2, <1>3, <3>1 DEF Making
    <3>3. owner'[c] = a /\ a # NoAsk
      BY <1>4, SpeechAssumption
    <3> QED BY <2>1, <3>2, <3>3
  <2>2. CASE k # c
    <3>1. Making(k)' = Making(k)
      BY <1>2, <1>3, <2>2 DEF Making
    <3>2. owner'[k] = owner[k]
      BY <1>4, <2>2
    <3> QED BY <3>1, <3>2 DEF MakerInv
  <2> QED BY <2>1, <2>2
<1>7. ASSUME NEW b \in Asks PROVE Awaits(b)'
  <2> SUFFICES ASSUME ask'[b].on # NoAsk
               PROVE  /\ ask'[b].stage = "waiting" /\ ask'[b].on \in Asks
                      /\ ask'[ask'[b].on].stage \in MakingStages /\ ask'[ask'[b].on].clip = ask'[b].clip
    BY DEF Awaits
  <2>1. b # a /\ ask'[b] = ask[b] /\ Awaits(b)
    BY <1>2, <1>3, <1>5 DEF MakerInv
  <2>2. PICK o \in Asks : o = ask[b].on
    BY <2>1 DEF Awaits
  <2>3. ask[o].stage \in MakingStages /\ ask[o].clip = ask[b].clip /\ ask[b].stage = "waiting"
    BY <2>1, <2>2 DEF Awaits
  <2>4. o # a
    BY <2>3 DEF MakingStages, InSlot
  <2> QED BY <1>3, <2>1, <2>2, <2>3, <2>4
<1>8. /\ free' \in Nat /\ line' \in Seq(Asks)
      /\ free' = Slots - Cardinality(Holders')
      /\ line' # <<>> => free' = 0
      /\ \A i \in 1..Len(line') : line'[i] \in Queued'
      /\ \A i, j \in 1..Len(line') : line'[i] = line'[j] => i = j
  <2>0. free = Slots - Cardinality(Holders) /\ (line # <<>> => free = 0) /\ Slots \in Nat /\ Cardinality(Holders) \in Nat
    BY HoldersFinite, SpeechAssumption DEF MakerInv
  <2>1. CASE st = "calling"
    <3>1. line = <<>> /\ line' = line /\ free' = free - 1 /\ free > 0
      BY <1>1, <1>4, <2>0, <2>1
    <3>2. Holders' = Holders \cup {a} /\ a \notin Holders
      BY <1>2, <1>3, <2>1 DEF Holders, InSlot
    <3>3. Cardinality(Holders') = Cardinality(Holders) + 1
      BY <3>2, FS_AddElement, HoldersFinite
    <3> QED BY <1>4, <2>0, <3>1, <3>3
  <2>2. CASE st = "queued"
    <3>1. line' = Append(line, a) /\ free' = free /\ free = 0
      BY <1>1, <1>4, <2>2
    <3>2. Holders' = Holders
      BY <1>2, <1>3, <2>2 DEF Holders, InSlot
    <3>3. /\ line' \in Seq(Asks) /\ Len(line') = Len(line) + 1 /\ Len(line) \in Nat
          /\ line'[Len(line) + 1] = a /\ \A i \in 1..Len(line) : line'[i] = line[i]
      BY <1>4, <3>1, ListAppend, ListOf
    <3>4. \A i \in 1..Len(line) : line[i] \in Queued /\ line[i] # a
      BY DEF MakerInv, Queued
    <3>5. Queued \subseteq Queued' /\ a \in Queued'
      BY <1>2, <1>3, <2>2 DEF Queued
    <3>6. \A i \in 1..Len(line') : i \in 1..Len(line) \/ i = Len(line) + 1
      BY <3>3
    <3>7. \A i \in 1..Len(line') : line'[i] \in Queued'
      BY <3>3, <3>4, <3>5, <3>6
    <3>8. \A i, j \in 1..Len(line') : line'[i] = line'[j] => i = j
      BY <3>3, <3>4, <3>6 DEF MakerInv
    <3> QED BY <1>4, <2>0, <3>1, <3>2, <3>3, <3>7, <3>8
  <2> QED BY <2>1, <2>2
<1>9. AsksTyped'
  BY <1>2, <1>3, <1>4, <1>8 DEF AsksTyped
<1>10. MakerInv'
  BY <1>6, <1>7, <1>8 DEF MakerInv
<1> QED BY <1>1, <1>2, <1>3, <1>9, <1>10

\* The making is over: all who waited for it are told, and the slot goes on.
LEMMA MadeKeeps ==
  ASSUME AsksTyped, MakerInv, NEW a \in Asks, ask[a].stage \in InSlot, NEW stage \in {"found", "failed"}, Made(a, stage)
  PROVE  /\ AsksTyped' /\ MakerInv' /\ ask'[a].stage = stage
         /\ \A b \in Asks : \/ ask'[b] = ask[b]
                            \/ ask'[b].stage = stage /\ ask[b].stage \in InSlot \cup {"waiting"}
                               /\ ask'[b].clip = ask[b].clip /\ ask[b].clip = ask[a].clip
                            \/ ask'[b].stage = "calling" /\ ask[b].stage = "queued" /\ ask'[b].clip = ask[b].clip
<1> DEFINE told == [b \in Asks |-> IF b = a \/ ask[b].on = a THEN [ask[b] EXCEPT !.stage = stage, !.on = NoAsk] ELSE ask[b]]
<1>1. ask \in [Asks -> Reqs] /\ owner \in [Clips -> Asks \cup {NoAsk}] /\ line \in Seq(Asks) /\ free \in Nat /\ ask[a].clip \in Clips
  BY DEF AsksTyped, Active, Keyed, MakingStages
<1>2. \A b \in Asks : told[b] \in Reqs /\ told[b].clip = ask[b].clip
                      /\ IF b = a \/ ask[b].on = a THEN told[b].stage = stage /\ told[b].on = NoAsk ELSE told[b] = ask[b]
  BY <1>1, Zenon DEF Reqs, Active, Answered
<1>3. told \in [Asks -> Reqs]
  BY <1>2, Zenon
<1>4. Released(told) /\ owner' = [owner EXCEPT ![ask[a].clip] = NoAsk]
  BY Zenon DEF Made
<1> HIDE DEF told
<1>5. \A b \in Asks : Awaits(b)
  BY DEF MakerInv
<1>6. \A b \in Asks : ask[b].on = a => ask[b].stage = "waiting" /\ ask[b].clip = ask[a].clip
  BY <1>5, SpeechAssumption DEF Awaits
<1>7. \A b \in Asks : ask[b].stage = "queued" => told[b] = ask[b] /\ b # a
  BY <1>2, <1>6 DEF InSlot
<1>8. \A i \in 1..Len(line) : line[i] \in Asks /\ ask[line[i]].stage = "queued"
  BY DEF MakerInv, Queued
<1>9. free = Slots - Cardinality(Holders) /\ (line # <<>> => free = 0) /\ Slots \in Nat /\ Cardinality(Holders) \in Nat
  BY HoldersFinite, SpeechAssumption DEF MakerInv
<1>10. a \in Holders /\ Cardinality(Holders \ {a}) = Cardinality(Holders) - 1 /\ IsFiniteSet(Holders \ {a})
  <2>1. a \in Holders
    BY DEF Holders
  <2> QED BY <2>1, HoldersFinite, FS_RemoveElement
<1>11. {b \in Asks : told[b].stage \in InSlot} = Holders \ {a}
  BY <1>2, <1>6 DEF Holders, InSlot
<1>12. \A c \in Clips : {b \in Asks : told[b].clip = c /\ told[b].stage \in MakingStages} = Making(c) \ {a}
  BY <1>2, <1>6 DEF Making, MakingStages, InSlot
<1>13. \A c \in Clips : Making(c) \ {a} = {owner'[c]} \ {NoAsk}
  <2> SUFFICES ASSUME NEW c \in Clips PROVE Making(c) \ {a} = {owner'[c]} \ {NoAsk}
    OBVIOUS
  <2>1. Making(c) = {owner[c]} \ {NoAsk}
    BY DEF MakerInv
  <2>2. a \in Making(c) <=> c = ask[a].clip
    BY DEF Making, InSlot
  <2>3. owner'[c] = IF c = ask[a].clip THEN NoAsk ELSE owner[c]
    BY <1>1, <1>4
  <2> QED BY <2>1, <2>2, <2>3
<1>14. ASSUME NEW b \in Asks, told[b].on # NoAsk
       PROVE  /\ told[b] = ask[b] /\ told[b].stage = "waiting" /\ told[b].on \in Asks
              /\ told[told[b].on].stage \in MakingStages /\ told[told[b].on].clip = told[b].clip
  <2>1. told[b] = ask[b] /\ ask[b].on # a
    BY <1>2, <1>14
  <2>2. PICK o \in Asks : o = ask[b].on
    BY <1>5, <1>14, <2>1 DEF Awaits
  <2>3. ask[b].stage = "waiting" /\ ask[o].stage \in MakingStages /\ ask[o].clip = ask[b].clip /\ o # a
    BY <1>5, <1>14, <2>1, <2>2 DEF Awaits
  <2>4. ask[o].on # a
    BY <1>6, <2>3 DEF MakingStages, InSlot
  <2>5. told[o] = ask[o]
    BY <1>2, <2>3, <2>4
  <2> QED BY <2>1, <2>2, <2>3, <2>5
<1>15. \A b \in Asks : told[b].stage \in Active \cup Answered => told[b].clip \in Clips
  <2>1. \A b \in Asks : ask[b].on = a => ask[b].clip \in Clips
    BY <1>1, <1>6
  <2> QED BY <1>1, <1>2, <2>1 DEF AsksTyped
<1>16. CASE line = <<>>
  <2>1. free' = free + 1 /\ ask' = told /\ line' = line
    BY <1>4, <1>16 DEF Released
  <2>2. Holders' = Holders \ {a}
    BY <1>11, <2>1 DEF Holders
  <2>3. \A c \in Clips : Making(c)' = {owner'[c]} \ {NoAsk}
    BY <1>12, <1>13, <2>1 DEF Making, MakingStages, InSlot
  <2>4. ASSUME NEW b \in Asks PROVE Awaits(b)'
    <3>1. \A x \in Asks : ask'[x] = told[x]
      BY <2>1
    <3>2. CASE told[b].on = NoAsk
      BY <3>1, <3>2 DEF Awaits
    <3>3. CASE told[b].on # NoAsk
      BY <1>14, <3>1, <3>3 DEF Awaits
    <3> QED BY <3>2, <3>3
  <2>5. AsksTyped'
    BY <1>1, <1>3, <1>4, <1>15, <2>1 DEF AsksTyped
  <2>6. free' = Slots - Cardinality(Holders') /\ (line' # <<>> => free' = 0)
    BY <1>1, <1>9, <1>10, <1>16, <2>1, <2>2
  <2>7. MakerInv'
    BY <1>16, <2>1, <2>3, <2>4, <2>6 DEF MakerInv
  <2> QED BY <1>2, <1>6, <2>1, <2>5, <2>7
<1>17. CASE line # <<>>
  <2>1. PICK h : h = Head(line)
    OBVIOUS
  <2>2. /\ h \in Asks /\ Tail(line) \in Seq(Asks) /\ Len(Tail(line)) = Len(line) - 1 /\ Len(line) \in Nat \ {0}
        /\ h = line[1] /\ \A i \in 1..Len(Tail(line)) : Tail(line)[i] = line[i + 1]
    BY <1>1, <1>17, <2>1, ListRest, ListOf
  <2>3. ask[h].stage = "queued" /\ told[h] = ask[h] /\ h # a /\ h \notin Holders
    BY <1>7, <1>8, <2>2 DEF Holders, InSlot
  <2>4. PICK n : n = [told[h] EXCEPT !.stage = "calling"]
    OBVIOUS
  <2>5. n \in Reqs /\ n.stage = "calling" /\ n.clip = ask[h].clip /\ n.on = ask[h].on
    BY <1>1, <2>2, <2>3, <2>4 DEF Reqs, Active, Keyed, MakingStages, InSlot
  <2>6. line' = Tail(line) /\ free' = free /\ ask' = [told EXCEPT ![h] = n]
    <3>1. ask' = [told EXCEPT ![h].stage = "calling"] /\ line' = Tail(line) /\ free' = free
      BY <1>4, <1>17, <2>1 DEF Released
    <3> QED BY <1>3, <2>4, <3>1 DEF Reqs
  <2>7. ask' \in [Asks -> Reqs] /\ \A b \in Asks : ask'[b] = IF b = h THEN n ELSE told[b]
    BY <1>3, <2>5, <2>6
  <2>8. Holders' = (Holders \ {a}) \cup {h}
    BY <1>11, <2>2, <2>5, <2>7 DEF Holders, InSlot
  <2>9. Cardinality(Holders') = Cardinality(Holders)
    <3>1. Cardinality((Holders \ {a}) \cup {h}) = Cardinality(Holders \ {a}) + 1
      BY <1>10, <2>3, FS_AddElement
    <3> QED BY <1>9, <1>10, <2>8, <3>1
  <2>10. \A c \in Clips : Making(c)' = {owner'[c]} \ {NoAsk}
    <3>1. \A c \in Clips : Making(c)' = {b \in Asks : told[b].clip = c /\ told[b].stage \in MakingStages}
      BY <2>3, <2>5, <2>7 DEF Making, MakingStages, InSlot
    <3> QED BY <1>12, <1>13, <3>1
  <2>11. ASSUME NEW b \in Asks PROVE Awaits(b)'
    <3> SUFFICES ASSUME ask'[b].on # NoAsk
                 PROVE  /\ ask'[b].stage = "waiting" /\ ask'[b].on \in Asks
                        /\ ask'[ask'[b].on].stage \in MakingStages /\ ask'[ask'[b].on].clip = ask'[b].clip
      BY DEF Awaits
    <3>1. b # h
      BY <1>5, <2>2, <2>3, <2>5, <2>7 DEF Awaits
    <3>2. ask'[b] = told[b]
      BY <2>7, <3>1
    <3>3. PICK o \in Asks : o = told[b].on
      BY <1>14, <3>2
    <3>4. told[b].stage = "waiting" /\ told[o].stage \in MakingStages /\ told[o].clip = told[b].clip
      BY <1>14, <3>2, <3>3
    <3>5. ask'[o].stage \in MakingStages /\ ask'[o].clip = told[o].clip
      BY <2>3, <2>5, <2>7, <3>4 DEF MakingStages, InSlot
    <3> QED BY <3>2, <3>3, <3>4, <3>5
  <2>12. \A b \in Asks : ask'[b].stage \in Active \cup Answered => ask'[b].clip \in Clips
    <3>1. ask[h].clip \in Clips
      BY <2>2, <2>3 DEF AsksTyped, Active, Keyed, MakingStages
    <3> QED BY <1>15, <2>5, <2>7, <3>1
  <2>13. AsksTyped'
    BY <1>1, <1>4, <2>2, <2>6, <2>7, <2>12 DEF AsksTyped
  <2>14. \A i \in 1..Len(line') : i + 1 \in 1..Len(line) /\ line'[i] = line[i + 1]
    BY <2>2, <2>6
  <2>15. \A i \in 1..Len(line') : line'[i] # h /\ line'[i] \in Asks /\ ask[line'[i]].stage = "queued"
    <3> SUFFICES ASSUME NEW i \in 1..Len(line') PROVE line'[i] # h /\ line'[i] \in Asks /\ ask[line'[i]].stage = "queued"
      OBVIOUS
    <3>1. i + 1 \in 1..Len(line) /\ 1 \in 1..Len(line) /\ i + 1 # 1 /\ line'[i] = line[i + 1]
      BY <2>2, <2>6, <2>14
    <3>2. line[i + 1] # line[1]
      BY <3>1 DEF MakerInv
    <3> QED BY <1>8, <2>2, <3>1, <3>2
  <2>16. \A i \in 1..Len(line') : line'[i] \in Queued'
    BY <1>7, <2>7, <2>15 DEF Queued
  <2>17. \A i, j \in 1..Len(line') : line'[i] = line'[j] => i = j
    <3> SUFFICES ASSUME NEW i \in 1..Len(line'), NEW j \in 1..Len(line'), line'[i] = line'[j] PROVE i = j
      OBVIOUS
    <3>1. i + 1 \in 1..Len(line) /\ j + 1 \in 1..Len(line) /\ line[i + 1] = line[j + 1]
      BY <2>14
    <3>2. i + 1 = j + 1
      BY <3>1 DEF MakerInv
    <3>3. i \in Int /\ j \in Int
      OBVIOUS
    <3> QED BY <3>2, <3>3
  <2>18. free' = Slots - Cardinality(Holders') /\ (line' # <<>> => free' = 0)
    BY <1>9, <1>17, <2>6, <2>9
  <2>19. MakerInv'
    BY <2>10, <2>11, <2>16, <2>17, <2>18 DEF MakerInv
  <2> QED BY <1>2, <1>6, <2>3, <2>5, <2>7, <2>13, <2>19
<1> QED BY <1>16, <1>17

LEMMA SoleMaker ==
  ASSUME AsksTyped, MakerInv, NEW a \in Asks, NEW b \in Asks, ask[a].clip = ask[b].clip,
         ask[a].stage \in MakingStages, ask[b].stage \in MakingStages
  PROVE  a = b
<1>1. ask[a].clip \in Clips
  BY DEF AsksTyped, Active, Keyed
<1>2. a \in Making(ask[a].clip) /\ b \in Making(ask[a].clip)
  BY DEF Making, MakingStages, InSlot
<1> QED BY <1>1, <1>2 DEF MakerInv

LEMMA RetriesKeep ==
  ASSUME AsksTyped, MakerInv, NEW a \in Asks, ask[a].stage \in InSlot, Retries(a)
  PROVE  /\ AsksTyped' /\ MakerInv' /\ ask'[a].stage \in {"failed", "calling"}
         /\ \A b \in Asks : \/ ask'[b] = ask[b]
                            \/ /\ ask'[b].clip = ask[b].clip /\ ask'[b].stage \in {"failed", "calling"}
                               /\ ask[b].stage \in MakingStages \cup {"waiting"}
<1>1. CASE ask[a].tries + 1 < MaxAttempts
  <2>1. ask[a] \in Reqs /\ ask[a].clip \in Clips
    BY DEF AsksTyped, Active, Keyed, MakingStages
  <2>2. PICK n : n = [ask[a] EXCEPT !.stage = "calling", !.tries = @ + 1]
    OBVIOUS
  <2>3. n \in Reqs /\ n.stage = "calling" /\ n.clip = ask[a].clip /\ n.on = ask[a].on
    <3>1. PICK t \in Nat : t = ask[a].tries + 1
      BY <2>1 DEF Reqs
    <3>2. n = [ask[a] EXCEPT !.stage = "calling", !.tries = t]
      BY <2>2, <3>1
    <3> QED BY <2>1, <3>2 DEF Reqs, Active, Keyed, MakingStages, InSlot
  <2>4. ask' = [ask EXCEPT ![a] = n] /\ UNCHANGED <<owner, free, line>>
    <3>1. ask' = [ask EXCEPT ![a].stage = "calling", ![a].tries = @ + 1] /\ UNCHANGED <<owner, free, line>>
      BY <1>1 DEF Retries
    <3> QED BY <2>2, <3>1 DEF AsksTyped, Reqs
  <2>5. AsksTyped' /\ MakerInv'
    BY <2>1, <2>3, <2>4, QuietKeeps DEF InSlot
  <2> QED BY <2>3, <2>4, <2>5 DEF AsksTyped, MakingStages, InSlot
<1>2. CASE ~(ask[a].tries + 1 < MaxAttempts)
  <2>1. Made(a, "failed")
    BY <1>2 DEF Retries
  <2> QED BY <2>1, MadeKeeps DEF MakingStages
<1> QED BY <1>1, <1>2

\* Who works has its process still, when no process or release comes or goes.
LEMMA ServedStays ==
  ASSUME Served, UNCHANGED <<allowed, proc, keyed, task>>,
         \A b \in Asks : \/ ask'[b] = ask[b]
                         \/ /\ ask'[b].clip = ask[b].clip /\ (ask'[b].stage \in Active => ask[b].stage \in Active)
                            /\ (ask'[b].stage \in Keyed => ask[b].stage \in Keyed \/ keyed)
  PROVE  Served'
<1>1. \A b \in Asks : ask'[b].stage \in Active => proc'["server"].stage = "up" /\ ask'[b].clip \in allowed'
  BY DEF Served
<1>2. \A b \in Asks : ask'[b].stage \in Keyed => keyed'
  BY DEF Served
<1>3. \A c \in Clips : task'[c] \in InSlot => proc'["script"].stage = "up" /\ c \in allowed'
  BY DEF Served
<1> QED BY <1>1, <1>2, <1>3 DEF Served

\* The files of a request that is under way, and whose maker has reconciled.
LEMMA Backed ==
  ASSUME SpeechInv, NEW a \in Asks, ask[a].stage \in Keyed
  PROVE  /\ ask[a].clip \in Clips /\ ask[a].clip \in allowed /\ ask[a] \in Reqs
         /\ "server" \in Procs /\ Reconciled("server")
  BY DEF SpeechInv, AsksTyped, Served, Active, Reconciled, Procs

LEMMA AskClipKeeps ==
  ASSUME SpeechInv, NEW a \in Asks, NEW c \in Clips, AskClip(a, c)
  PROVE  SpeechInv'
<1> USE DEF SpeechInv
<1>1. ask \in [Asks -> Reqs] /\ ask[a] \in Reqs /\ ask[a].stage = "idle" /\ ask[a].on = NoAsk
  BY DEF AskClip, Is, AsksTyped, MakerInv, Awaits
<1>2. PICK n : n = [ask[a] EXCEPT !.stage = "looking", !.clip = c]
  OBVIOUS
<1>3. n \in Reqs /\ n.stage = "looking" /\ n.clip = c /\ n.on = NoAsk
  BY <1>1, <1>2 DEF Reqs, Active
<1>4. ask' = [ask EXCEPT ![a] = n] /\ UNCHANGED <<owner, free, line, disk, tmp, meta, allowed, undeleted, proc, keyed, task>>
  <2>1. ask' = [ask EXCEPT ![a].stage = "looking", ![a].clip = c]
    BY DEF AskClip
  <2> QED BY <1>1, <1>2, <2>1 DEF AskClip, keepsFiles, Reqs
<1>5. \A b \in Asks : ask'[b] = IF b = a THEN n ELSE ask[b]
  BY <1>1, <1>4
<1>6. AsksTyped' /\ MakerInv'
  BY <1>1, <1>3, <1>4, QuietKeeps DEF MakingStages, InSlot
<1>7. Served'
  BY <1>3, <1>4, <1>5 DEF Served, AskClip, Active, Keyed, MakingStages, InSlot
<1>8. SpeechTyped'
  BY <1>4 DEF SpeechTyped
<1>9. CacheInv'
  BY <1>4, FilesKeepCache
<1>10. TmpInv'
  BY <1>3, <1>4, <1>5 DEF TmpInv, WholeOf
<1> QED BY <1>6, <1>7, <1>8, <1>9, <1>10

\* A request that only looks at the files.
LEMMA LooksKeep ==
  ASSUME SpeechInv, NEW a \in Asks, LooksUp(a) \/ Sends(a)
  PROVE  SpeechInv'
<1> USE DEF SpeechInv
<1>1. ask \in [Asks -> Reqs] /\ ask[a] \in Reqs /\ ask[a].stage \in {"looking", "found"} /\ ask[a].on = NoAsk /\ ask[a].clip \in Clips
  BY DEF LooksUp, Sends, Is, AsksTyped, MakerInv, Awaits, Active
<1>2. PICK st \in AskStages :
        /\ Turns(a, st)
        /\ \/ ask[a].stage = "looking" /\ st = "found" /\ Good(ask[a].clip)
           \/ ask[a].stage = "looking" /\ st = "unlinking" /\ keyed
           \/ st \in Answered /\ (st = "broken" => ask[a].stage = "found" /\ disk[ask[a].clip] = "damaged")
  BY DEF LooksUp, Sends, Is, AskStages, Active, Keyed, Answered
<1>3. PICK n \in Reqs : ask' = [ask EXCEPT ![a] = n] /\ n.stage = st /\ n.clip = ask[a].clip /\ n.on = ask[a].on
  BY <1>2, Turning
<1>4. \A b \in Asks : ask'[b] = IF b = a THEN n ELSE ask[b]
  BY <1>1, <1>3
<1>5. UNCHANGED <<owner, free, line, disk, tmp, meta, allowed, undeleted, proc, keyed, task>>
  BY DEF LooksUp, Sends, keepsFiles
<1>6. AsksTyped' /\ MakerInv'
  BY <1>1, <1>2, <1>3, <1>5, QuietKeeps DEF MakingStages, InSlot, Answered
<1>7. Served'
  BY <1>1, <1>2, <1>3, <1>4, <1>5, ServedStays DEF Active, Keyed, MakingStages, InSlot, Answered
<1>8. SpeechTyped'
  BY <1>5 DEF SpeechTyped
<1>9. CacheInv'
  BY <1>5, FilesKeepCache
<1>10. TmpInv'
  <2> SUFFICES ASSUME NEW b \in Asks PROVE WholeOf(b)'
    BY DEF TmpInv
  <2>1. CASE b # a
    BY <1>4, <1>5, <2>1 DEF TmpInv, WholeOf
  <2>2. CASE b = a
    <3>1. task[ask[a].clip] = "no" /\ ask[a].stage = "found" => disk[ask[a].clip] # "damaged"
      BY DEF TmpInv, WholeOf, Active
    <3> QED BY <1>1, <1>2, <1>3, <1>4, <1>5, <2>2, <3>1 DEF WholeOf, Good, Answered
  <2> QED BY <2>1, <2>2
<1> QED BY <1>6, <1>7, <1>8, <1>9, <1>10

LEMMA UnlinksKeep ==
  ASSUME SpeechInv, NEW a \in Asks, Unlinks(a)
  PROVE  SpeechInv'
<1> USE DEF SpeechInv
<1>1. PICK c : c = ask[a].clip
  OBVIOUS
<1>2. /\ ask \in [Asks -> Reqs] /\ ask[a] \in Reqs /\ ask[a].stage = "unlinking" /\ ask[a].on = NoAsk
      /\ c \in Clips /\ owner \in [Clips -> Asks \cup {NoAsk}]
  BY <1>1 DEF Unlinks, Is, AsksTyped, MakerInv, Awaits, Active, Keyed
<1>3. /\ Unlinked(c) /\ UNCHANGED <<tmp, meta, allowed, undeleted, proc, keyed, task>>
      /\ IF owner[c] # NoAsk
         THEN ask' = [ask EXCEPT ![a].stage = "waiting", ![a].on = owner[c]] /\ UNCHANGED <<owner, free, line>>
         ELSE Makes(a, c)
  BY <1>1 DEF Unlinks, keepsFiles
<1>4. disk' \in [Clips -> {"none", "damaged", "fresh", "stale"}] /\ \A k \in Clips : disk'[k] = disk[k] \/ disk'[k] = "none"
  BY <1>2, <1>3 DEF Unlinked, SpeechTyped
<1>5. /\ AsksTyped' /\ MakerInv' /\ ask'[a].stage \in {"waiting", "queued", "calling"} /\ ask'[a].clip = c
      /\ \A b \in Asks : b # a => ask'[b] = ask[b]
  <2>1. CASE owner[c] = NoAsk
    BY <1>1, <1>2, <1>3, <2>1, MakesKeeps
  <2>2. CASE owner[c] # NoAsk
    <3>1. PICK o \in Asks : o = owner[c]
      BY <1>2, <2>2
    <3>2. o \in Making(c)
      BY <1>2, <2>2, <3>1 DEF MakerInv
    <3>3. ask[o].clip = c /\ ask[o].stage \in MakingStages /\ o # a
      BY <1>2, <3>2 DEF Making, MakingStages, InSlot
    <3>4. PICK n : n = [ask[a] EXCEPT !.stage = "waiting", !.on = o]
      OBVIOUS
    <3>5. n \in Reqs /\ n.stage = "waiting" /\ n.on = o /\ n.clip = c
      BY <1>1, <1>2, <3>4 DEF Reqs, Active, Keyed
    <3>6. ask' = [ask EXCEPT ![a] = n] /\ UNCHANGED <<owner, free, line>>
      <4>1. ask' = [ask EXCEPT ![a].stage = "waiting", ![a].on = o]
        BY <1>3, <2>2, <3>1
      <4> QED BY <1>2, <1>3, <2>2, <3>4, <4>1 DEF Reqs
    <3>7. ask' \in [Asks -> Reqs] /\ \A b \in Asks : ask'[b] = IF b = a THEN n ELSE ask[b]
      BY <1>2, <3>5, <3>6
    <3>8. \A k \in Clips : Making(k)' = Making(k)
      BY <1>2, <3>5, <3>7 DEF Making
    <3>9. Holders' = Holders /\ Queued' = Queued
      BY <1>2, <3>5, <3>7 DEF Holders, Queued, InSlot
    <3>10. ASSUME NEW b \in Asks PROVE Awaits(b)'
      <4>1. CASE b = a
        BY <1>2, <3>3, <3>5, <3>7, <4>1 DEF Awaits
      <4>2. CASE b # a
        <5> SUFFICES ASSUME ask[b].on # NoAsk
                     PROVE  /\ ask[b].stage = "waiting" /\ ask[b].on \in Asks
                            /\ ask'[ask[b].on].stage \in MakingStages /\ ask'[ask[b].on].clip = ask[b].clip
          BY <3>7, <4>2 DEF Awaits
        <5>1. PICK x \in Asks : x = ask[b].on
          BY DEF MakerInv, Awaits
        <5>2. ask[b].stage = "waiting" /\ ask[x].stage \in MakingStages /\ ask[x].clip = ask[b].clip
          BY <5>1 DEF MakerInv, Awaits
        <5>3. x # a
          BY <1>2, <5>2 DEF MakingStages, InSlot
        <5> QED BY <3>7, <5>1, <5>2, <5>3
      <4> QED BY <4>1, <4>2
    <3>11. MakerInv'
      BY <3>6, <3>8, <3>9, <3>10 DEF MakerInv
    <3>12. AsksTyped'
      BY <1>2, <3>5, <3>6, <3>7 DEF AsksTyped
    <3> QED BY <3>5, <3>7, <3>11, <3>12
  <2> QED BY <2>1, <2>2
<1>6. Served'
  <2>1. proc["server"].stage = "up" /\ c \in allowed /\ keyed
    BY <1>1, <1>2 DEF Served, Active, Keyed
  <2>2. \A b \in Asks : ask'[b].stage \in Active => proc'["server"].stage = "up" /\ ask'[b].clip \in allowed'
    BY <1>3, <1>5, <2>1 DEF Served
  <2>3. \A b \in Asks : ask'[b].stage \in Keyed => keyed'
    BY <1>3, <2>1
  <2> QED BY <1>3, <2>2, <2>3 DEF Served
<1>7. SpeechTyped'
  BY <1>3, <1>4 DEF SpeechTyped
<1>8. CacheInv'
  BY <1>3, <1>4, FilesKeepCache
<1>9. TmpInv'
  <2> SUFFICES ASSUME NEW b \in Asks, ask'[b].stage \in Active \cup Answered PROVE WholeOf(b)'
    BY DEF TmpInv, WholeOf
  <2>1. CASE b = a
    BY <1>5, <2>1 DEF WholeOf
  <2>2. CASE b # a
    <3>1. ask'[b] = ask[b] /\ WholeOf(b) /\ ask[b].clip \in Clips
      BY <1>5, <2>2 DEF TmpInv, AsksTyped
    <3> QED BY <1>3, <1>4, <3>1 DEF WholeOf
  <2> QED BY <2>1, <2>2
<1> QED BY <1>5, <1>6, <1>7, <1>8, <1>9

\* A request that calls the provider or writes: the .tmp file is its own.
LEMMA WritesTmpKeep ==
  ASSUME SpeechInv, NEW a \in Asks, GoogleAnswers(a) \/ Written(a)
  PROVE  SpeechInv'
<1> USE DEF SpeechInv
<1>1. PICK c : c = ask[a].clip
  OBVIOUS
<1>2. /\ ask \in [Asks -> Reqs] /\ ask[a] \in Reqs /\ ask[a].stage \in {"calling", "writing"}
      /\ c \in Clips /\ tmp \in [Clips -> {"none", "partial", "whole"}]
  BY <1>1 DEF GoogleAnswers, Written, Is, AsksTyped, Active, Keyed, MakingStages, InSlot, SpeechTyped
<1>3. UNCHANGED <<disk, meta, allowed, undeleted, proc, keyed, task>>
  BY DEF GoogleAnswers, Written, keepsFiles
<1>4. \E v \in {"none", "partial", "whole"} : tmp' = tmp \/ tmp' = [tmp EXCEPT ![c] = v]
  BY <1>1 DEF GoogleAnswers, Written
<1>5. tmp' \in [Clips -> {"none", "partial", "whole"}] /\ \A k \in Clips : k # c => tmp'[k] = tmp[k]
  BY <1>2, <1>4
<1>6. /\ AsksTyped' /\ MakerInv' /\ ask'[a].stage \in {"failed"} \cup InSlot /\ (ask'[a].stage = "renaming" => tmp'[c] = "whole")
      /\ \A b \in Asks : \/ ask'[b] = ask[b]
                         \/ /\ ask'[b].clip = ask[b].clip /\ ask'[b].stage \in {"failed", "calling"}
                            /\ ask[b].stage \in MakingStages \cup {"waiting"}
                         \/ b = a /\ ask'[b].clip = ask[b].clip /\ ask'[b].stage \in {"writing", "renaming"}
  <2>1. CASE Retries(a)
    BY <1>2, <2>1, RetriesKeep DEF InSlot
  <2>2. CASE ~Retries(a)
    <3>1. PICK st \in {"writing", "renaming"} :
            Turns(a, st) /\ UNCHANGED <<owner, free, line>> /\ (st = "renaming" => tmp' = [tmp EXCEPT ![c] = "whole"])
      BY <1>1, <2>2 DEF GoogleAnswers, Written
    <3>2. PICK n \in Reqs : ask' = [ask EXCEPT ![a] = n] /\ n.stage = st /\ n.clip = ask[a].clip /\ n.on = ask[a].on
      BY <3>1, Turning DEF AskStages, Active, Keyed, MakingStages, InSlot
    <3>3. \A b \in Asks : ask'[b] = IF b = a THEN n ELSE ask[b]
      BY <1>2, <3>2
    <3>4. AsksTyped' /\ MakerInv'
      BY <1>1, <1>2, <3>1, <3>2, QuietKeeps DEF InSlot
    <3> QED BY <1>2, <3>1, <3>2, <3>3, <3>4 DEF InSlot
  <2> QED BY <2>1, <2>2
<1>7. Served'
  BY <1>2, <1>3, <1>6, ServedStays DEF Active, Keyed, MakingStages, InSlot
<1>8. SpeechTyped'
  BY <1>3, <1>5 DEF SpeechTyped
<1>9. CacheInv'
  BY <1>3, FilesKeepCache
<1>10. TmpInv'
  <2> SUFFICES ASSUME NEW b \in Asks, ask'[b].stage \in Active \cup Answered, task[ask'[b].clip] = "no"
               PROVE  /\ ask'[b].stage = "renaming" => tmp'[ask'[b].clip] = "whole"
                      /\ ask'[b].stage = "found" => disk[ask'[b].clip] # "damaged"
                      /\ ask'[b].stage # "broken"
    BY <1>3 DEF TmpInv, WholeOf
  <2>1. CASE b = a
    <3>1. ask'[a].clip = c
      BY <1>1, <1>6
    <3> QED BY <1>6, <2>1, <3>1 DEF InSlot
  <2>2. CASE b # a /\ ask'[b] # ask[b]
    BY <1>6, <2>2
  <2>3. CASE b # a /\ ask'[b] = ask[b]
    <3>1. WholeOf(b) /\ ask[b].clip \in Clips
      BY <2>3 DEF TmpInv, AsksTyped
    <3>2. ask[b].stage = "renaming" => ask[b].clip # c
      BY <1>1, <1>2, <2>3, SoleMaker DEF MakingStages, InSlot
    <3> QED BY <1>5, <2>3, <3>1, <3>2 DEF WholeOf
  <2> QED BY <2>1, <2>2, <2>3
<1> QED BY <1>6, <1>7, <1>8, <1>9, <1>10

\* The .tmp file becomes the clip.
LEMMA RenamesKeep ==
  ASSUME SpeechInv, NEW a \in Asks, Renames(a)
  PROVE  SpeechInv'
<1> USE DEF SpeechInv
<1>1. PICK c : c = ask[a].clip
  OBVIOUS
<1>2. /\ ask \in [Asks -> Reqs] /\ ask[a] \in Reqs /\ ask[a].stage = "renaming"
      /\ tmp \in [Clips -> {"none", "partial", "whole"}] /\ disk \in [Clips -> {"none", "damaged", "fresh", "stale"}]
  BY DEF Renames, Is, AsksTyped, SpeechTyped
<1>3. c \in Clips /\ c \in allowed /\ "server" \in Procs /\ Reconciled("server")
  BY <1>1, <1>2, Backed DEF Keyed, MakingStages, InSlot
<1>4. UNCHANGED <<meta, allowed, undeleted, proc, keyed, task>>
  BY DEF Renames, keepsFiles
<1>5. \/ tmp[c] = "none" /\ Retries(a) /\ disk' = disk /\ tmp' = tmp
      \/ tmp[c] # "none" /\ Renamed(c) /\ Made(a, "found")
  BY <1>1 DEF Renames
<1>6. /\ tmp' \in [Clips -> {"none", "partial", "whole"}] /\ disk' \in [Clips -> {"none", "damaged", "fresh", "stale"}]
      /\ \A k \in Clips : k # c => tmp'[k] = tmp[k] /\ disk'[k] = disk[k]
      /\ disk'[c] = disk[c] \/ disk'[c] \in {"fresh", "damaged"}
  BY <1>2, <1>3, <1>5 DEF Renamed
<1>7. /\ AsksTyped' /\ MakerInv' /\ ask'[a].stage \in {"failed", "calling", "found"}
      /\ \A b \in Asks : \/ ask'[b] = ask[b]
                         \/ /\ ask'[b].clip = ask[b].clip /\ ask'[b].stage \in {"failed", "calling"}
                            /\ ask[b].stage \in MakingStages \cup {"waiting"}
                         \/ /\ ask'[b].clip = ask[b].clip /\ ask[b].clip = c /\ ask'[b].stage = "found"
                            /\ ask[b].stage \in MakingStages \cup {"waiting"} /\ tmp[c] # "none"
  <2>1. CASE Retries(a) /\ tmp[c] = "none"
    BY <1>2, <2>1, RetriesKeep DEF InSlot
  <2>2. CASE Made(a, "found") /\ tmp[c] # "none"
    BY <1>1, <1>2, <2>2, MadeKeeps DEF InSlot, MakingStages
  <2> QED BY <1>5, <2>1, <2>2
<1>8. Served'
  BY <1>4, <1>7, ServedStays DEF Active, Keyed, MakingStages, InSlot
<1>9. SpeechTyped'
  BY <1>4, <1>6 DEF SpeechTyped
<1>10. CacheInv'
  BY <1>3, <1>4, <1>6, FilesKeepCache
<1>11. task[c] = "no" => tmp[c] = "whole"
  BY <1>1, <1>2 DEF TmpInv, WholeOf, Active, Keyed, MakingStages, InSlot
<1>12. task[c] = "no" => disk'[c] = "fresh"
  BY <1>2, <1>3, <1>5, <1>11 DEF Renamed
<1>13. TmpInv'
  <2> SUFFICES ASSUME NEW b \in Asks, ask'[b].stage \in Active \cup Answered, task[ask'[b].clip] = "no"
               PROVE  /\ ask'[b].stage = "renaming" => tmp'[ask'[b].clip] = "whole"
                      /\ ask'[b].stage = "found" => disk'[ask'[b].clip] # "damaged"
                      /\ ask'[b].stage # "broken"
    BY <1>4 DEF TmpInv, WholeOf
  <2>1. CASE ask'[b] # ask[b]
    BY <1>7, <1>12, <2>1
  <2>2. CASE ask'[b] = ask[b]
    <3>1. WholeOf(b) /\ ask[b].clip \in Clips
      BY <2>2 DEF TmpInv, AsksTyped
    <3>2. ask[b].stage = "renaming" => ask[b].clip # c
      <4>1. b # a \/ ask[b].stage # "renaming"
        BY <1>7, <2>2
      <4> QED BY <1>1, <1>2, <4>1, SoleMaker DEF MakingStages, InSlot
    <3>3. CASE ask[b].clip = c
      BY <1>12, <2>2, <3>1, <3>2, <3>3 DEF WholeOf
    <3>4. CASE ask[b].clip # c
      BY <1>6, <2>2, <3>1, <3>4 DEF WholeOf
    <3> QED BY <3>3, <3>4
  <2> QED BY <2>1, <2>2
<1> QED BY <1>7, <1>8, <1>9, <1>10, <1>13

\* The script, whose clips are no longer the server's alone.
LEMMA ScriptKeeps ==
  ASSUME SpeechInv, NEW c \in Clips, Takes(c) \/ ScriptAnswered(c) \/ ScriptWrote(c) \/ ScriptRenames(c)
  PROVE  SpeechInv'
<1> USE DEF SpeechInv
<1>1. UNCHANGED <<meta, allowed, undeleted, proc, keyed, ask, owner, free, line>>
  BY DEF Takes, ScriptAnswered, ScriptWrote, ScriptRenames, keepsServer, askVars
<1>2. /\ tmp \in [Clips -> {"none", "partial", "whole"}] /\ disk \in [Clips -> {"none", "damaged", "fresh", "stale"}]
      /\ task \in [Clips -> {"no", "over", "made"} \cup InSlot]
  BY DEF SpeechTyped
<1>3. proc["script"].stage = "up" /\ c \in allowed
  BY DEF Takes, ScriptAnswered, ScriptWrote, ScriptRenames, Served, InSlot
<1>4. PICK st \in {"over", "made"} \cup InSlot : task' = [task EXCEPT ![c] = st]
  BY DEF Takes, ScriptAnswered, ScriptWrote, ScriptRenames, Works, InSlot
<1>5. task' \in [Clips -> {"no", "over", "made"} \cup InSlot] /\ task'[c] = st /\ \A k \in Clips : k # c => task'[k] = task[k]
  BY <1>2, <1>4
<1>6. /\ tmp' \in [Clips -> {"none", "partial", "whole"}] /\ disk' \in [Clips -> {"none", "damaged", "fresh", "stale"}]
      /\ \A k \in Clips : k # c => tmp'[k] = tmp[k] /\ disk'[k] = disk[k]
      /\ disk'[c] = disk[c] \/ disk'[c] \in {"fresh", "damaged"}
  BY <1>2 DEF Takes, ScriptAnswered, ScriptWrote, ScriptRenames, Renamed
<1>7. "script" \in Procs /\ Reconciled("script")
  BY <1>3 DEF Procs, Reconciled
<1>8. CacheInv'
  BY <1>1, <1>3, <1>6, <1>7, FilesKeepCache
<1>9. SpeechTyped' /\ AsksTyped'
  BY <1>1, <1>5, <1>6 DEF SpeechTyped, AsksTyped
<1>10. MakerInv'
  BY <1>1 DEF MakerInv, Making, Awaits, Holders, Queued
<1>11. Served'
  BY <1>1, <1>3, <1>5 DEF Served
<1>12. TmpInv'
  <2> SUFFICES ASSUME NEW b \in Asks, ask[b].stage \in Active \cup Answered, task'[ask[b].clip] = "no"
               PROVE  /\ ask[b].stage = "renaming" => tmp'[ask[b].clip] = "whole"
                      /\ ask[b].stage = "found" => disk'[ask[b].clip] # "damaged"
                      /\ ask[b].stage # "broken"
    BY <1>1 DEF TmpInv, WholeOf
  <2>1. ask[b].clip # c
    BY <1>4, <1>5 DEF InSlot
  <2>2. ask[b].clip \in Clips
    BY DEF AsksTyped
  <2> QED BY <1>5, <1>6, <2>1, <2>2 DEF TmpInv, WholeOf
<1> QED BY <1>8, <1>9, <1>10, <1>11, <1>12

-----------------------------------------------------------------------------
(* Processes that come, reconcile and go.                                  *)

\* What the requests do is not touched.
LEMMA ReconcilesKeep ==
  ASSUME SpeechInv, NEW p \in Procs,
         \/ ReadsMeta(p) \/ ListsFiles(p) \/ WritesMeta(p) \/ MetaWritten(p)
         \/ \E c \in Clips : DeletesFile(p, c)
  PROVE  SpeechInv'
<1> USE DEF SpeechInv
<1>1. UNCHANGED <<allowed, tmp, keyed, ask, owner, free, line, task>>
  BY DEF ReadsMeta, ListsFiles, WritesMeta, MetaWritten, DeletesFile, askVars
<1>2. CacheInv' /\ proc' \in [Procs -> Progress]
  BY ReadsMetaKeeps, ListsFilesKeeps, WritesKeep, DeletesFileKeeps
<1>3. meta' \in Metas
  <2>1. CASE WritesMeta(p) \/ MetaWritten(p)
    BY <2>1, WritesKeep
  <2>2. CASE ~(WritesMeta(p) \/ MetaWritten(p))
    BY <2>2 DEF ReadsMeta, ListsFiles, DeletesFile, SpeechTyped
  <2> QED BY <2>1, <2>2
<1>4. /\ disk' \in [Clips -> {"none", "damaged", "fresh", "stale"}] /\ undeleted' \subseteq Clips
      /\ \A k \in Clips : disk'[k] \in {disk[k], "none"}
  <2>1. CASE \E c \in Clips : DeletesFile(p, c)
    BY <2>1, DeletesFileKeeps
  <2>2. CASE ~(\E c \in Clips : DeletesFile(p, c))
    BY <2>2 DEF ReadsMeta, ListsFiles, WritesMeta, MetaWritten, SpeechTyped
  <2> QED BY <2>1, <2>2
<1>5. SpeechTyped' /\ AsksTyped' /\ MakerInv'
  BY <1>1, <1>2, <1>3, <1>4 DEF SpeechTyped, AsksTyped, MakerInv, Making, Awaits, Holders, Queued
<1>6. \A q \in Procs : proc[q].stage = "up" => proc'[q] = proc[q]
  <2>1. \A q \in Procs : q # p => proc'[q] = proc[q]
    BY DEF ReadsMeta, ListsFiles, WritesMeta, MetaWritten, DeletesFile, Reaches, SpeechTyped
  <2>2. proc[p].stage # "up"
    BY DEF ReadsMeta, ListsFiles, WritesMeta, MetaWritten, DeletesFile
  <2> QED BY <2>1, <2>2
<1>7. Served'
  BY <1>1, <1>6 DEF Served, Procs
<1>8. TmpInv'
  <2> SUFFICES ASSUME NEW b \in Asks PROVE WholeOf(b)'
    BY DEF TmpInv
  <2>1. ask[b].stage \in Active \cup Answered => ask[b].clip \in Clips
    BY DEF AsksTyped
  <2> QED BY <1>1, <1>4, <2>1 DEF TmpInv, WholeOf
<1> QED BY <1>2, <1>5, <1>7, <1>8

LEMMA StartKeeps ==
  ASSUME SpeechInv, NEW p \in Procs, Start(p)
  PROVE  SpeechInv'
<1> USE DEF SpeechInv
<1>1. UNCHANGED <<meta, allowed, disk, tmp, undeleted, ask, owner, free, line, task>> /\ proc[p] = Halted
  BY DEF Start, askVars
<1>2. CacheInv' /\ proc' \in [Procs -> Progress] /\ keyed' \in BOOLEAN
  BY StartsKeep
<1>3. SpeechTyped' /\ AsksTyped' /\ MakerInv' /\ TmpInv'
  BY <1>1, <1>2 DEF SpeechTyped, AsksTyped, MakerInv, Making, Awaits, Holders, Queued, TmpInv, WholeOf
<1>4. \A q \in Procs : proc[q].stage = "up" => proc'[q] = proc[q]
  <2>1. \A q \in Procs : q # p => proc'[q] = proc[q]
    BY DEF Start, SpeechTyped
  <2>2. proc[p].stage # "up"
    BY <1>1 DEF Halted
  <2> QED BY <2>1, <2>2
<1>5. ASSUME NEW b \in Asks, ask[b].stage \in Keyed PROVE keyed'
  <2>1. keyed /\ proc["server"].stage = "up"
    BY <1>5 DEF Served, Active
  <2>2. p # "server"
    BY <1>1, <2>1 DEF Halted
  <2> QED BY <2>1, <2>2 DEF Start
<1>6. Served'
  BY <1>1, <1>4, <1>5 DEF Served, Procs
<1> QED BY <1>2, <1>3, <1>6

LEMMA StopKeeps ==
  ASSUME SpeechInv, NEW p \in Procs, Stop(p)
  PROVE  SpeechInv'
<1> USE DEF SpeechInv
<1>1. UNCHANGED <<meta, allowed, disk, tmp, undeleted, keyed>> /\ proc' = [proc EXCEPT ![p] = Halted]
  BY DEF Stop
<1>2. CacheInv' /\ proc' \in [Procs -> Progress] /\ keyed' \in BOOLEAN
  BY StartsKeep
<1>3. \A q \in Procs : q # p => proc'[q] = proc[q]
  BY <1>1 DEF SpeechTyped
<1>4. CASE p = "server"
  <2>1. /\ ask' = [b \in Asks |-> IF ask[b].stage = "idle" THEN ask[b] ELSE [NotAsking EXCEPT !.stage = "lost"]]
        /\ owner' = [c \in Clips |-> NoAsk] /\ free' = Slots /\ line' = <<>> /\ task' = task
    BY <1>4 DEF Stop
  <2>2. \A b \in Asks : ask'[b] \in Reqs /\ ask'[b].stage \in {"idle", "lost"} /\ ask'[b].on = NoAsk
    <3> SUFFICES ASSUME NEW b \in Asks PROVE ask'[b] \in Reqs /\ ask'[b].stage \in {"idle", "lost"} /\ ask'[b].on = NoAsk
      OBVIOUS
    <3>1. ask[b] \in Reqs /\ (ask[b].stage = "idle" => ask[b].on = NoAsk)
      BY DEF AsksTyped, MakerInv, Awaits
    <3> QED BY <2>1, <3>1, NotAskingTyped
  <2>3. ask' \in [Asks -> Reqs]
    BY <2>1, <2>2
  <2>4. AsksTyped'
    BY <2>1, <2>2, <2>3, SpeechAssumption DEF AsksTyped, Active, Answered, Keyed, MakingStages, InSlot
  <2>5. Holders' = {} /\ \A c \in Clips : Making(c)' = {}
    BY <2>2 DEF Holders, Making, InSlot
  <2>6. MakerInv'
    <3>1. free' = Slots - Cardinality(Holders')
      BY <2>1, <2>5, FS_EmptySet, SpeechAssumption
    <3>2. \A c \in Clips : Making(c)' = {owner'[c]} \ {NoAsk}
      BY <2>1, <2>5
    <3>3. \A b \in Asks : Awaits(b)'
      BY <2>2 DEF Awaits
    <3> QED BY <2>1, <3>1, <3>2, <3>3 DEF MakerInv
  <2>7. Served' /\ TmpInv'
    BY <1>1, <1>3, <1>4, <2>1, <2>2 DEF Served, TmpInv, WholeOf, Active, Answered, Keyed, MakingStages, InSlot, Procs
  <2>8. SpeechTyped'
    BY <1>1, <1>2, <2>1 DEF SpeechTyped
  <2> QED BY <1>2, <2>4, <2>6, <2>7, <2>8
<1>5. CASE p # "server"
  <2>1. task' = [c \in Clips |-> "over"] /\ UNCHANGED <<ask, owner, free, line>> /\ proc'["server"] = proc["server"]
    BY <1>3, <1>5 DEF Stop, askVars, Procs
  <2>2. AsksTyped' /\ MakerInv' /\ SpeechTyped'
    BY <1>1, <1>2, <2>1 DEF SpeechTyped, AsksTyped, MakerInv, Making, Awaits, Holders, Queued
  <2>3. Served'
    BY <1>1, <2>1 DEF Served, InSlot
  <2>4. TmpInv'
    BY <2>1 DEF TmpInv, WholeOf, AsksTyped
  <2> QED BY <1>2, <2>2, <2>3, <2>4
<1> QED BY <1>4, <1>5

LEMMA ReleaseKeeps ==
  ASSUME SpeechInv, NewRelease
  PROVE  SpeechInv'
<1> USE DEF SpeechInv
<1>1. UNCHANGED <<tmp, undeleted, proc, keyed, ask, owner, free, line, task>> /\ \A p \in Procs : proc[p] = Halted
  BY DEF NewRelease, askVars
<1>2. /\ CacheInv' /\ meta' \in Metas /\ allowed' \subseteq allowed
      /\ disk' \in [Clips -> {"none", "damaged", "fresh", "stale"}]
  BY NewReleaseKeeps
<1>3. SpeechTyped' /\ AsksTyped' /\ MakerInv'
  BY <1>1, <1>2 DEF SpeechTyped, AsksTyped, MakerInv, Making, Awaits, Holders, Queued
<1>4. \A b \in Asks : ask[b].stage \notin Active
  BY <1>1 DEF Served, Halted, Procs
<1>5. \A c \in Clips : task[c] \notin InSlot
  BY <1>1 DEF Served, Halted, Procs
<1>6. Served'
  BY <1>1, <1>4, <1>5 DEF Served, Active
<1>7. TmpInv'
  BY <1>1, <1>4 DEF TmpInv, WholeOf, Active, Answered, Keyed, MakingStages, InSlot
<1> QED BY <1>2, <1>3, <1>6, <1>7

LEMMA SpeechStep == SpeechInv /\ [ReconcileNext \/ ClipNext]_speechVars => SpeechInv'
<1> SUFFICES ASSUME SpeechInv, [ReconcileNext \/ ClipNext]_speechVars PROVE SpeechInv'
  OBVIOUS
<1>1. ASSUME ReconcileNext PROVE SpeechInv'
  BY <1>1, ReleaseKeeps, StartKeeps, StopKeeps, ReconcilesKeep DEF ReconcileNext
<1>2. ASSUME ClipNext PROVE SpeechInv'
  <2>1. ASSUME NEW a \in Asks, AskSteps(a) PROVE SpeechInv'
    BY <2>1, LooksKeep, UnlinksKeep, WritesTmpKeep, RenamesKeep DEF AskSteps
  <2> QED BY <1>2, <2>1, AskClipKeeps, ScriptKeeps DEF ClipNext
<1>3. ASSUME UNCHANGED speechVars PROVE SpeechInv'
  <2>1. UNCHANGED <<meta, allowed, disk, tmp, undeleted, proc, keyed, ask, owner, free, line, task>>
    BY <1>3 DEF speechVars
  <2>2. SpeechTyped' /\ AsksTyped' /\ MakerInv' /\ TmpInv' /\ Served'
    BY <2>1 DEF SpeechInv, SpeechTyped, AsksTyped, MakerInv, Making, Awaits, Holders, Queued, TmpInv, WholeOf, Served
  <2>3. CacheInv'
    BY <2>1, FilesKeepCache DEF SpeechInv
  <2> QED BY <2>2, <2>3 DEF SpeechInv
<1> QED BY <1>1, <1>2, <1>3

LEMMA SpeechStart == SpeechInit => SpeechInv
<1> SUFFICES ASSUME SpeechInit PROVE SpeechInv
  OBVIOUS
<1>1. meta \in Metas /\ meta.changed = {}
  BY DEF SpeechInit, NoMeta, Current, Metas
<1>2. SpeechTyped
  <2>1. proc \in [Procs -> Progress]
    BY MetasTyped DEF SpeechInit
  <2> QED BY <1>1, <2>1 DEF SpeechInit, SpeechTyped
<1>3. \A a \in Asks : ask[a] = NotAsking /\ ask[a].stage = "idle" /\ ask[a].on = NoAsk
  BY NotAskingTyped DEF SpeechInit
<1>4. AsksTyped
  BY <1>3, NotAskingTyped, SpeechAssumption DEF SpeechInit, AsksTyped, Active, Answered, Keyed, MakingStages, InSlot
<1>5. Holders = {} /\ \A c \in Clips : Making(c) = {}
  BY <1>3 DEF Holders, Making, InSlot
<1>6. MakerInv
  <2>1. free = Slots - Cardinality(Holders)
    BY <1>5, FS_EmptySet, SpeechAssumption DEF SpeechInit
  <2>2. \A c \in Clips : Making(c) = {owner[c]} \ {NoAsk}
    BY <1>5 DEF SpeechInit
  <2> QED BY <1>3, <2>1, <2>2 DEF MakerInv, Awaits, SpeechInit
<1>7. Served /\ TmpInv
  BY <1>3 DEF SpeechInit, Served, TmpInv, WholeOf, Active, Answered, Keyed, MakingStages, InSlot
<1>8. Bad = {}
  BY DEF Bad, Existing, SpeechInit
<1>9. \A p \in Procs : proc[p].stage = "down" /\ proc[p].doomed = {}
  BY DEF SpeechInit, Halted
<1>10. CacheInv
  BY <1>1, <1>8, <1>9 DEF CacheInv, Revealed, FreshTrue, Knows, Settled, Grounds, Reconciled
<1> QED BY <1>2, <1>4, <1>6, <1>7, <1>10 DEF SpeechInv

\* What the invariant says.
LEMMA InvSpeechSound == SpeechInv => SpeechSound
<1> SUFFICES ASSUME SpeechInv PROVE SpeechSound
  OBVIOUS
<1>1. NothingStale /\ NothingWasted
  BY CacheTells DEF SpeechInv
<1>2. OneMaker
  BY DEF SpeechInv, MakerInv, OneMaker, Holders, InSlot
<1>3. NothingBroken
  BY DEF SpeechInv, TmpInv, WholeOf, NothingBroken, Is, Answered
<1> QED BY <1>1, <1>2, <1>3 DEF SpeechSound

\* Nothing old is heard, nothing is made again for nothing or by two at a time, and no
\* browser is sent a file that is cut short, whatever requests, releases, starts and
\* crashes of the server and of the script interleave (tts.service.ts, tts-generate.ts).
THEOREM SpeechIsSound == SpeechSpec => []SpeechSound
BY SpeechStart, SpeechStep, InvSpeechSound, PTL DEF SpeechSpec

-----------------------------------------------------------------------------
(* The members of the rally groups.                                       *)

-----------------------------------------------------------------------------
(* The members of a group: what the invariant says.                        *)

MembersSpec ==
  /\ MembersInit
  /\ [][(MembersNext /\ UNCHANGED numberVars) \/ (NumbersNext /\ UNCHANGED memberVars)]_rallyMemberVars

\* No two of a list have the same number.
Apart(o, all) == \A u, w \in all : u # w => o[u] # o[w]

\* The numbers are those from one to how many there are.
Closed(o, all) == {o[u] : u \in all} = 1..Cardinality(all)

Calling == {"ready", "over", "counted", "allowed", "written", "saved", "sorted"}
NamedStages == {"counted", "allowed", "written", "saved"}

MembersTyped ==
  /\ order \in [Captains -> 0..MaxMembers]
  /\ march \in [Captains -> Times]
  /\ override \in [Captains -> Times \cup {Unset}]

Rans == [stage : Calling, who : Captains \cup {NotRan.who}, count : 0..(MaxMembers - 1),
         to : Times \cup {Unset}, late : BOOLEAN]
RanTyped ==
  /\ ran \in [Calls -> Rans]
  /\ \A q \in Calls : ran[q].stage \in NamedStages => ran[q].who \in Captains

\* Who starts earlier is called by a smaller number, unless a time has changed.
InOrder ==
  ~unsorted => \A u, w \in Captains : order[u] # 0 /\ order[u] < order[w] => Effective(w) <= Effective(u)

\* What a request has counted are at least as many as there are now, and its captain is
\* still none of them, unless another one has changed the group.
Room(q) ==
  ran[q].stage = "counted" /\ ~ran[q].late =>
    /\ Cardinality(MembersOf(order)) <= ran[q].count
    /\ order[ran[q].who] = 0

MembersInv ==
  /\ MembersTyped /\ RanTyped
  /\ Apart(order, MembersOf(order))
  /\ ~gap => Closed(order, MembersOf(order))
  /\ InOrder /\ CalledInOrder
  /\ \A q \in Calls : Room(q)

-----------------------------------------------------------------------------
(* The order that sortMembersByMarchDesc leaves.                           *)

Before(o, m, v, a, b) ==
  \/ EffectiveBy(m, v, a) > EffectiveBy(m, v, b)
  \/ EffectiveBy(m, v, a) = EffectiveBy(m, v, b) /\ o[a] < o[b]
AheadOf(o, m, v, u) == {w \in MembersOf(o) : Before(o, m, v, w, u)}

LEMMA SortedPlace ==
  ASSUME NEW o, NEW m, NEW v, NEW u \in Captains
  PROVE  Sorted(o, m, v)[u] = IF o[u] = 0 THEN 0 ELSE 1 + Cardinality(AheadOf(o, m, v, u))
<1> QED BY DEF Sorted, AheadOf, Before

LEMMA EffectiveTyped ==
  ASSUME NEW m \in [Captains -> Times], NEW v \in [Captains -> Times \cup {Unset}], NEW u \in Captains
  PROVE  EffectiveBy(m, v, u) \in Nat
<1> QED BY RallyMembersAssumption DEF EffectiveBy

LEMMA MembersFinite ==
  ASSUME NEW o
  PROVE  IsFiniteSet(MembersOf(o)) /\ Cardinality(MembersOf(o)) \in Nat
<1>1. MembersOf(o) \in SUBSET Captains
  BY DEF MembersOf
<1> QED BY <1>1, FS_Subset, FS_CardinalityType, RallyMembersAssumption

\* A sorted group has the members it had, numbered from one on, and the slowest are first.
LEMMA SortedSound ==
  ASSUME NEW o \in [Captains -> Nat], Apart(o, MembersOf(o)), Cardinality(MembersOf(o)) <= MaxMembers,
         NEW m \in [Captains -> Times], NEW v \in [Captains -> Times \cup {Unset}]
  PROVE  /\ MembersOf(Sorted(o, m, v)) = MembersOf(o)
         /\ Sorted(o, m, v) \in [Captains -> 0..MaxMembers]
         /\ Apart(Sorted(o, m, v), MembersOf(o))
         /\ Closed(Sorted(o, m, v), MembersOf(o))
         /\ \A u, w \in Captains : Sorted(o, m, v)[u] # 0 /\ Sorted(o, m, v)[u] < Sorted(o, m, v)[w]
                                     => EffectiveBy(m, v, w) <= EffectiveBy(m, v, u)
<1> DEFINE s == Sorted(o, m, v)
           all == MembersOf(o)
           n == Cardinality(all)
           before(a, b) == Before(o, m, v, a, b)
<1>1. IsFiniteSet(all) /\ n \in Nat /\ MaxMembers \in Nat
  BY MembersFinite, RallyMembersAssumption
<1>2. \A u \in Captains : EffectiveBy(m, v, u) \in Nat /\ o[u] \in Nat
  BY EffectiveTyped
<1>3. \A u \in Captains : u \in all <=> o[u] # 0
  BY DEF MembersOf
<1>4. \A a \in Captains : ~before(a, a)
  BY <1>2 DEF Before
<1>5. \A a, b \in all : a # b => before(a, b) \/ before(b, a)
  BY <1>2, <1>3 DEF Before, Apart, MembersOf
<1>6. \A a, b, c \in Captains : before(a, b) /\ before(b, c) => before(a, c)
  BY <1>2 DEF Before
<1>7. \A u : AheadOf(o, m, v, u) \in SUBSET all
  BY DEF AheadOf
<1>8. \A u : IsFiniteSet(AheadOf(o, m, v, u)) /\ Cardinality(AheadOf(o, m, v, u)) \in Nat
  BY <1>1, <1>7, FS_Subset, FS_CardinalityType
<1>9. all \subseteq Captains
  BY DEF MembersOf
<1>10. ASSUME NEW u \in all PROVE s[u] \in Nat /\ s[u] \in 1..n
  <2>1. s[u] = 1 + Cardinality(AheadOf(o, m, v, u))
    BY <1>3, <1>9, SortedPlace
  <2>2. u \notin AheadOf(o, m, v, u)
    BY <1>4, <1>9 DEF AheadOf
  <2>3. Cardinality(AheadOf(o, m, v, u)) <= n /\ (n = Cardinality(AheadOf(o, m, v, u)) => all = AheadOf(o, m, v, u))
    BY <1>1, <1>7, FS_Subset
  <2> HIDE DEF n, all, s
  <2> QED BY <1>1, <1>8, <2>1, <2>2, <2>3
<1>11. ASSUME NEW a \in all, NEW b \in all, before(a, b) PROVE s[a] < s[b]
  <2>1. s[a] = 1 + Cardinality(AheadOf(o, m, v, a)) /\ s[b] = 1 + Cardinality(AheadOf(o, m, v, b))
    BY <1>3, <1>9, SortedPlace
  <2>2. AheadOf(o, m, v, a) \in SUBSET AheadOf(o, m, v, b)
    BY <1>6, <1>9, <1>11 DEF AheadOf
  <2>3. a \in AheadOf(o, m, v, b) /\ a \notin AheadOf(o, m, v, a)
    BY <1>4, <1>9, <1>11 DEF AheadOf
  <2>4. /\ Cardinality(AheadOf(o, m, v, a)) <= Cardinality(AheadOf(o, m, v, b))
        /\ Cardinality(AheadOf(o, m, v, b)) = Cardinality(AheadOf(o, m, v, a)) => AheadOf(o, m, v, b) = AheadOf(o, m, v, a)
    BY <1>8, <2>2, FS_Subset
  <2> HIDE DEF s
  <2> QED BY <1>8, <2>1, <2>3, <2>4
<1>12. \A u \in Captains : u \notin all => s[u] = 0
  BY <1>3, SortedPlace
<1>13. DOMAIN s = Captains
  BY DEF Sorted
<1>14. MembersOf(s) = all
  <2>1. \A u \in Captains : s[u] # 0 <=> u \in all
    <3> HIDE DEF s, all, n
    <3> QED BY <1>10, <1>12, <1>1
  <2> HIDE DEF s
  <2> QED BY <2>1 DEF MembersOf
<1>15. s \in [Captains -> 0..MaxMembers]
  <2>1. \A u \in Captains : s[u] \in 0..MaxMembers
    <3>1. n <= MaxMembers
      OBVIOUS
    <3> HIDE DEF s, all, n
    <3> QED BY <1>10, <1>12, <1>1, <3>1
  <2>2. s = [u \in Captains |-> s[u]]
    BY DEF Sorted
  <2> HIDE DEF s
  <2> QED BY <2>1, <2>2
<1>16. \A x, y \in all : x # y => s[x] # s[y]
  <2> SUFFICES ASSUME NEW x \in all, NEW y \in all, x # y PROVE s[x] # s[y]
    OBVIOUS
  <2>1. s[x] < s[y] \/ s[y] < s[x]
    BY <1>5, <1>11
  <2>2. s[x] \in Nat /\ s[y] \in Nat
    BY <1>10
  <2> HIDE DEF s
  <2> QED BY <2>1, <2>2
<1>17. {s[x] : x \in all} = 1..n
  <2>1. \A x \in all : s[x] \in 1..n
    BY <1>10
  <2>2. n = Cardinality(all)
    OBVIOUS
  <2> HIDE DEF s, all, n
  <2> QED BY <1>1, <1>16, <2>1, <2>2, PlacesFill
<1>18. ASSUME NEW u \in Captains, NEW w \in Captains, s[u] # 0, s[u] < s[w]
       PROVE  EffectiveBy(m, v, w) <= EffectiveBy(m, v, u)
  <2>1. u \in all
    BY <1>12, <1>18
  <2>2. s[u] \in Nat /\ s[u] > 0
    <3> HIDE DEF s, n, all
    <3> QED BY <1>1, <1>10, <2>1
  <2>3. w \in all
    <3>1. s[w] # 0
      <4> HIDE DEF s
      <4> QED BY <1>18, <2>2
    <3> QED BY <1>12, <3>1
  <2>4. s[w] \in Nat
    BY <1>10, <2>3
  <2>5. ~before(w, u)
    <3>1. ~(s[w] < s[u])
      <4> HIDE DEF s
      <4> QED BY <1>18, <2>2, <2>4
    <3> QED BY <1>11, <2>1, <2>3, <3>1
  <2> QED BY <1>2, <2>5 DEF Before
<1> QED BY <1>14, <1>15, <1>16, <1>17, <1>18 DEF Apart, Closed

LEMMA MembersFit ==
  ASSUME NEW o \in [Captains -> 0..MaxMembers], Apart(o, MembersOf(o))
  PROVE  Cardinality(MembersOf(o)) <= MaxMembers
<1>1. MaxMembers \in Nat /\ IsFiniteSet(MembersOf(o))
  BY RallyMembersAssumption, MembersFinite
<1>2. \A x \in MembersOf(o) : o[x] \in 1..MaxMembers
  BY <1>1 DEF MembersOf
<1> QED BY <1>1, <1>2, PlacesFill DEF Apart

\* What holds after a group was sorted.
LEMMA Resorted ==
  ASSUME NEW o \in [Captains -> 0..MaxMembers], Apart(o, MembersOf(o)),
         NEW m \in [Captains -> Times], NEW v \in [Captains -> Times \cup {Unset}],
         march' = m, override' = v, Reordered(o, m, v)
  PROVE  /\ MembersTyped' /\ MembersOf(order') = MembersOf(o)
         /\ Apart(order, MembersOf(order))'
         /\ Closed(order, MembersOf(order))'
         /\ InOrder'
<1>1. Cardinality(MembersOf(o)) <= MaxMembers /\ o \in [Captains -> Nat]
  BY MembersFit, RallyMembersAssumption
<1>2. order' = Sorted(o, m, v) /\ unsorted' = FALSE
  BY DEF Reordered
<1>3. /\ MembersOf(Sorted(o, m, v)) = MembersOf(o)
      /\ Sorted(o, m, v) \in [Captains -> 0..MaxMembers]
      /\ Apart(Sorted(o, m, v), MembersOf(o))
      /\ Closed(Sorted(o, m, v), MembersOf(o))
      /\ \A u, w \in Captains : Sorted(o, m, v)[u] # 0 /\ Sorted(o, m, v)[u] < Sorted(o, m, v)[w]
                                  => EffectiveBy(m, v, w) <= EffectiveBy(m, v, u)
  BY <1>1, SortedSound
<1>4. PICK s : s = Sorted(o, m, v)
  OBVIOUS
<1>5. order' = s /\ MembersOf(s) = MembersOf(o) /\ s \in [Captains -> 0..MaxMembers]
  BY <1>2, <1>3, <1>4
<1>6. /\ Apart(s, MembersOf(s)) /\ Closed(s, MembersOf(s))
      /\ \A u, w \in Captains : s[u] # 0 /\ s[u] < s[w] => EffectiveBy(m, v, w) <= EffectiveBy(m, v, u)
  BY <1>3, <1>4, <1>5
<1>7. Apart(order, MembersOf(order))'
  BY <1>5, <1>6 DEF Apart, MembersOf
<1>8. Closed(order, MembersOf(order))'
  BY <1>5, <1>6 DEF Closed, MembersOf
<1>9. InOrder'
  BY <1>5, <1>6 DEF InOrder, Effective
<1>10. MembersTyped'
  BY <1>5 DEF MembersTyped
<1> QED BY <1>5, <1>7, <1>8, <1>9, <1>10

-----------------------------------------------------------------------------
(* The requests.                                                           *)

LEMMA NotRanTyped == NotRan \in Rans /\ Over \in Rans /\ NotRan.stage = "ready" /\ Over.stage = "over"
<1>1. MaxMembers \in Nat \ {0} /\ 0 \in 0..(MaxMembers - 1)
  BY RallyMembersAssumption
<1> QED BY <1>1 DEF NotRan, Over, Rans, Calling

\* A request goes on, and what was counted stays as it is.
LEMMA RanStep ==
  ASSUME RanTyped, NEW q \in Calls, NEW stage \in Calling \ {"counted"}, Step(q, stage),
         stage \in NamedStages => ran[q].stage \in NamedStages
  PROVE  RanTyped' /\ \A p \in Calls : ran'[p].stage = "counted" => ran'[p] = ran[p]
<1>1. ran[q] \in Rans
  BY DEF RanTyped
<1>2. PICK n : n = IF stage = "over" THEN Over ELSE [ran[q] EXCEPT !.stage = stage]
  OBVIOUS
<1>3. n \in Rans /\ n.stage = stage /\ (stage # "over" => n.who = ran[q].who)
  BY <1>1, <1>2, NotRanTyped DEF Rans
<1>4. ran' = [ran EXCEPT ![q] = n]
  BY <1>2 DEF Step
<1>5. stage \in NamedStages => n.who \in Captains
  BY <1>3 DEF RanTyped, NamedStages
<1> QED BY <1>3, <1>4, <1>5 DEF RanTyped

\* A request has changed the group: what others have counted is late.
LEMMA Overtakes ==
  ASSUME RanTyped, NEW q \in Calls, Overtaken(q)
  PROVE  RanTyped' /\ \A p \in Calls : ran'[p].stage = "counted" => ran'[p].late
<1>1. ran' = [p \in Calls |-> IF p = q THEN Over ELSE [ran[p] EXCEPT !.late = @ \/ At(p, "counted")]]
  BY DEF Overtaken
<1>2. ASSUME NEW p \in Calls
      PROVE  /\ ran'[p] \in Rans
             /\ ran'[p].stage \in NamedStages => ran'[p].who \in Captains
             /\ ran'[p].stage = "counted" => ran'[p].late
  <2>1. CASE p = q
    BY <1>1, <2>1, NotRanTyped DEF NamedStages
  <2>2. CASE p # q
    <3>1. ran[p] \in Rans /\ (ran[p].stage \in NamedStages => ran[p].who \in Captains)
      BY DEF RanTyped
    <3>2. PICK b \in BOOLEAN : b = (ran[p].late \/ ran[p].stage = "counted")
      BY <3>1 DEF Rans
    <3>3. ran'[p] = [ran[p] EXCEPT !.late = b]
      <4>1. (ran[p].late \/ At(p, "counted")) = b
        BY <3>2 DEF At
      <4> QED BY <1>1, <2>2, <4>1
    <3>4. ran'[p] \in Rans /\ ran'[p].stage = ran[p].stage /\ ran'[p].who = ran[p].who /\ ran'[p].late = b
      BY <3>1, <3>3 DEF Rans
    <3> QED BY <3>1, <3>2, <3>4
  <2> QED BY <2>1, <2>2
<1>3. ran' \in [Calls -> Rans]
  BY <1>1, <1>2
<1> QED BY <1>2, <1>3 DEF RanTyped

-----------------------------------------------------------------------------
(* Every step keeps the invariant.                                         *)

\* As long as nobody joins, there is room for whom there was.
LEMMA RoomStays ==
  ASSUME MembersInv, \A p \in Calls : ran'[p].stage = "counted" => ran'[p] = ran[p],
         order' \in [Captains -> 0..MaxMembers], MembersOf(order') \subseteq MembersOf(order)
  PROVE  \A p \in Calls : Room(p)'
<1> SUFFICES ASSUME NEW p \in Calls, ran'[p].stage = "counted", ~ran'[p].late
             PROVE  Cardinality(MembersOf(order')) <= ran'[p].count /\ order'[ran'[p].who] = 0
  BY DEF Room, MembersOf
<1>1. ran'[p] = ran[p] /\ ran[p] \in Rans /\ ran[p].who \in Captains
  BY DEF MembersInv, RanTyped, NamedStages
<1>2. Cardinality(MembersOf(order)) <= ran[p].count /\ order[ran[p].who] = 0
  BY <1>1 DEF MembersInv, Room
<1>3. Cardinality(MembersOf(order')) <= Cardinality(MembersOf(order)) /\ Cardinality(MembersOf(order')) \in Nat
  BY MembersFinite, FS_Subset
<1>4. Cardinality(MembersOf(order)) \in Nat /\ ran[p].count \in Nat
  BY <1>1, MembersFinite, RallyMembersAssumption DEF Rans
<1>5. Cardinality(MembersOf(order')) <= ran[p].count
  BY <1>2, <1>3, <1>4
<1>6. PICK u \in Captains : u = ran[p].who
  BY <1>1
<1>7. order'[u] = 0
  BY <1>2, <1>6 DEF MembersOf
<1> QED BY <1>1, <1>5, <1>6, <1>7

\* A sort while nobody joins.
LEMMA SortKeeps ==
  ASSUME MembersInv, NEW q \in Calls, NEW stage \in Calling \ {"counted"}, Step(q, stage),
         stage \in NamedStages => ran[q].stage \in NamedStages,
         Reordered(order, march, override), keepsGroup, keepsTimes
  PROVE  MembersInv'
<1>1. PICK o, m, v : o = order /\ m = march /\ v = override
  OBVIOUS
<1>2. /\ o \in [Captains -> 0..MaxMembers] /\ m \in [Captains -> Times] /\ v \in [Captains -> Times \cup {Unset}]
      /\ Apart(o, MembersOf(o))
  BY <1>1 DEF MembersInv, MembersTyped, Apart, MembersOf
<1>3. march' = m /\ override' = v /\ Reordered(o, m, v)
  BY <1>1 DEF keepsTimes, Reordered
<1>4. /\ MembersTyped' /\ MembersOf(order') = MembersOf(o)
      /\ Apart(order, MembersOf(order))' /\ Closed(order, MembersOf(order))' /\ InOrder'
  BY <1>2, <1>3, Resorted
<1>5. RanTyped' /\ \A p \in Calls : ran'[p].stage = "counted" => ran'[p] = ran[p]
  BY RanStep DEF MembersInv
<1>6. \A p \in Calls : Room(p)'
  BY <1>1, <1>4, <1>5, RoomStays DEF MembersTyped
<1>7. CalledInOrder'
  BY DEF MembersInv, CalledInOrder, keepsGroup
<1> QED BY <1>4, <1>5, <1>6, <1>7 DEF MembersInv

\* A change of the members that sorts them.
LEMMA ChangeKeeps ==
  ASSUME MembersInv, NEW q \in Calls, Overtaken(q),
         NEW o \in [Captains -> 0..MaxMembers], Apart(o, MembersOf(o)),
         NEW v \in [Captains -> Times \cup {Unset}], override' = v, Reordered(o, march, v),
         keepsGroup, UNCHANGED march
  PROVE  MembersInv'
<1>1. PICK m : m = march
  OBVIOUS
<1>2. m \in [Captains -> Times] /\ march' = m /\ Reordered(o, m, v)
  BY <1>1 DEF MembersInv, MembersTyped, Reordered
<1>3. /\ MembersTyped' /\ Apart(order, MembersOf(order))' /\ Closed(order, MembersOf(order))' /\ InOrder'
  BY <1>2, Resorted
<1>4. RanTyped' /\ \A p \in Calls : ran'[p].stage = "counted" => ran'[p].late
  BY Overtakes DEF MembersInv
<1>5. CalledInOrder'
  BY DEF MembersInv, CalledInOrder, keepsGroup
<1> QED BY <1>3, <1>4, <1>5 DEF MembersInv, Room

\* A request goes on and changes neither places nor times.
LEMMA RestKeeps ==
  ASSUME MembersInv, RanTyped', \A p \in Calls : ran'[p].stage = "counted" => ran'[p] = ran[p],
         keepsTimes, keepsOrder, CalledInOrder'
  PROVE  MembersInv'
<1>1. MembersTyped' /\ InOrder' /\ Apart(order, MembersOf(order))' /\ (~gap => Closed(order, MembersOf(order)))'
  BY DEF MembersInv, MembersTyped, keepsTimes, keepsOrder, InOrder, Effective, Apart, Closed, MembersOf
<1>2. \A p \in Calls : Room(p)'
  BY RoomStays DEF MembersInv, MembersTyped, keepsOrder
<1> QED BY <1>1, <1>2 DEF MembersInv

\* A time has changed, and nothing else of the members.
LEMMA TimeKeeps ==
  ASSUME MembersInv, RanTyped', \A p \in Calls : ran'[p].stage = "counted" => ran'[p] = ran[p],
         march' \in [Captains -> Times], override' \in [Captains -> Times \cup {Unset}],
         unsorted' = TRUE, UNCHANGED <<order, gap>>, keepsGroup
  PROVE  MembersInv'
<1>1. MembersTyped' /\ InOrder' /\ Apart(order, MembersOf(order))' /\ (~gap => Closed(order, MembersOf(order)))'
  BY DEF MembersInv, MembersTyped, InOrder, Apart, Closed, MembersOf
<1>2. \A p \in Calls : Room(p)'
  BY RoomStays DEF MembersInv, MembersTyped
<1>3. CalledInOrder'
  BY DEF MembersInv, CalledInOrder, keepsGroup
<1> QED BY <1>1, <1>2, <1>3 DEF MembersInv

-----------------------------------------------------------------------------
(* What each request does.                                                 *)

\* A time that some member has is the longest, if the group is sorted.
LEMMA SlowestIsFirst ==
  ASSUME MembersInv, ~unsorted, NEW x \in MembersOf(order)
  PROVE  \E t \in {0} \cup {Effective(u) : u \in MembersOf(order)} : \A u \in MembersOf(order) : Effective(u) <= t
<1> DEFINE numbers == {order[u] : u \in MembersOf(order)}
<1>1. order \in [Captains -> 0..MaxMembers] /\ MaxMembers \in Nat /\ MembersOf(order) \subseteq Captains
  BY RallyMembersAssumption DEF MembersInv, MembersTyped, MembersOf
<1>2. numbers \in SUBSET Nat /\ numbers # {}
  BY <1>1
<1>3. PICK n \in numbers : \A k \in numbers : ~(k < n)
  <2> HIDE DEF numbers
  <2> QED BY <1>2, NatMin
<1>4. PICK f \in MembersOf(order) : order[f] = n
  BY <1>3
<1>5. \A u \in Captains : Effective(u) \in Nat
  BY EffectiveTyped DEF MembersInv, MembersTyped, Effective
<1>6. ASSUME NEW u \in MembersOf(order) PROVE Effective(u) <= Effective(f)
  <2>1. CASE u = f
    BY <1>1, <1>5, <2>1
  <2>2. CASE u # f
    <3>1. order[u] # order[f] /\ ~(order[u] < order[f])
      BY <1>3, <1>4, <2>2 DEF MembersInv, Apart
    <3>2. order[u] \in Nat /\ order[f] \in Nat /\ order[f] # 0
      BY <1>1 DEF MembersOf
    <3>3. order[f] < order[u]
      BY <3>1, <3>2
    <3> QED BY <1>1, <3>2, <3>3 DEF MembersInv, InOrder
  <2> QED BY <2>1, <2>2
<1> QED BY <1>6

\* What is announced is in order.
LEMMA ScheduleInOrder ==
  ASSUME MembersInv, announced' = Schedule
  PROVE  CalledInOrder'
<1> SUFFICES ASSUME announced'.sorted, NEW u \in Captains, NEW w \in Captains,
                    announced'.calls[u].order # 0, announced'.calls[u].order < announced'.calls[w].order
             PROVE  announced'.calls[u].offset <= announced'.calls[w].offset
  BY DEF CalledInOrder
<1> DEFINE slowest == CHOOSE t \in {0} \cup {Effective(x) : x \in MembersOf(order)} : \A x \in MembersOf(order) : Effective(x) <= t
<1>1. announced' = [sorted |-> ~unsorted,
                    calls |-> [x \in Captains |-> IF order[x] = 0 THEN Nobody ELSE [order |-> order[x], offset |-> slowest - Effective(x)]]]
  BY DEF Schedule
<1> HIDE DEF slowest
<1>2. ~unsorted
  <2>1. announced'.sorted = ~unsorted
    <3>1. PICK c : announced' = [sorted |-> ~unsorted, calls |-> c]
      BY <1>1, Zenon
    <3>3. PICK b : b = (~unsorted)
      OBVIOUS
    <3>4. announced' = [sorted |-> b, calls |-> c]
      BY <3>1, <3>3
    <3>5. announced'.sorted = b
      BY <3>4
    <3> QED BY <3>3, <3>5
  <2> QED BY <2>1
<1>3. \A x \in Captains : announced'.calls[x] = IF order[x] = 0 THEN Nobody ELSE [order |-> order[x], offset |-> slowest - Effective(x)]
  <2>1. announced'.calls = [x \in Captains |-> IF order[x] = 0 THEN Nobody ELSE [order |-> order[x], offset |-> slowest - Effective(x)]]
    BY <1>1
  <2> QED BY <2>1
<1>4. order \in [Captains -> 0..MaxMembers] /\ MaxMembers \in Nat
  BY RallyMembersAssumption DEF MembersInv, MembersTyped
<1>5. order[u] # 0 /\ announced'.calls[u] = [order |-> order[u], offset |-> slowest - Effective(u)]
  BY <1>3 DEF Nobody
<1>6. order[w] # 0 /\ announced'.calls[w] = [order |-> order[w], offset |-> slowest - Effective(w)]
  <2>1. announced'.calls[u].order \in Nat \ {0}
    BY <1>4, <1>5
  <2>2. announced'.calls[w].order # 0
    <3>1. CASE order[w] = 0
      <4>1. announced'.calls[w].order = 0
        <5>1. announced'.calls[w] = Nobody /\ Nobody.order = 0
          BY <1>3, <3>1 DEF Nobody
        <5> QED BY <5>1
      <4> QED BY <2>1, <4>1
    <3> QED BY <3>1, <1>3, <1>4, <2>1
  <2> QED BY <1>3, <2>2 DEF Nobody
<1>7. order[u] < order[w]
  BY <1>5, <1>6
<1>8. Effective(w) <= Effective(u)
  BY <1>2, <1>5, <1>7 DEF MembersInv, InOrder
<1>9. \A x \in Captains : Effective(x) \in Nat
  BY EffectiveTyped DEF MembersInv, MembersTyped, Effective
<1>10. slowest \in Nat
  <2>1. u \in MembersOf(order) /\ MembersOf(order) \subseteq Captains
    BY <1>5 DEF MembersOf
  <2>2. slowest \in {0} \cup {Effective(x) : x \in MembersOf(order)}
    BY <1>2, <2>1, SlowestIsFirst DEF slowest
  <2> QED BY <1>9, <2>1, <2>2
<1>11. slowest - Effective(u) <= slowest - Effective(w)
  BY <1>8, <1>9, <1>10
<1> QED BY <1>5, <1>6, <1>11

LEMMA AddCountsKeeps ==
  ASSUME MembersInv, NEW q \in Calls, NEW u \in Captains, AddCounts(q, u)
  PROVE  MembersInv'
<1> DEFINE n == Cardinality(MembersOf(order))
           counted == [NotRan EXCEPT !.stage = "counted", !.who = u, !.count = n]
<1>1. ran' = [ran EXCEPT ![q] = IF n < MaxMembers /\ order[u] = 0 THEN counted ELSE Over]
  BY DEF AddCounts
<1>2. keepsTimes /\ keepsOrder /\ announced' = announced
  BY DEF AddCounts, keepsGroup
<1>3. n \in Nat /\ MaxMembers \in Nat
  BY MembersFinite, RallyMembersAssumption
<1>4. n < MaxMembers => counted \in Rans
  <2>1. n < MaxMembers => n \in 0..(MaxMembers - 1)
    BY <1>3
  <2> HIDE DEF n
  <2> QED BY <2>1, NotRanTyped DEF Rans, Calling
<1>5. counted.stage = "counted" /\ counted.who = u /\ counted.count = n /\ ~counted.late
  <2> HIDE DEF n
  <2> QED BY DEF NotRan
<1>6. RanTyped'
  <2> HIDE DEF n, counted
  <2>1. (IF n < MaxMembers /\ order[u] = 0 THEN counted ELSE Over) \in Rans
    BY <1>4, NotRanTyped
  <2> QED BY <1>1, <1>5, <2>1, NotRanTyped DEF MembersInv, RanTyped, NamedStages
<1>7. MembersTyped' /\ InOrder' /\ Apart(order, MembersOf(order))' /\ (~gap => Closed(order, MembersOf(order)))'
  BY <1>2 DEF MembersInv, MembersTyped, keepsTimes, keepsOrder, InOrder, Effective, Apart, Closed, MembersOf
<1>8. CalledInOrder'
  BY <1>2 DEF MembersInv, CalledInOrder
<1>9. \A p \in Calls : Room(p)'
  <2> SUFFICES ASSUME NEW p \in Calls, ran'[p].stage = "counted", ~ran'[p].late
               PROVE  n <= ran'[p].count /\ order[ran'[p].who] = 0
    BY <1>2 DEF Room, MembersOf, keepsOrder
  <2>1. CASE p # q
    <3>1. ran'[p] = ran[p]
      BY <1>1, <2>1 DEF MembersInv, RanTyped
    <3> QED BY <3>1 DEF MembersInv, Room
  <2>2. CASE p = q
    <3> HIDE DEF n, counted
    <3>1. ran'[p] = (IF n < MaxMembers /\ order[u] = 0 THEN counted ELSE Over)
      BY <1>1, <2>2 DEF MembersInv, RanTyped
    <3>2. order[u] = 0 /\ ran'[p] = counted
      BY <3>1, NotRanTyped
    <3> QED BY <1>3, <1>5, <3>2
  <2> QED BY <2>1, <2>2
<1> QED BY <1>6, <1>7, <1>8, <1>9 DEF MembersInv

LEMMA AddInsertsKeeps ==
  ASSUME MembersInv, NEW q \in Calls, AddInserts(q)
  PROVE  MembersInv'
<1>1. ran[q] \in Rans /\ ran[q].stage = "counted" /\ ran[q].who \in Captains
  BY DEF MembersInv, RanTyped, AddInserts, At, NamedStages
<1>2. CASE Taken(q)
  <2>1. Step(q, "over") /\ keepsTimes /\ keepsOrder /\ keepsGroup
    BY <1>2 DEF AddInserts
  <2>2. RanTyped' /\ \A p \in Calls : ran'[p].stage = "counted" => ran'[p] = ran[p]
    BY <2>1, RanStep DEF MembersInv, Calling, NamedStages
  <2>3. CalledInOrder'
    BY <2>1 DEF MembersInv, CalledInOrder, keepsGroup
  <2> QED BY <2>1, <2>2, <2>3, RestKeeps
<1>3. CASE ~Taken(q)
  <2>1. PICK u \in Captains : u = ran[q].who
    BY <1>1
  <2>2. PICK n : n = NewIndex(q)
    OBVIOUS
  <2>3. PICK v : v = [override EXCEPT ![u] = Unset]
    OBVIOUS
  <2>4. PICK o : o = [order EXCEPT ![u] = n]
    OBVIOUS
  <2>5. n \in 1..MaxMembers
    BY <1>1, <2>2, RallyMembersAssumption DEF NewIndex, Rans
  <2>6. \A w \in Captains : order[w] # n
    BY <1>3, <2>2 DEF Taken
  <2>7. order \in [Captains -> 0..MaxMembers] /\ MaxMembers \in Nat
    BY RallyMembersAssumption DEF MembersInv, MembersTyped
  <2>8. o \in [Captains -> 0..MaxMembers]
    BY <2>4, <2>5, <2>7
  <2>9. \A w \in Captains : o[w] = IF w = u THEN n ELSE order[w]
    BY <2>4, <2>7
  <2>10. Apart(o, MembersOf(o))
    BY <2>6, <2>9 DEF MembersInv, Apart, MembersOf
  <2>11. v \in [Captains -> Times \cup {Unset}]
    BY <2>3 DEF MembersInv, MembersTyped
  <2>12. Reordered(o, march, v) /\ override' = v /\ Overtaken(q) /\ UNCHANGED march /\ keepsGroup
    BY <1>3, <2>1, <2>2, <2>3, <2>4 DEF AddInserts, Reordered
  <2> QED BY <2>8, <2>10, <2>11, <2>12, ChangeKeeps
<1> QED BY <1>2, <1>3

LEMMA RemoveMemberKeeps ==
  ASSUME MembersInv, NEW q \in Calls, NEW u \in Captains, RemoveMember(q, u)
  PROVE  MembersInv'
<1>1. PICK o : o = [order EXCEPT ![u] = 0]
  OBVIOUS
<1>2. PICK v : v = override
  OBVIOUS
<1>3. order \in [Captains -> 0..MaxMembers] /\ MaxMembers \in Nat
  BY RallyMembersAssumption DEF MembersInv, MembersTyped
<1>4. o \in [Captains -> 0..MaxMembers] /\ \A w \in Captains : o[w] = IF w = u THEN 0 ELSE order[w]
  BY <1>1, <1>3
<1>5. Apart(o, MembersOf(o))
  BY <1>4 DEF MembersInv, Apart, MembersOf
<1>6. v \in [Captains -> Times \cup {Unset}] /\ override' = v /\ Reordered(o, march, v)
  BY <1>1, <1>2 DEF RemoveMember, keepsTimes, MembersInv, MembersTyped, Reordered
<1>7. Overtaken(q) /\ keepsGroup /\ UNCHANGED march
  BY DEF RemoveMember, keepsTimes
<1> QED BY <1>4, <1>5, <1>6, <1>7, ChangeKeeps

LEMMA AccountGoesKeeps ==
  ASSUME MembersInv, NEW u \in Captains, AccountGoes(u)
  PROVE  MembersInv'
<1>1. order' = [order EXCEPT ![u] = 0] /\ gap' = (gap \/ order[u] # 0)
      /\ UNCHANGED <<running, announced, ran, unsorted, march, override>>
  BY DEF AccountGoes, keepsTimes
<1>2. order \in [Captains -> 0..MaxMembers] /\ MaxMembers \in Nat
  BY RallyMembersAssumption DEF MembersInv, MembersTyped
<1>3. order' \in [Captains -> 0..MaxMembers] /\ \A w \in Captains : order'[w] = IF w = u THEN 0 ELSE order[w]
  BY <1>1, <1>2
<1>4. MembersOf(order') \subseteq MembersOf(order)
  BY <1>3 DEF MembersOf
<1>5. Apart(order, MembersOf(order))'
  BY <1>3 DEF MembersInv, Apart, MembersOf
<1>6. (~gap => Closed(order, MembersOf(order)))'
  <2> SUFFICES ASSUME ~gap' PROVE Closed(order, MembersOf(order))'
    OBVIOUS
  <2>1. order[u] = 0 /\ ~gap
    BY <1>1
  <2>2. order' = order
    BY <1>1, <1>2, <2>1
  <2> QED BY <2>1, <2>2 DEF MembersInv, Closed, MembersOf
<1>7. InOrder'
  <2> SUFFICES ASSUME ~unsorted', NEW x \in Captains, NEW y \in Captains, order'[x] # 0, order'[x] < order'[y]
               PROVE  Effective(y)' <= Effective(x)'
    BY DEF InOrder
  <2>1. order'[x] = order[x] /\ order[x] \in Nat \ {0} /\ order'[y] \in Nat
    BY <1>2, <1>3
  <2>2. order'[y] # 0
    BY <2>1
  <2>3. order'[y] = order[y] /\ order[x] < order[y]
    BY <1>3, <2>1, <2>2
  <2>4. Effective(y) <= Effective(x)
    BY <1>1, <2>1, <2>3 DEF MembersInv, InOrder
  <2> QED BY <1>1, <2>4 DEF Effective, EffectiveBy
<1>8. \A p \in Calls : Room(p)'
  BY <1>1, <1>3, <1>4, RoomStays
<1>9. MembersTyped' /\ RanTyped' /\ CalledInOrder'
  BY <1>1, <1>3 DEF MembersInv, MembersTyped, RanTyped, CalledInOrder
<1> QED BY <1>5, <1>6, <1>7, <1>8, <1>9 DEF MembersInv

\* A request that has checked goes on with what it was asked for.
LEMMA Checks ==
  ASSUME RanTyped, NEW q \in Calls, NEW n \in Rans, ran' = [ran EXCEPT ![q] = n], n.stage # "counted",
         n.stage \in NamedStages => n.who \in Captains
  PROVE  RanTyped' /\ \A p \in Calls : ran'[p].stage = "counted" => ran'[p] = ran[p]
<1> QED BY DEF RanTyped

LEMMA OverridesKeep ==
  ASSUME MembersInv, NEW q \in Calls,
         OverrideWrites(q) \/ \E u \in Captains, t \in Times \cup {Unset} : OverrideChecks(q, u, t)
  PROVE  MembersInv'
<1>1. ASSUME NEW u \in Captains, NEW t \in Times \cup {Unset}, OverrideChecks(q, u, t) PROVE MembersInv'
  <2>1. PICK n : n = IF running THEN Over ELSE [NotRan EXCEPT !.stage = "allowed", !.who = u, !.to = t]
    OBVIOUS
  <2>2. n \in Rans /\ n.stage # "counted" /\ (n.stage \in NamedStages => n.who \in Captains)
    BY <2>1, NotRanTyped DEF Rans, Calling, NamedStages
  <2>3. ran' = [ran EXCEPT ![q] = n] /\ keepsTimes /\ keepsOrder
    BY <1>1, <2>1, Zenon DEF OverrideChecks
  <2>4. CalledInOrder'
    BY <1>1, Zenon DEF OverrideChecks, keepsGroup, MembersInv, CalledInOrder
  <2>5. RanTyped' /\ \A p \in Calls : ran'[p].stage = "counted" => ran'[p] = ran[p]
    BY <2>2, <2>3, Checks DEF MembersInv
  <2> QED BY <2>3, <2>4, <2>5, RestKeeps
<1>2. ASSUME OverrideWrites(q) PROVE MembersInv'
  <2>1. ran[q] \in Rans /\ ran[q].stage = "allowed" /\ ran[q].who \in Captains
    BY <1>2 DEF MembersInv, RanTyped, OverrideWrites, At, NamedStages
  <2>2. RanTyped' /\ \A p \in Calls : ran'[p].stage = "counted" => ran'[p] = ran[p]
    BY <1>2, <2>1, RanStep DEF MembersInv, OverrideWrites, Calling, NamedStages
  <2>3. override' \in [Captains -> Times \cup {Unset}]
    BY <1>2, <2>1 DEF OverrideWrites, MembersInv, MembersTyped, Rans
  <2>4. march' \in [Captains -> Times]
    BY <1>2 DEF OverrideWrites, MembersInv, MembersTyped
  <2> QED BY <1>2, <2>2, <2>3, <2>4, TimeKeeps DEF OverrideWrites
<1> QED BY <1>1, <1>2

LEMMA SettingsKeep ==
  ASSUME MembersInv, NEW q \in Calls,
         SettingsCheck(q) \/ \E u \in Captains, t \in Times : SettingsWrite(q, u, t)
  PROVE  MembersInv'
<1>1. ASSUME NEW u \in Captains, NEW t \in Times, SettingsWrite(q, u, t) PROVE MembersInv'
  <2>1. PICK n : n = [NotRan EXCEPT !.stage = "saved", !.who = u]
    OBVIOUS
  <2>2. n \in Rans /\ n.stage # "counted" /\ (n.stage \in NamedStages => n.who \in Captains)
    BY <2>1, NotRanTyped DEF Rans, Calling, NamedStages
  <2>3. ran' = [ran EXCEPT ![q] = n]
    BY <1>1, <2>1, Zenon DEF SettingsWrite
  <2>4. RanTyped' /\ \A p \in Calls : ran'[p].stage = "counted" => ran'[p] = ran[p]
    BY <2>2, <2>3, Checks DEF MembersInv
  <2>5. march' \in [Captains -> Times] /\ override' \in [Captains -> Times \cup {Unset}]
    BY <1>1, Zenon DEF SettingsWrite, MembersInv, MembersTyped
  <2> QED BY <1>1, <2>4, <2>5, TimeKeeps, Zenon DEF SettingsWrite
<1>2. ASSUME SettingsCheck(q) PROVE MembersInv'
  <2>1. PICK stage \in {"over", "written"} : Step(q, stage)
    BY <1>2 DEF SettingsCheck
  <2>2. ran[q].stage = "saved" /\ keepsGroup /\ keepsTimes /\ keepsOrder
    BY <1>2 DEF SettingsCheck, At
  <2>3. RanTyped' /\ \A p \in Calls : ran'[p].stage = "counted" => ran'[p] = ran[p]
    BY <2>1, <2>2, RanStep DEF MembersInv, Calling, NamedStages
  <2>4. CalledInOrder'
    BY <2>2 DEF MembersInv, CalledInOrder, keepsGroup
  <2> QED BY <2>2, <2>3, <2>4, RestKeeps
<1> QED BY <1>1, <1>2

LEMMA CountdownKeeps ==
  ASSUME MembersInv, StopGroup \/ \E q \in Calls : StartSorts(q) \/ StartLoads(q) \/ Sorts(q)
  PROVE  MembersInv'
<1>1. ASSUME StopGroup PROVE MembersInv'
  <2>1. CalledInOrder'
    BY <1>1 DEF StopGroup, CalledInOrder, Silence, Nobody
  <2>2. RanTyped' /\ (\A p \in Calls : ran'[p].stage = "counted" => ran'[p] = ran[p]) /\ keepsTimes /\ keepsOrder
    BY <1>1 DEF StopGroup, MembersInv, RanTyped
  <2> QED BY <2>1, <2>2, RestKeeps
<1>2. ASSUME NEW q \in Calls, StartSorts(q) PROVE MembersInv'
  BY <1>2, SortKeeps DEF StartSorts, Calling, NamedStages
<1>3. ASSUME NEW q \in Calls, Sorts(q) PROVE MembersInv'
  BY <1>3, SortKeeps DEF Sorts, Calling, NamedStages
<1>4. ASSUME NEW q \in Calls, StartLoads(q) PROVE MembersInv'
  <2>1. Step(q, "over") /\ keepsTimes /\ keepsOrder
    BY <1>4 DEF StartLoads
  <2>2. RanTyped' /\ \A p \in Calls : ran'[p].stage = "counted" => ran'[p] = ran[p]
    BY <2>1, RanStep DEF MembersInv, Calling, NamedStages
  <2>3. CalledInOrder'
    <3>1. CASE running
      BY <1>4, <3>1 DEF StartLoads, MembersInv, CalledInOrder
    <3>2. CASE ~running
      BY <1>4, <3>2, ScheduleInOrder DEF StartLoads
    <3> QED BY <3>1, <3>2
  <2> QED BY <2>1, <2>2, <2>3, RestKeeps
<1> QED BY <1>1, <1>2, <1>3, <1>4

LEMMA MembersStep == MembersInv /\ [MembersNext]_memberVars => MembersInv'
<1> SUFFICES ASSUME MembersInv, [MembersNext]_memberVars PROVE MembersInv'
  OBVIOUS
<1>1. ASSUME UNCHANGED memberVars PROVE MembersInv'
  BY <1>1 DEF memberVars, MembersInv, MembersTyped, RanTyped, Apart, Closed, InOrder, CalledInOrder, Room, MembersOf, Effective
<1>2. ASSUME MembersNext PROVE MembersInv'
  BY <1>2, AddCountsKeeps, AddInsertsKeeps, RemoveMemberKeeps, AccountGoesKeeps, OverridesKeep, SettingsKeep, CountdownKeeps
  DEF MembersNext
<1> QED BY <1>1, <1>2

LEMMA MembersStart == MembersInit => MembersInv
<1> SUFFICES ASSUME MembersInit PROVE MembersInv
  OBVIOUS
<1>1. order \in [Captains -> 0..MaxMembers] /\ march \in [Captains -> Times] /\ override \in [Captains -> Times \cup {Unset}]
  BY DEF MembersInit
<1>2. Apart(order, MembersOf(order)) /\ order = Sorted(order, march, override)
  BY DEF MembersInit, Apart
<1>3. PICK o, m, v : o = order /\ m = march /\ v = override
  OBVIOUS
<1>4. Cardinality(MembersOf(o)) <= MaxMembers /\ o \in [Captains -> Nat]
  BY <1>1, <1>2, <1>3, MembersFit, RallyMembersAssumption
<1>5. /\ Closed(Sorted(o, m, v), MembersOf(o))
      /\ \A u, w \in Captains : Sorted(o, m, v)[u] # 0 /\ Sorted(o, m, v)[u] < Sorted(o, m, v)[w]
                                  => EffectiveBy(m, v, w) <= EffectiveBy(m, v, u)
  BY <1>1, <1>2, <1>3, <1>4, SortedSound
<1>6. Closed(order, MembersOf(order)) /\ InOrder
  <2>1. Sorted(o, m, v) = o
    BY <1>2, <1>3
  <2> QED BY <1>3, <1>5, <2>1 DEF InOrder, Effective
<1>7. RanTyped /\ \A q \in Calls : Room(q)
  BY NotRanTyped DEF MembersInit, RanTyped, Room, NamedStages
<1>8. CalledInOrder
  BY DEF MembersInit, CalledInOrder, Silence, Nobody
<1> QED BY <1>1, <1>2, <1>6, <1>7, <1>8 DEF MembersInv, MembersTyped

\* What the invariant says of places and of adds.
LEMMA MembersTell == MembersInv => PlacesSound /\ AddsSucceed
<1> SUFFICES ASSUME MembersInv PROVE PlacesSound /\ AddsSucceed
  OBVIOUS
<1>1. PlacesSound
  BY MembersFit DEF MembersInv, MembersTyped, PlacesSound, Apart, Closed
<1>2. ASSUME NEW q \in Calls, At(q, "counted"), ~ran[q].late, ~gap, ran[q].who \in exists
      PROVE  ~Taken(q)
  <2>1. Cardinality(MembersOf(order)) <= ran[q].count /\ order[ran[q].who] = 0
    BY <1>2 DEF MembersInv, Room, At
  <2>2. \A u \in MembersOf(order) : order[u] \in 1..Cardinality(MembersOf(order))
    BY <1>2 DEF MembersInv, Closed
  <2>3. ran[q].count \in Nat /\ Cardinality(MembersOf(order)) \in Nat
    BY MembersFinite, RallyMembersAssumption DEF MembersInv, RanTyped, Rans
  <2>4. ASSUME NEW u \in Captains, order[u] = NewIndex(q) PROVE FALSE
    <3>1. order[u] # 0
      BY <2>3, <2>4 DEF NewIndex
    <3>2. order[u] \in 1..Cardinality(MembersOf(order))
      BY <2>2, <3>1 DEF MembersOf
    <3> QED BY <2>1, <2>3, <2>4, <3>2 DEF NewIndex
  <2> QED BY <1>2, <2>1, <2>4 DEF Taken
<1> QED BY <1>1, <1>2 DEF AddsSucceed

-----------------------------------------------------------------------------
(* The numbers of the groups.                                              *)

Looks == [stage : {"ready", "counted", "found", "over"}, id : RallyIds \cup {NotEdited.id}, seen : [RallyIds -> Nat]]
Renumbering(e) == edit[e].stage \in {"counted", "found"}

\* The groups are numbered one after the other, each by a number of its own.
InRow(n) ==
  /\ Cardinality(Listed(n)) <= MaxGroups
  /\ {n[g] : g \in Listed(n)} = 1..Cardinality(Listed(n))
  /\ \A g, h \in Listed(n) : g # h => n[g] # n[h]

\* What a request has seen is how it is.
TrueLook(e) ==
  /\ edit[e].seen = number
  /\ edit[e].stage = "counted" => number[edit[e].id] = 0 /\ Cardinality(Listed(number)) < MaxGroups
  /\ edit[e].stage = "found" => number[edit[e].id] # 0

NumbersInv ==
  /\ number \in [RallyIds -> Nat] /\ edit \in [Edits -> Looks] /\ overlap \in BOOLEAN
  /\ \A e \in Edits : Renumbering(e) => edit[e].id \in RallyIds
  /\ overlap \/ /\ InRow(number)
                /\ \A e \in Edits : Renumbering(e) => TrueLook(e)
                /\ \A d, e \in Edits : Renumbering(d) /\ Renumbering(e) => d = e

LEMMA ListedFinite ==
  ASSUME NEW n
  PROVE  IsFiniteSet(Listed(n)) /\ Cardinality(Listed(n)) \in Nat
<1>1. Listed(n) \in SUBSET RallyIds
  BY DEF Listed
<1> QED BY <1>1, FS_Subset, FS_CardinalityType, RallyMembersAssumption

\* One more group gets the next number.
LEMMA OneMore ==
  ASSUME NEW n \in [RallyIds -> Nat], InRow(n), NEW g \in RallyIds, n[g] = 0, Cardinality(Listed(n)) < MaxGroups
  PROVE  InRow([n EXCEPT ![g] = Cardinality(Listed(n)) + 1])
<1> DEFINE c == Cardinality(Listed(n))
           m == [n EXCEPT ![g] = c + 1]
<1>1. c \in Nat /\ IsFiniteSet(Listed(n)) /\ MaxGroups \in Nat
  BY ListedFinite, RallyMembersAssumption
<1>2. \A h \in RallyIds : m[h] = IF h = g THEN c + 1 ELSE n[h]
  OBVIOUS
<1>3. g \notin Listed(n) /\ Listed(n) \subseteq RallyIds
  BY DEF Listed
<1>4. c < MaxGroups /\ {n[h] : h \in Listed(n)} = 1..c
  BY DEF InRow
<1>5. \A x, y \in Listed(n) : x # y => n[x] # n[y]
  BY DEF InRow
<1>6. Cardinality(Listed(n) \cup {g}) = c + 1
  BY <1>1, <1>3, FS_AddElement
<1> HIDE DEF c, m
<1>7. Listed(m) = Listed(n) \cup {g}
  BY <1>1, <1>2 DEF Listed
<1>8. {m[h] : h \in Listed(m)} = 1..(c + 1)
  <2>1. \A h \in Listed(n) : m[h] = n[h] /\ n[h] \in 1..c
    BY <1>2, <1>3, <1>4
  <2>2. \A h \in Listed(m) : m[h] \in 1..(c + 1)
    BY <1>1, <1>2, <1>7, <2>1
  <2>3. ASSUME NEW k \in 1..(c + 1) PROVE \E h \in Listed(m) : m[h] = k
    <3>1. CASE k = c + 1
      BY <1>2, <1>7, <3>1
    <3>2. CASE k # c + 1
      <4>1. k \in 1..c
        BY <1>1, <3>2
      <4> QED BY <1>4, <1>7, <2>1, <4>1
    <3> QED BY <3>1, <3>2
  <2> QED BY <2>2, <2>3
<1>9. \A x, y \in Listed(m) : x # y => m[x] # m[y]
  <2>1. \A h \in Listed(n) : m[h] = n[h] /\ n[h] \in 1..c /\ m[g] = c + 1
    BY <1>2, <1>3, <1>4
  <2> QED BY <1>1, <1>5, <1>7, <2>1
<1>10. Cardinality(Listed(m)) = c + 1 /\ c + 1 <= MaxGroups
  BY <1>1, <1>4, <1>6, <1>7
<1>11. InRow(m)
  BY <1>8, <1>9, <1>10 DEF InRow
<1> QED BY <1>11 DEF m, c

\* Without one group those after it move up.
LEMMA OneLess ==
  ASSUME NEW n \in [RallyIds -> Nat], InRow(n), NEW g \in RallyIds, n[g] # 0
  PROVE  InRow(MovedUp(n, g)) /\ MovedUp(n, g) \in [RallyIds -> Nat]
<1> DEFINE c == Cardinality(Listed(n))
           m == MovedUp(n, g)
<1>1. c \in Nat /\ IsFiniteSet(Listed(n)) /\ MaxGroups \in Nat
  BY ListedFinite, RallyMembersAssumption
<1>2. \A h \in RallyIds : m[h] = IF h = g THEN 0 ELSE IF n[h] > n[g] THEN n[h] - 1 ELSE n[h]
  BY DEF MovedUp
<1>3. g \in Listed(n) /\ Listed(n) \subseteq RallyIds
  BY DEF Listed
<1>4. c <= MaxGroups /\ {n[h] : h \in Listed(n)} = 1..c
  BY DEF InRow
<1>5. \A x, y \in Listed(n) : x # y => n[x] # n[y]
  BY DEF InRow
<1>6. Cardinality(Listed(n) \ {g}) = c - 1
  BY <1>1, <1>3, FS_RemoveElement
<1>7. m \in [RallyIds -> Nat]
  <2>1. \A h \in RallyIds : m[h] \in Nat
    <3> HIDE DEF m
    <3> QED BY <1>2
  <2> QED BY <2>1 DEF MovedUp
<1> HIDE DEF c, m
<1>8. \A h \in Listed(n) : n[h] \in 1..c /\ n[g] \in 1..c
  BY <1>3, <1>4
<1>9. Listed(m) = Listed(n) \ {g}
  BY <1>2, <1>3, <1>8 DEF Listed
<1>10. {m[h] : h \in Listed(m)} = 1..(c - 1)
  <2>1. ASSUME NEW h \in Listed(m) PROVE m[h] \in 1..(c - 1)
    <3>1. h \in Listed(n) /\ h # g /\ n[h] # n[g] /\ n[h] \in 1..c /\ n[g] \in 1..c
      BY <1>3, <1>5, <1>8, <1>9
    <3> QED BY <1>1, <1>2, <1>3, <3>1
  <2>2. ASSUME NEW k \in 1..(c - 1) PROVE \E h \in Listed(m) : m[h] = k
    <3>1. CASE k < n[g]
      <4>1. PICK h \in Listed(n) : n[h] = k
        BY <1>1, <1>4
      <4>2. h # g /\ m[h] = k
        BY <1>2, <1>3, <1>8, <3>1, <4>1
      <4> QED BY <1>9, <4>2
    <3>2. CASE ~(k < n[g])
      <4>1. k + 1 \in 1..c
        BY <1>1
      <4>2. PICK h \in Listed(n) : n[h] = k + 1
        BY <1>4, <4>1
      <4>3. h # g /\ m[h] = k
        BY <1>2, <1>3, <1>8, <3>2, <4>2
      <4> QED BY <1>9, <4>3
    <3> QED BY <3>1, <3>2
  <2> QED BY <2>1, <2>2
<1>11. ASSUME NEW x \in Listed(m), NEW y \in Listed(m), x # y PROVE m[x] # m[y]
  <2>1. n[x] # n[y] /\ n[x] # n[g] /\ n[y] # n[g] /\ x # g /\ y # g
    BY <1>3, <1>5, <1>9, <1>11
  <2>2. n[x] \in Nat /\ n[y] \in Nat /\ n[g] \in Nat
    BY <1>8, <1>9
  <2> QED BY <1>2, <1>3, <1>9, <2>1, <2>2
<1>12. Cardinality(Listed(m)) = c - 1 /\ c - 1 <= MaxGroups
  BY <1>1, <1>4, <1>6, <1>9
<1>13. InRow(m)
  BY <1>10, <1>11, <1>12 DEF InRow
<1> QED BY <1>7, <1>13 DEF m

LEMMA NumbersBegin == MembersInit => NumbersInv
<1> SUFFICES ASSUME MembersInit PROVE NumbersInv
  OBVIOUS
<1>1. number = [g \in RallyIds |-> 0] /\ edit = [e \in Edits |-> NotEdited] /\ overlap = FALSE
  BY DEF MembersInit
<1>2. NotEdited \in Looks /\ NotEdited.stage = "ready"
  BY DEF NotEdited, Looks
<1>3. Listed(number) = {}
  BY <1>1 DEF Listed
<1>4. Cardinality(Listed(number)) = 0 /\ 0 <= MaxGroups
  BY <1>3, FS_EmptySet, RallyMembersAssumption
<1>5. InRow(number)
  BY <1>3, <1>4 DEF InRow
<1> QED BY <1>1, <1>2, <1>5 DEF NumbersInv, Renumbering

\* A request has seen the groups.
Looked(e, g, x) ==
  /\ edit' = [edit EXCEPT ![e] = x] /\ x \in Looks /\ x.id = g /\ x.seen = number
  /\ number' = number /\ overlap' = (overlap \/ Busy(e)) /\ ~Renumbering(e)
  /\ x.stage = "counted" => number[g] = 0 /\ Cardinality(Listed(number)) < MaxGroups
  /\ x.stage = "found" => number[g] # 0

LEMMA NumberLooksKeep ==
  ASSUME NumbersInv, NEW e \in Edits, NEW g \in RallyIds, CreateCounts(e, g) \/ RemoveReads(e, g)
  PROVE  NumbersInv'
<1>1. PICK x : Looked(e, g, x)
  <2>1. ASSUME CreateCounts(e, g) PROVE \E x : Looked(e, g, x)
    <3>1. PICK n : n = number
      OBVIOUS
    <3>2. PICK st \in {"counted", "over"} : st = IF Cardinality(Listed(number)) < MaxGroups THEN "counted" ELSE "over"
      OBVIOUS
    <3>3. [stage |-> st, id |-> g, seen |-> n] \in Looks
      BY <3>1 DEF Looks, NumbersInv
    <3>4. edit' = [edit EXCEPT ![e] = [stage |-> st, id |-> g, seen |-> n]]
      BY <2>1, <3>1, <3>2 DEF CreateCounts
    <3>5. PICK x : x = [stage |-> st, id |-> g, seen |-> n]
      OBVIOUS
    <3>6. x.stage = st /\ x.id = g /\ x.seen = n
      BY <3>5
    <3>7. number[g] = 0 /\ number' = number /\ overlap' = (overlap \/ Busy(e)) /\ ~Renumbering(e)
      BY <2>1 DEF CreateCounts, Renumbering
    <3> QED BY <3>1, <3>2, <3>3, <3>4, <3>5, <3>6, <3>7 DEF Looked
  <2>2. ASSUME RemoveReads(e, g) PROVE \E x : Looked(e, g, x)
    <3>1. PICK n : n = number
      OBVIOUS
    <3>2. [stage |-> "found", id |-> g, seen |-> n] \in Looks
      BY <3>1 DEF Looks, NumbersInv
    <3>3. edit' = [edit EXCEPT ![e] = [stage |-> "found", id |-> g, seen |-> n]]
      BY <2>2, <3>1 DEF RemoveReads
    <3>4. PICK x : x = [stage |-> "found", id |-> g, seen |-> n]
      OBVIOUS
    <3>5. x.stage = "found" /\ x.id = g /\ x.seen = n
      BY <3>4
    <3>6. number[g] # 0 /\ number' = number /\ overlap' = (overlap \/ Busy(e)) /\ ~Renumbering(e)
      BY <2>2 DEF RemoveReads, Renumbering
    <3> QED BY <3>1, <3>2, <3>3, <3>4, <3>5, <3>6 DEF Looked
  <2> QED BY <2>1, <2>2
<1>2. edit' \in [Edits -> Looks] /\ \A d \in Edits : edit'[d] = IF d = e THEN x ELSE edit[d]
  BY <1>1 DEF Looked, NumbersInv
<1>3. \A d \in Edits : Renumbering(d)' => edit'[d].id \in RallyIds
  BY <1>1, <1>2 DEF Looked, NumbersInv, Renumbering
<1>4. overlap' \in BOOLEAN
  BY <1>1 DEF Looked, Busy, NumbersInv
<1>5. ASSUME ~overlap'
      PROVE  /\ InRow(number)'
             /\ \A d \in Edits : Renumbering(d)' => TrueLook(d)'
             /\ \A d, h \in Edits : Renumbering(d)' /\ Renumbering(h)' => d = h
  <2>1. ~overlap /\ ~Busy(e)
    BY <1>1, <1>5 DEF Looked
  <2>2. \A d \in Edits : d # e => ~Renumbering(d)
    BY <2>1 DEF Busy, Renumbering
  <2>3. \A d \in Edits : Renumbering(d)' => d = e
    BY <1>2, <2>2 DEF Renumbering
  <2>4. Renumbering(e)' => TrueLook(e)'
    BY <1>1, <1>2 DEF Looked, TrueLook, Listed
  <2>5. InRow(number)'
    BY <1>1, <2>1 DEF Looked, NumbersInv, InRow, Listed
  <2> QED BY <2>3, <2>4, <2>5
<1> QED BY <1>1, <1>2, <1>3, <1>4, <1>5 DEF Looked, NumbersInv

LEMMA SavesKeep ==
  ASSUME NumbersInv, NEW e \in Edits, CreateSaves(e) \/ RemoveSaves(e)
  PROVE  NumbersInv'
<1>1. Renumbering(e) /\ overlap' = overlap /\ edit' = [edit EXCEPT ![e].stage = "over"]
  BY DEF CreateSaves, RemoveSaves, Renumbering
<1>2. edit[e] \in Looks /\ edit[e].id \in RallyIds
  BY <1>1 DEF NumbersInv
<1>3. PICK y : y = [edit[e] EXCEPT !.stage = "over"]
  OBVIOUS
<1>4. y \in Looks /\ y.stage = "over"
  BY <1>2, <1>3 DEF Looks
<1>5. edit' = [edit EXCEPT ![e] = y]
  BY <1>1, <1>3 DEF NumbersInv
<1>6. edit' \in [Edits -> Looks] /\ \A d \in Edits : edit'[d] = IF d = e THEN y ELSE edit[d]
  BY <1>4, <1>5 DEF NumbersInv
<1>7. \A d \in Edits : Renumbering(d)' => d # e /\ Renumbering(d) /\ edit'[d] = edit[d]
  BY <1>4, <1>6 DEF Renumbering
<1>8. PICK n, s, g : n = number /\ s = edit[e].seen /\ g = edit[e].id
  OBVIOUS
<1>9. n \in [RallyIds -> Nat] /\ s \in [RallyIds -> Nat] /\ g \in RallyIds
  BY <1>2, <1>8 DEF NumbersInv, Looks
<1>10. number' \in [RallyIds -> Nat] /\ (~overlap => InRow(number'))
  <2>0. ASSUME ~overlap PROVE s = n /\ InRow(n) /\ TrueLook(e)
    BY <1>1, <1>8, <2>0 DEF NumbersInv, TrueLook
  <2>1. CASE CreateSaves(e)
    <3>1. number' = [n EXCEPT ![g] = Cardinality(Listed(s)) + 1] /\ edit[e].stage = "counted"
      BY <1>8, <2>1 DEF CreateSaves
    <3>2. Cardinality(Listed(s)) \in Nat
      BY ListedFinite
    <3>3. ASSUME ~overlap PROVE InRow(number')
      <4>1. s = n /\ InRow(n) /\ n[g] = 0 /\ Cardinality(Listed(n)) < MaxGroups
        BY <1>8, <2>0, <3>1, <3>3 DEF TrueLook
      <4> QED BY <1>9, <3>1, <4>1, OneMore
    <3> QED BY <1>9, <3>1, <3>2, <3>3
  <2>2. CASE RemoveSaves(e)
    <3>1. number' = [h \in RallyIds |-> IF h = g \/ (n[h] # 0 /\ s[h] > s[g]) THEN MovedUp(s, g)[h] ELSE n[h]]
          /\ edit[e].stage = "found"
      BY <1>8, <2>2 DEF RemoveSaves
    <3>2. MovedUp(s, g) \in [RallyIds -> Nat]
      <4>1. \A h \in RallyIds : MovedUp(s, g)[h] \in Nat
        BY <1>9 DEF MovedUp
      <4> QED BY <4>1 DEF MovedUp
    <3>3. ASSUME ~overlap PROVE InRow(number')
      <4>1. s = n /\ InRow(n) /\ n[g] # 0
        BY <1>8, <2>0, <3>1, <3>3 DEF TrueLook
      <4>2. \A h \in RallyIds : number'[h] = MovedUp(n, g)[h]
        BY <1>9, <3>1, <4>1 DEF MovedUp
      <4>3. MovedUp(n, g) = [h \in RallyIds |-> MovedUp(n, g)[h]]
        BY DEF MovedUp
      <4>4. number' = MovedUp(n, g)
        BY <3>1, <4>2, <4>3
      <4> QED BY <1>9, <4>1, <4>4, OneLess
    <3> QED BY <1>9, <3>1, <3>2, <3>3
  <2> QED BY <2>1, <2>2
<1>11. ~overlap => \A d \in Edits : ~Renumbering(d)'
  BY <1>1, <1>7 DEF NumbersInv
<1> QED BY <1>1, <1>6, <1>7, <1>10, <1>11 DEF NumbersInv, InRow

LEMMA NumbersStep == NumbersInv /\ [NumbersNext]_numberVars => NumbersInv'
<1> SUFFICES ASSUME NumbersInv, [NumbersNext]_numberVars PROVE NumbersInv'
  OBVIOUS
<1>1. ASSUME UNCHANGED numberVars PROVE NumbersInv'
  BY <1>1 DEF numberVars, NumbersInv, InRow, Listed, TrueLook, Renumbering
<1>2. ASSUME NumbersNext PROVE NumbersInv'
  BY <1>2, NumberLooksKeep, SavesKeep DEF NumbersNext
<1> QED BY <1>1, <1>2

LEMMA MembersKeepInv ==
  MembersInv /\ NumbersInv
    /\ [(MembersNext /\ UNCHANGED numberVars) \/ (NumbersNext /\ UNCHANGED memberVars)]_rallyMemberVars
  => (MembersInv /\ NumbersInv)'
BY MembersStep, NumbersStep DEF rallyMemberVars

\* What the invariants say.
LEMMA InvMembersSound == MembersInv /\ NumbersInv => MembersSound
<1>1. NumbersInv => GroupsNumbered
  BY DEF NumbersInv, InRow, GroupsNumbered
<1> QED BY <1>1, MembersTell DEF MembersSound, MembersInv

\* The members of a group are numbered, called and counted as they should be, whatever
\* requests interleave, and groups that are created and removed one after the other are
\* numbered one to n (rally-groups.service.ts).
THEOREM MembersAreSound == MembersSpec => []MembersSound
<1>1. MembersInit => MembersInv /\ NumbersInv
  BY MembersStart, NumbersBegin
<1> QED BY <1>1, MembersKeepInv, InvMembersSound, PTL DEF MembersSpec

-----------------------------------------------------------------------------
(* The schema of the database.                                             *)

MigrationSpec == MigrationsInit /\ [][MigrationsNext]_migrationVars

RunnerStages == {"down", "waiting", "reading", "choosing", "applying", "done", "failed", "serving"}

Typed ==
  /\ schema = [f \in SqlFiles |-> schema[f]] /\ \A f \in SqlFiles : schema[f] \in [StatementsOf(f) -> 0..texts[f]]
  /\ history \in [SqlFiles -> Nat] /\ texts \in [SqlFiles -> Nat] /\ \A f \in SqlFiles : texts[f] >= First
  /\ lockOwner \in Runners \cup {NoRunner}
  /\ runner \in [Runners -> [stage : RunnerStages, file : Nat, next : Nat,
                             files : [SqlFiles -> Nat], known : [SqlFiles -> Nat]]]

\* A container has read its texts, and knows no history that is not true: what
\* it has been through is recorded as it has it, the rest as it has read it.
Passed(r, n) == \A f \in SqlFiles : f < n => history[f] = runner[r].files[f]
Ahead(r, n) == \A f \in SqlFiles : f >= n => history[f] = runner[r].known[f]

\* A statement of a text is done: its object is that of the text, or was left alone.
StatementDone(f, m, text) == schema[f][m] # Nothing /\ (schema[f][m] = text \/ LeftAlone(f, m))

\* What of the file in work is in force.  A transaction is with its last statement.
InWork(r) ==
  LET f == runner[r].file n == runner[r].next
  IN  /\ f \in SqlFiles /\ history[f] = 0 /\ n \in 1..(Statements[f] + 1)
      /\ f \notin Atomic \/ n > Statements[f] =>
           \A m \in StatementsOf(f) : m < n => StatementDone(f, m, runner[r].files[f])

Honest(r) ==
  /\ ~Phase(r, "down") => \A f \in SqlFiles : runner[r].files[f] \in First..texts[f]
  /\ runner[r].stage \in {"waiting", "reading"} => runner[r].file = 0
  /\ Phase(r, "choosing") => Passed(r, runner[r].file + 1) /\ Ahead(r, runner[r].file + 1)
  /\ Phase(r, "applying") =>
       Passed(r, runner[r].file) /\ Ahead(r, runner[r].file) /\ InWork(r)
  /\ runner[r].stage \in {"done", "serving"} => \A f \in SqlFiles : history[f] = runner[r].files[f]

MigrationInv == Typed /\ OneMigrates /\ HistoryTrue /\ \A r \in Runners : Honest(r)

LEMMA MigrationsStart == MigrationsInit => MigrationInv
<1> SUFFICES ASSUME MigrationsInit PROVE MigrationInv
  OBVIOUS
<1>0. SqlFiles \subseteq Nat /\ Cardinality(SqlFiles) \in Nat
  BY MigrationsAssumption, FS_CardinalityType
<1>1. PICK n \in 0..Cardinality(SqlFiles) :
        /\ history = [f \in SqlFiles |-> IF f <= n THEN First ELSE 0]
        /\ schema \in [SqlFiles -> UNION {Found(f, recorded) : f \in SqlFiles, recorded \in BOOLEAN}]
        /\ \A f \in SqlFiles : schema[f] \in Found(f, f <= n)
  BY DEF MigrationsInit
<1>2. runner = [r \in Runners |-> NotStarted] /\ texts = [f \in SqlFiles |-> First] /\ lockOwner = NoRunner
  BY DEF MigrationsInit
<1>3. n \in Nat
  BY <1>0
<1>4. schema = [f \in SqlFiles |-> schema[f]] /\ \A f \in SqlFiles : history[f] = (IF f <= n THEN First ELSE 0)
  BY <1>1
<1>5. ASSUME NEW f \in SqlFiles
      PROVE  /\ schema[f] \in [StatementsOf(f) -> 0..First]
             /\ \A m \in StatementsOf(f) : f <= n => schema[f][m] = First \/ (f \in Guarded /\ schema[f][m] = Earlier)
             /\ \A m \in StatementsOf(f) : ~(f <= n) => schema[f][m] \in {Nothing, Earlier}
  BY <1>1 DEF Found, First, Earlier, Nothing
<1>6. Typed
  <2>1. NotStarted \in [stage : RunnerStages, file : Nat, next : Nat, files : [SqlFiles -> Nat], known : [SqlFiles -> Nat]]
    BY DEF NotStarted, NothingKnown, RunnerStages
  <2>2. history \in [SqlFiles -> Nat] /\ texts \in [SqlFiles -> Nat] /\ \A f \in SqlFiles : texts[f] = First /\ texts[f] >= First
    BY <1>1, <1>2 DEF First
  <2>3. \A f \in SqlFiles : schema[f] \in [StatementsOf(f) -> 0..texts[f]]
    BY <1>5, <2>2
  <2>4. runner \in [Runners -> [stage : RunnerStages, file : Nat, next : Nat,
                                files : [SqlFiles -> Nat], known : [SqlFiles -> Nat]]]
    BY <1>2, <2>1
  <2> QED BY <1>2, <1>4, <2>2, <2>3, <2>4 DEF Typed
<1>7. OneMigrates /\ HistoryTrue
  <2>1. \A f \in SqlFiles : Recorded(f) <=> f <= n
    BY <1>4 DEF Recorded, First
  <2>2. ASSUME NEW f \in SqlFiles, f <= n, NEW g \in SqlFiles, g < f PROVE g <= n
    <3>1. f \in Nat /\ g \in Nat
      BY <1>0
    <3> QED BY ONLY <1>3, <3>1, <2>2
  <2>3. ASSUME NEW f \in SqlFiles, NEW m \in StatementsOf(f)
        PROVE  /\ Recorded(f) => schema[f][m] # Nothing /\ (schema[f][m] = history[f] \/ LeftAlone(f, m))
               /\ schema[f][m] >= First => Recorded(f)
    BY <1>4, <1>5, <2>1 DEF LeftAlone, First, Earlier, Nothing
  <2>4. HistoryTrue
    BY <2>1, <2>2, <2>3 DEF HistoryTrue
  <2>5. OneMigrates
    BY <1>2 DEF OneMigrates, NotStarted
  <2> QED BY <2>4, <2>5
<1>8. \A r \in Runners : Honest(r)
  BY <1>2 DEF Honest, Phase, NotStarted
<1> QED BY <1>6, <1>7, <1>8 DEF MigrationInv

-----------------------------------------------------------------------------
(* The steps.                                                              *)

Working == {"reading", "choosing", "applying", "done"}

\* A step of one container that leaves the history and the schema alone keeps the
\* invariant if it keeps that container honest and the lock with its owner.
LEMMA OwnStep ==
  ASSUME MigrationInv, NEW r \in Runners, UNCHANGED <<schema, history, texts>>,
         NEW new \in [stage : RunnerStages, file : Nat, next : Nat, files : [SqlFiles -> Nat], known : [SqlFiles -> Nat]],
         runner' = [runner EXCEPT ![r] = new], Honest(r)',
         lockOwner' \in Runners \cup {NoRunner}, new.stage \in Working => lockOwner' = r,
         lockOwner' = lockOwner \/ (lockOwner = NoRunner /\ lockOwner' = r) \/ (lockOwner = r /\ lockOwner' = NoRunner)
  PROVE  MigrationInv'
<1> USE DEF MigrationInv
<1>1. runner \in [Runners -> [stage : RunnerStages, file : Nat, next : Nat,
                              files : [SqlFiles -> Nat], known : [SqlFiles -> Nat]]]
  BY DEF Typed
<1>2. runner'[r] = new /\ \A q \in Runners \ {r} : runner'[q] = runner[q]
  BY <1>1
<1>3. Typed'
  BY <1>1 DEF Typed
<1>4. OneMigrates'
  BY <1>2, MigrationsAssumption DEF OneMigrates, Working
<1>5. HistoryTrue'
  BY DEF HistoryTrue, Recorded, LeftAlone
<1>6. ASSUME NEW q \in Runners, q # r PROVE Honest(q)'
  BY <1>2, <1>6 DEF Honest, Phase, Passed, Ahead, InWork, StatementDone, LeftAlone
<1> QED BY <1>3, <1>4, <1>5, <1>6

\* What a container knows has its type.
LEMMA RunnerTypes ==
  ASSUME Typed, NEW r \in Runners
  PROVE  /\ runner[r] \in [stage : RunnerStages, file : Nat, next : Nat,
                           files : [SqlFiles -> Nat], known : [SqlFiles -> Nat]]
         /\ NotStarted \in [stage : RunnerStages, file : Nat, next : Nat,
                            files : [SqlFiles -> Nat], known : [SqlFiles -> Nat]]
<1>1. NothingKnown \in [SqlFiles -> Nat]
  BY DEF NothingKnown
<1> QED BY <1>1 DEF Typed, NotStarted, RunnerStages

LEMMA ConnectsStep == ASSUME MigrationInv, NEW r \in Runners, Connects(r) PROVE MigrationInv'
<1> DEFINE new == [NotStarted EXCEPT !.stage = "waiting", !.files = texts]
<1>1. /\ texts \in [SqlFiles -> Nat] /\ \A f \in SqlFiles : texts[f] >= First
      /\ runner \in [Runners -> [stage : RunnerStages, file : Nat, next : Nat,
                                 files : [SqlFiles -> Nat], known : [SqlFiles -> Nat]]]
  BY DEF MigrationInv, Typed
<1>2. new \in [stage : RunnerStages, file : Nat, next : Nat, files : [SqlFiles -> Nat], known : [SqlFiles -> Nat]]
  BY <1>1 DEF NotStarted, NothingKnown, RunnerStages
<1>3. /\ new.stage = "waiting" /\ new.files = texts /\ new.file = 0
      /\ runner' = [runner EXCEPT ![r] = new] /\ UNCHANGED <<schema, history, texts, lockOwner>>
  BY DEF Connects, NotStarted
<1> HIDE DEF new
<1>4. runner'[r] = new
  BY <1>1, <1>3
<1>5. Honest(r)'
  BY <1>1, <1>3, <1>4 DEF Honest, Phase, First
<1>6. lockOwner' \in Runners \cup {NoRunner}
  BY <1>3 DEF MigrationInv, Typed
<1> QED BY <1>2, <1>3, <1>5, <1>6, OwnStep DEF Working

\* A container that gives up, is killed, or serves.
LEMMA RunnerLeaves ==
  ASSUME MigrationInv, NEW r \in Runners, Exits(r) \/ Killed(r) PROVE MigrationInv'
<1>1. /\ runner[r] \in [stage : RunnerStages, file : Nat, next : Nat, files : [SqlFiles -> Nat], known : [SqlFiles -> Nat]]
      /\ NotStarted \in [stage : RunnerStages, file : Nat, next : Nat, files : [SqlFiles -> Nat], known : [SqlFiles -> Nat]]
  BY RunnerTypes DEF MigrationInv
<1>3. UNCHANGED <<schema, history, texts>> /\ lockOwner' = (IF lockOwner = r THEN NoRunner ELSE lockOwner)
  BY DEF Exits, Killed
<1>4. runner \in [Runners -> [stage : RunnerStages, file : Nat, next : Nat,
                              files : [SqlFiles -> Nat], known : [SqlFiles -> Nat]]]
  BY DEF MigrationInv, Typed
<1>5. ASSUME NEW n \in {[runner[r] EXCEPT !.stage = "serving"], NotStarted},
             n = [runner[r] EXCEPT !.stage = "serving"] => Phase(r, "done") \/ n = NotStarted,
             runner' = [runner EXCEPT ![r] = n]
      PROVE  MigrationInv'
  <2>1. n \in [stage : RunnerStages, file : Nat, next : Nat, files : [SqlFiles -> Nat], known : [SqlFiles -> Nat]]
    BY <1>1 DEF RunnerStages
  <2>2. runner'[r] = n
    BY <1>4, <1>5
  <2>3. n.stage \in {"down", "serving"}
    BY <1>1 DEF NotStarted
  <2>4. Honest(r)'
    <3>1. CASE n = NotStarted
      BY <2>2, <3>1 DEF Honest, Phase, NotStarted
    <3>2. CASE n = [runner[r] EXCEPT !.stage = "serving"] /\ Phase(r, "done")
      <4>1. n.stage = "serving" /\ n.files = runner[r].files
        BY <1>1, <3>2
      <4>2. \A f \in SqlFiles : history[f] = runner[r].files[f] /\ runner[r].files[f] \in First..texts[f]
        BY <3>2 DEF MigrationInv, Honest, Phase
      <4>3. QED
        BY <1>3, <2>2, <4>1, <4>2 DEF Honest, Phase
    <3>3. QED
      BY <1>5, <3>1, <3>2
  <2>5. lockOwner' \in Runners \cup {NoRunner}
    BY <1>3 DEF MigrationInv, Typed
  <2> QED BY <1>3, <1>5, <2>1, <2>3, <2>4, <2>5, OwnStep DEF Working
<1>6. \/ runner' = [runner EXCEPT ![r] = NotStarted]
      \/ Phase(r, "done") /\ runner' = [runner EXCEPT ![r] = [runner[r] EXCEPT !.stage = "serving"]]
  BY DEF Exits, Killed
<1> QED BY <1>5, <1>6

LEMMA LocksStep ==
  ASSUME MigrationInv, NEW r \in Runners, AcquireLock(r) \/ ReadApplied(r) PROVE MigrationInv'
<1>1. /\ runner[r] \in [stage : RunnerStages, file : Nat, next : Nat, files : [SqlFiles -> Nat], known : [SqlFiles -> Nat]]
      /\ runner \in [Runners -> [stage : RunnerStages, file : Nat, next : Nat,
                                 files : [SqlFiles -> Nat], known : [SqlFiles -> Nat]]]
      /\ lockOwner \in Runners \cup {NoRunner} /\ history \in [SqlFiles -> Nat]
  BY RunnerTypes DEF MigrationInv, Typed
<1>2. UNCHANGED <<schema, history, texts>> /\ SqlFiles \subseteq Nat \ {0}
  BY MigrationsAssumption DEF AcquireLock, ReadApplied
<1>3. CASE AcquireLock(r)
  <2>1. /\ runner[r].file = 0 /\ \A f \in SqlFiles : runner[r].files[f] \in First..texts[f]
    BY <1>3 DEF AcquireLock, MigrationInv, Honest, Phase
  <2>2. ASSUME NEW stage \in {"reading", "failed"}, runner' = [runner EXCEPT ![r].stage = stage],
               IF stage = "reading" THEN lockOwner = NoRunner /\ lockOwner' = r ELSE UNCHANGED lockOwner
        PROVE  MigrationInv'
    <3> DEFINE new == [runner[r] EXCEPT !.stage = stage]
    <3>1. new \in [stage : RunnerStages, file : Nat, next : Nat, files : [SqlFiles -> Nat], known : [SqlFiles -> Nat]]
      BY <1>1 DEF RunnerStages
    <3>2. new.stage = stage /\ new.file = 0 /\ new.files = runner[r].files
      BY <1>1, <2>1
    <3>3. runner' = [runner EXCEPT ![r] = new]
      BY <2>2
    <3> HIDE DEF new
    <3>4. runner'[r] = new
      BY <1>1, <3>3
    <3>5. Honest(r)'
      BY <1>2, <2>1, <3>2, <3>4 DEF Honest, Phase
    <3> QED BY <1>1, <1>2, <2>2, <3>1, <3>2, <3>3, <3>5, OwnStep, Zenon DEF Working
  <2> QED BY <1>3, <2>2 DEF AcquireLock, Goes
<1>4. CASE ReadApplied(r)
  <2> DEFINE new == [runner[r] EXCEPT !.stage = "choosing", !.known = history]
  <2>1. runner[r].stage = "reading" /\ runner[r].file = 0 /\ (\A f \in SqlFiles : runner[r].files[f] \in First..texts[f])
        /\ lockOwner = r
    BY <1>4 DEF ReadApplied, MigrationInv, Honest, Phase, OneMigrates
  <2>2. new \in [stage : RunnerStages, file : Nat, next : Nat, files : [SqlFiles -> Nat], known : [SqlFiles -> Nat]]
    BY <1>1 DEF RunnerStages
  <2>3. new.stage = "choosing" /\ new.file = 0 /\ new.files = runner[r].files /\ new.known = history
    BY <1>1, <2>1
  <2>4. runner' = [runner EXCEPT ![r] = new] /\ lockOwner' = lockOwner
    BY <1>4 DEF ReadApplied
  <2> HIDE DEF new
  <2>5. runner'[r] = new
    BY <1>1, <2>4
  <2>6. Honest(r)'
    BY <1>2, <2>1, <2>3, <2>5 DEF Honest, Phase, Passed, Ahead
  <2> QED BY <1>1, <1>2, <2>1, <2>2, <2>4, <2>6, OwnStep
<1> QED BY <1>3, <1>4

LEMMA ChoosesStep == ASSUME MigrationInv, NEW r \in Runners, Chooses(r) PROVE MigrationInv'
<1>1. /\ runner[r] \in [stage : RunnerStages, file : Nat, next : Nat, files : [SqlFiles -> Nat], known : [SqlFiles -> Nat]]
      /\ runner \in [Runners -> [stage : RunnerStages, file : Nat, next : Nat,
                                 files : [SqlFiles -> Nat], known : [SqlFiles -> Nat]]]
      /\ lockOwner \in Runners \cup {NoRunner} /\ history \in [SqlFiles -> Nat]
  BY RunnerTypes DEF MigrationInv, Typed
<1>2. UNCHANGED <<schema, history, texts, lockOwner>> /\ SqlFiles \subseteq Nat \ {0}
      /\ \A f \in SqlFiles : Statements[f] \in Nat \ {0}
  BY MigrationsAssumption, Zenon DEF Chooses
<1>3. /\ runner[r].stage = "choosing" /\ lockOwner = r /\ \A f \in SqlFiles : runner[r].files[f] \in First..texts[f]
      /\ \A f \in SqlFiles : f < runner[r].file + 1 => history[f] = runner[r].files[f]
      /\ \A f \in SqlFiles : f >= runner[r].file + 1 => history[f] = runner[r].known[f]
  BY Zenon DEF Chooses, Phase, MigrationInv, OneMigrates, Honest, Passed, Ahead
<1>4. CASE Left(r) = {} /\ Goes(r, "done")
  <2> DEFINE new == [runner[r] EXCEPT !.stage = "done"]
  <2>1. new \in [stage : RunnerStages, file : Nat, next : Nat, files : [SqlFiles -> Nat], known : [SqlFiles -> Nat]]
    BY <1>1 DEF RunnerStages
  <2>2. new.stage = "done" /\ new.files = runner[r].files
    BY <1>1
  <2>3. runner' = [runner EXCEPT ![r] = new]
    BY <1>4 DEF Goes
  <2> HIDE DEF new
  <2>4. runner'[r] = new
    BY <1>1, <2>3
  <2>5. \A f \in SqlFiles : f < runner[r].file + 1
    BY <1>1, <1>2, <1>4 DEF Left
  <2>6. Honest(r)'
    BY <1>2, <1>3, <2>2, <2>4, <2>5 DEF Honest, Phase
  <2> QED BY <1>1, <1>2, <1>3, <2>1, <2>3, <2>6, OwnStep
<1>5. ASSUME NEW f \in Left(r), \A g \in Left(r) : f <= g,
             NEW stage \in {"applying", "failed", "choosing"},
             stage = (IF runner[r].known[f] = 0 THEN "applying"
                      ELSE IF runner[r].known[f] # runner[r].files[f] THEN "failed" ELSE "choosing"),
             runner' = [runner EXCEPT ![r].file = f, ![r].next = 1, ![r].stage = stage]
      PROVE  MigrationInv'
  <2> DEFINE new == [runner[r] EXCEPT !.file = f, !.next = 1, !.stage = stage]
  <2>0. f \in SqlFiles /\ f \in Nat /\ f > runner[r].file
    BY <1>2 DEF Left
  <2>1. new \in [stage : RunnerStages, file : Nat, next : Nat, files : [SqlFiles -> Nat], known : [SqlFiles -> Nat]]
    BY <1>1, <2>0 DEF RunnerStages
  <2>2. /\ new.stage = stage /\ new.file = f /\ new.next = 1
        /\ new.files = runner[r].files /\ new.known = runner[r].known
    BY <1>1
  <2>3. runner' = [runner EXCEPT ![r] = new]
    BY ONLY <1>1, <1>5, r \in Runners
  <2> HIDE DEF new
  <2>4. runner'[r] = new
    BY <1>1, <2>3
  <2>5. \A g \in SqlFiles : g < f => g < runner[r].file + 1
    BY <1>1, <1>2, <1>5, <2>0 DEF Left
  <2>6. /\ \A g \in SqlFiles : g < f => history[g] = runner[r].files[g]
        /\ \A g \in SqlFiles : g >= f => history[g] = runner[r].known[g]
    BY <1>1, <1>2, <1>3, <2>0, <2>5
  <2>7. Honest(r)'
    <3>1. CASE stage = "applying"
      <4>1. runner[r].known[f] = 0 /\ history[f] = 0
        BY <1>5, <2>0, <2>6, <3>1
      <4>2. InWork(r)'
        BY <1>2, <2>0, <2>2, <2>4, <4>1 DEF InWork, StatementsOf
      <4>3. QED
        BY <1>2, <1>3, <2>2, <2>4, <2>6, <3>1, <4>2 DEF Honest, Phase, Passed, Ahead
    <3>2. CASE stage = "choosing"
      <4>1. history[f] = runner[r].files[f]
        BY <1>5, <2>0, <2>6, <3>2
      <4>2. ASSUME NEW g \in SqlFiles, g < f + 1 PROVE g < f \/ g = f
        <5>1. g \in Nat /\ f \in Nat
          BY <1>2, <2>0
        <5> QED BY ONLY <4>2, <5>1
      <4>3. \A g \in SqlFiles : g >= f + 1 => g >= f
        BY <1>2, <2>0
      <4>4. QED
        BY <1>2, <1>3, <2>2, <2>4, <2>6, <3>2, <4>1, <4>2, <4>3 DEF Honest, Phase, Passed, Ahead
    <3>3. CASE stage = "failed"
      BY <1>2, <1>3, <2>2, <2>4, <3>3 DEF Honest, Phase
    <3>4. QED
      BY <3>1, <3>2, <3>3
  <2> QED BY <1>1, <1>2, <1>3, <2>1, <2>3, <2>7, OwnStep
<1>6. QED
  BY <1>1, <1>3, <1>4, <1>5, Zenon DEF Chooses

\* What the container at work may rely on: nobody else is at work.
LEMMA AtWork ==
  ASSUME MigrationInv, NEW r \in Runners, Phase(r, "applying")
  PROVE  /\ lockOwner = r /\ \A q \in Runners \ {r} : runner[q].stage \notin Working
         /\ InWork(r) /\ Passed(r, runner[r].file) /\ Ahead(r, runner[r].file)
         /\ \A f \in SqlFiles : runner[r].files[f] \in First..texts[f]
BY DEF MigrationInv, OneMigrates, Honest, Phase, Working

\* A step of the container at work that ends it in an error.
LEMMA FailsStep ==
  ASSUME MigrationInv, NEW r \in Runners, Phase(r, "applying"), Goes(r, "failed"),
         UNCHANGED <<schema, history, texts, lockOwner>>
  PROVE  MigrationInv'
<1>1. /\ runner[r] \in [stage : RunnerStages, file : Nat, next : Nat, files : [SqlFiles -> Nat], known : [SqlFiles -> Nat]]
      /\ runner \in [Runners -> [stage : RunnerStages, file : Nat, next : Nat,
                                 files : [SqlFiles -> Nat], known : [SqlFiles -> Nat]]]
      /\ lockOwner \in Runners \cup {NoRunner}
  BY RunnerTypes DEF MigrationInv, Typed
<1> DEFINE new == [runner[r] EXCEPT !.stage = "failed"]
<1>2. new \in [stage : RunnerStages, file : Nat, next : Nat, files : [SqlFiles -> Nat], known : [SqlFiles -> Nat]]
  BY <1>1 DEF RunnerStages
<1>3. new.stage = "failed" /\ new.files = runner[r].files
  BY <1>1
<1>4. runner' = [runner EXCEPT ![r] = new]
  BY DEF Goes
<1> HIDE DEF new
<1>5. runner'[r] = new
  BY <1>1, <1>4
<1>6. Honest(r)'
  BY AtWork, <1>3, <1>5 DEF Honest, Phase
<1> QED BY <1>1, <1>2, <1>3, <1>4, <1>6, OwnStep DEF Working

\* A statement of a text of the container's is done, and undoes no other.
LEMMA StatementEffect ==
  ASSUME Typed, NEW f \in SqlFiles, NEW n \in StatementsOf(f), NEW text \in First..texts[f]
  PROVE  /\ AfterStatement(f, n, text) \in [StatementsOf(f) -> 0..texts[f]]
         /\ \A m \in Together(f, n) :
              /\ AfterStatement(f, n, text)[m] # Nothing
              /\ AfterStatement(f, n, text)[m] = text
                   \/ (f \in Guarded /\ (AfterStatement(f, n, text)[m] = Earlier \/ texts[f] > First))
         /\ \A m \in StatementsOf(f) \ Together(f, n) : AfterStatement(f, n, text)[m] = schema[f][m]
<1> DEFINE after == AfterStatement(f, n, text)
<1>1. schema[f] \in [StatementsOf(f) -> 0..texts[f]] /\ texts[f] \in Nat /\ Together(f, n) \subseteq StatementsOf(f)
      /\ text \in Nat
  BY DEF Typed, Together, First
<1>2. \A m \in StatementsOf(f) :
        after[m] = (IF m \in Together(f, n) THEN InForce(f, schema[f][m], text) ELSE schema[f][m])
  BY DEF AfterStatement
<1>3. ASSUME NEW was \in 0..texts[f]
      PROVE  /\ InForce(f, was, text) \in 0..texts[f] /\ InForce(f, was, text) # Nothing
             /\ InForce(f, was, text) = text
                  \/ (f \in Guarded /\ (InForce(f, was, text) = Earlier \/ texts[f] > First))
  BY <1>1 DEF InForce, First, Earlier, Nothing
<1>4. after \in [StatementsOf(f) -> 0..texts[f]]
  BY <1>1, <1>3 DEF AfterStatement
<1> HIDE DEF after
<1>5. \A m \in Together(f, n) : after[m] = InForce(f, schema[f][m], text) /\ schema[f][m] \in 0..texts[f]
  BY <1>1, <1>2
<1>6. \A m \in Together(f, n) : after[m] # Nothing /\ (after[m] = text \/ (f \in Guarded /\ (after[m] = Earlier \/ texts[f] > First)))
  BY <1>3, <1>5
<1>7. \A m \in StatementsOf(f) \ Together(f, n) : after[m] = schema[f][m]
  BY <1>2
<1> QED BY <1>4, <1>6, <1>7 DEF after

LEMMA ExecutesStep == ASSUME MigrationInv, NEW r \in Runners, Executes(r) PROVE MigrationInv'
<1> DEFINE f == runner[r].file
           n == runner[r].next
           text == runner[r].files[f]
           after == AfterStatement(f, n, text)
           new == [runner[r] EXCEPT !.next = n + 1]
<1>1. /\ runner[r] \in [stage : RunnerStages, file : Nat, next : Nat, files : [SqlFiles -> Nat], known : [SqlFiles -> Nat]]
      /\ runner \in [Runners -> [stage : RunnerStages, file : Nat, next : Nat,
                                 files : [SqlFiles -> Nat], known : [SqlFiles -> Nat]]]
      /\ Typed /\ schema = [g \in SqlFiles |-> schema[g]]
  BY RunnerTypes DEF MigrationInv, Typed
<1>2. /\ Phase(r, "applying") /\ n <= Statements[f]
      /\ UNCHANGED <<history, texts, lockOwner>>
  BY DEF Executes
<1>3. /\ \A q \in Runners \ {r} : runner[q].stage \notin Working
      /\ InWork(r) /\ Passed(r, f) /\ Ahead(r, f) /\ \A g \in SqlFiles : runner[r].files[g] \in First..texts[g]
  BY <1>2, AtWork
<1>4. /\ f \in SqlFiles /\ f \in Nat /\ history[f] = 0 /\ n \in Nat \ {0}
      /\ SqlFiles \subseteq Nat /\ Statements[f] \in Nat \ {0} /\ text \in First..texts[f]
  BY <1>1, <1>3, MigrationsAssumption DEF InWork
<1>5. CASE schema' = [schema EXCEPT ![f] = after] /\ runner' = [runner EXCEPT ![r].next = n + 1]
  <2>1. new \in [stage : RunnerStages, file : Nat, next : Nat, files : [SqlFiles -> Nat], known : [SqlFiles -> Nat]]
    BY <1>1, <1>4
  <2>2. /\ new.stage = "applying" /\ new.file = f /\ new.next = n + 1
        /\ new.files = runner[r].files /\ new.known = runner[r].known
    BY <1>1, <1>2 DEF Phase
  <2>3. runner' = [runner EXCEPT ![r] = new]
    BY <1>5
  <2> HIDE DEF new
  <2>4. runner'[r] = new /\ \A q \in Runners \ {r} : runner'[q] = runner[q]
    BY <1>1, <2>3
  <2>5. n \in StatementsOf(f)
    BY <1>2, <1>4 DEF StatementsOf
  <2>6. /\ after \in [StatementsOf(f) -> 0..texts[f]]
        /\ \A m \in Together(f, n) :
             after[m] # Nothing /\ (after[m] = text \/ (f \in Guarded /\ (after[m] = Earlier \/ texts[f] > First)))
        /\ \A m \in StatementsOf(f) \ Together(f, n) : after[m] = schema[f][m]
    <3> HIDE DEF f, n, text
    <3> QED BY <1>1, <1>4, <2>5, StatementEffect DEF after
  <2> HIDE DEF after
  <2>7. schema'[f] = after /\ (\A g \in SqlFiles \ {f} : schema'[g] = schema[g]) /\ schema' = [g \in SqlFiles |-> schema'[g]]
    BY <1>1, <1>4, <1>5
  <2>8. Typed'
    BY <1>1, <1>2, <1>4, <2>1, <2>3, <2>6, <2>7 DEF Typed
  <2>9. OneMigrates'
    BY <1>2, <2>2, <2>4 DEF MigrationInv, OneMigrates, Phase
  <2>10. HistoryTrue'
    <3>1. \A g \in SqlFiles : g < f => Recorded(g)
      BY <1>3 DEF Passed, Recorded, First
    <3>2. ASSUME NEW g \in SqlFiles PROVE Recorded(g)' <=> Recorded(g)
      BY <1>2 DEF Recorded
    <3>3. ~Recorded(f)
      BY <1>4 DEF Recorded
    <3>4. ASSUME NEW g \in SqlFiles, NEW m \in StatementsOf(g), g # f
          PROVE  /\ Recorded(g)' => schema'[g][m] # Nothing /\ (schema'[g][m] = history'[g] \/ LeftAlone(g, m)')
                 /\ Recorded(g)' \/ schema'[g][m] >= First => \A h \in SqlFiles : h < g => Recorded(h)'
      BY <1>2, <2>7, <3>2, <3>4 DEF MigrationInv, HistoryTrue, LeftAlone
    <3>5. ASSUME NEW g \in SqlFiles, NEW m \in StatementsOf(g), g = f
          PROVE  ~Recorded(g)' /\ \A h \in SqlFiles : h < g => Recorded(h)'
      BY <3>1, <3>2, <3>3, <3>5
    <3> HIDE DEF f
    <3> QED BY <3>4, <3>5 DEF HistoryTrue
  <2>11. ASSUME NEW q \in Runners, q # r PROVE Honest(q)'
    BY <1>2, <1>3, <2>4, <2>11 DEF MigrationInv, Honest, Phase, Working
  <2>12. Honest(r)'
    <3>1. n + 1 \in 1..(Statements[f] + 1)
      BY <1>2, <1>4
    <3>2. ASSUME f \notin Atomic \/ n + 1 > Statements[f], NEW m \in StatementsOf(f), m < n + 1
          PROVE  StatementDone(f, m, text)'
      <4>0. m \in Nat /\ (m < n \/ m = n)
        BY <1>4, <3>2 DEF StatementsOf
      <4>1. CASE m \in Together(f, n)
        BY <1>2, <2>4, <2>2, <2>6, <2>7, <4>1 DEF StatementDone, LeftAlone
      <4>2. CASE m \notin Together(f, n)
        <5>1. f \notin Atomic /\ m < n
          BY <1>2, <1>4, <2>5, <3>2, <4>0, <4>2 DEF Together, StatementsOf
        <5>2. StatementDone(f, m, text)
          BY <1>3, <5>1 DEF InWork
        <5> QED BY <1>2, <2>2, <2>4, <2>6, <2>7, <4>2, <5>2 DEF StatementDone, LeftAlone
      <4> QED BY <4>1, <4>2
    <3>3. InWork(r)'
      BY <1>2, <1>4, <2>2, <2>4, <3>1, <3>2 DEF InWork
    <3> QED BY <1>2, <1>3, <2>2, <2>4, <3>3 DEF Honest, Phase, Passed, Ahead
  <2> QED BY <2>8, <2>9, <2>10, <2>11, <2>12 DEF MigrationInv
<1>6. CASE Goes(r, "failed") /\ UNCHANGED schema
  BY <1>2, <1>6, FailsStep
<1> QED BY <1>5, <1>6 DEF Executes

\* Arithmetic of the numbers of files and of statements.
LEMMA NextFile ==
  ASSUME NEW f \in Nat, NEW g \in Nat
  PROVE  (g < f + 1 => g < f \/ g = f) /\ (g >= f + 1 => g >= f /\ g # f)
OBVIOUS

LEMMA RecordsStep == ASSUME MigrationInv, NEW r \in Runners, Records(r) PROVE MigrationInv'
<1> DEFINE f == runner[r].file
           text == runner[r].files[f]
           new == [runner[r] EXCEPT !.stage = "choosing"]
<1>1. /\ runner[r] \in [stage : RunnerStages, file : Nat, next : Nat, files : [SqlFiles -> Nat], known : [SqlFiles -> Nat]]
      /\ runner \in [Runners -> [stage : RunnerStages, file : Nat, next : Nat,
                                 files : [SqlFiles -> Nat], known : [SqlFiles -> Nat]]]
      /\ history \in [SqlFiles -> Nat] /\ texts \in [SqlFiles -> Nat]
  BY RunnerTypes DEF MigrationInv, Typed
<1>2. /\ Phase(r, "applying") /\ runner[r].next > Statements[f]
      /\ UNCHANGED <<schema, texts, lockOwner>>
  BY DEF Records
<1>3. /\ \A q \in Runners \ {r} : runner[q].stage \notin Working
      /\ InWork(r) /\ Passed(r, f) /\ Ahead(r, f) /\ \A g \in SqlFiles : runner[r].files[g] \in First..texts[g]
  BY <1>2, AtWork
<1>4. /\ f \in SqlFiles /\ f \in Nat /\ history[f] = 0 /\ SqlFiles \subseteq Nat
      /\ Statements[f] \in Nat \ {0} /\ text \in Nat /\ text >= First
  BY <1>1, <1>3, MigrationsAssumption DEF InWork
<1>5. CASE history' = [history EXCEPT ![f] = text] /\ Goes(r, "choosing")
  <2>1. new \in [stage : RunnerStages, file : Nat, next : Nat, files : [SqlFiles -> Nat], known : [SqlFiles -> Nat]]
    BY <1>1 DEF RunnerStages
  <2>2. /\ new.stage = "choosing" /\ new.file = f
        /\ new.files = runner[r].files /\ new.known = runner[r].known
    BY <1>1
  <2>3. runner' = [runner EXCEPT ![r] = new]
    BY <1>5 DEF Goes
  <2> HIDE DEF new
  <2>4. runner'[r] = new /\ \A q \in Runners \ {r} : runner'[q] = runner[q]
    BY <1>1, <2>3
  <2>5. history'[f] = text /\ \A g \in SqlFiles \ {f} : history'[g] = history[g]
    BY <1>1, <1>4, <1>5
  <2>6. \A m \in StatementsOf(f) : StatementDone(f, m, text)
    <3>1. runner[r].next \in Nat /\ \A m \in StatementsOf(f) : m < runner[r].next
      BY <1>1, <1>2, <1>4 DEF StatementsOf
    <3> QED BY <1>2, <1>3, <3>1 DEF InWork
  <2>7. Typed'
    BY <1>1, <1>2, <1>4, <1>5, <2>1, <2>3 DEF MigrationInv, Typed
  <2>8. OneMigrates'
    BY <1>2, <2>2, <2>4 DEF MigrationInv, OneMigrates, Phase
  <2>9. HistoryTrue'
    <3>1. ASSUME NEW g \in SqlFiles, g < f PROVE Recorded(g)
      <4>1. history[g] = runner[r].files[g] /\ runner[r].files[g] \in First..texts[g] /\ texts[g] \in Nat
        BY <1>1, <1>3, <3>1 DEF Passed
      <4> HIDE DEF f
      <4> QED BY <4>1 DEF Recorded, First
    <3>2. ASSUME NEW g \in SqlFiles PROVE Recorded(g)' <=> g = f \/ Recorded(g)
      BY <1>4, <2>5 DEF Recorded, First
    <3>3. ASSUME NEW g \in SqlFiles, NEW m \in StatementsOf(g), g # f
          PROVE  /\ Recorded(g)' => schema'[g][m] # Nothing /\ (schema'[g][m] = history'[g] \/ LeftAlone(g, m)')
                 /\ Recorded(g)' \/ schema'[g][m] >= First => \A h \in SqlFiles : h < g => Recorded(h)'
      BY <1>2, <2>5, <3>2, <3>3 DEF MigrationInv, HistoryTrue, LeftAlone
    <3>4. ASSUME NEW g \in SqlFiles, NEW m \in StatementsOf(g), g = f
          PROVE  /\ schema'[g][m] # Nothing /\ (schema'[g][m] = history'[g] \/ LeftAlone(g, m)')
                 /\ \A h \in SqlFiles : h < g => Recorded(h)'
      BY <1>2, <2>5, <2>6, <3>1, <3>2, <3>4 DEF StatementDone, LeftAlone
    <3> HIDE DEF f
    <3> QED BY <3>3, <3>4 DEF HistoryTrue
  <2>10. ASSUME NEW q \in Runners, q # r PROVE Honest(q)'
    <3>1. runner[q].stage # "serving"
      BY <1>4, <2>10 DEF MigrationInv, Honest, Phase, First
    <3> QED BY <1>2, <1>3, <2>4, <2>10, <3>1 DEF MigrationInv, Honest, Phase, Working
  <2>11. Honest(r)'
    <3>1. \A g \in SqlFiles : /\ g < f + 1 => g < f \/ g = f
                              /\ g >= f + 1 => g >= f /\ g # f
      <4>1. \A g \in SqlFiles : g \in Nat
        BY <1>4
      <4> QED BY <1>4, <4>1, NextFile
    <3>2. Passed(r, f + 1)'
      BY <1>3, <2>2, <2>4, <2>5, <3>1 DEF Passed
    <3>3. Ahead(r, f + 1)'
      BY <1>3, <2>2, <2>4, <2>5, <3>1 DEF Ahead
    <3> QED BY <1>2, <1>3, <2>2, <2>4, <3>2, <3>3 DEF Honest, Phase
  <2> QED BY <2>7, <2>8, <2>9, <2>10, <2>11 DEF MigrationInv
<1>6. CASE Goes(r, "failed") /\ UNCHANGED history
  BY <1>2, <1>6, FailsStep
<1> QED BY <1>5, <1>6 DEF Records

\* A release, and what is not about the migrations at all.
LEMMA DeploysStep == ASSUME MigrationInv, NEW f \in SqlFiles, Deploys(f) PROVE MigrationInv'
<1>1. /\ texts \in [SqlFiles -> Nat] /\ texts' = [texts EXCEPT ![f] = @ + 1] /\ \A g \in SqlFiles : texts[g] >= First
      /\ UNCHANGED <<schema, history, lockOwner, runner>>
  BY DEF MigrationInv, Typed, Deploys
<1>2. texts' \in [SqlFiles -> Nat] /\ \A g \in SqlFiles : texts'[g] >= texts[g] /\ texts'[g] >= First
  BY <1>1 DEF First
<1>3. \A g \in SqlFiles : 0..texts[g] \subseteq 0..texts'[g] /\ First..texts[g] \subseteq First..texts'[g]
  BY <1>1, <1>2 DEF First
<1>4. Typed'
  <2>1. \A g \in SqlFiles : schema[g] \in [StatementsOf(g) -> 0..texts'[g]]
    BY <1>3 DEF MigrationInv, Typed
  <2> QED BY <1>1, <1>2, <2>1 DEF MigrationInv, Typed
<1>5. \A g \in SqlFiles : \A m : LeftAlone(g, m) => LeftAlone(g, m)'
  BY <1>1, <1>2 DEF LeftAlone, First
<1>6. OneMigrates' /\ HistoryTrue'
  BY <1>1, <1>5 DEF MigrationInv, OneMigrates, HistoryTrue, Recorded
<1>7. ASSUME NEW r \in Runners PROVE Honest(r)'
  <2>1. InWork(r) => InWork(r)'
    BY <1>1, <1>5 DEF InWork, StatementDone
  <2> QED BY <1>1, <1>3, <2>1 DEF MigrationInv, Honest, Phase, Passed, Ahead
<1> QED BY <1>4, <1>6, <1>7 DEF MigrationInv

-----------------------------------------------------------------------------
(* The invariant, and what it says.                                        *)

LEMMA MigrationsStep == MigrationInv /\ [MigrationsNext]_migrationVars => MigrationInv'
<1> SUFFICES ASSUME MigrationInv, [MigrationsNext]_migrationVars PROVE MigrationInv'
  OBVIOUS
<1>1. ASSUME NEW r \in Runners, Connects(r) \/ Migrates(r) \/ Killed(r) PROVE MigrationInv'
  <2>1. \/ Connects(r) \/ AcquireLock(r) \/ ReadApplied(r) \/ Chooses(r)
        \/ Executes(r) \/ Records(r) \/ Exits(r) \/ Killed(r)
    BY <1>1 DEF Migrates
  <2> QED BY <2>1, ConnectsStep, LocksStep, ChoosesStep, ExecutesStep, RecordsStep, RunnerLeaves
<1>2. ASSUME NEW f \in SqlFiles, Deploys(f) PROVE MigrationInv'
  BY <1>2, DeploysStep
<1>3. CASE UNCHANGED migrationVars
  <2>1. UNCHANGED <<schema, history, texts, lockOwner, runner>>
    BY <1>3 DEF migrationVars
  <2>2. Typed' /\ OneMigrates' /\ HistoryTrue'
    BY <2>1 DEF MigrationInv, Typed, OneMigrates, HistoryTrue, Recorded, LeftAlone
  <2>3. \A r \in Runners : Honest(r)'
    BY <2>1 DEF MigrationInv, Honest, Phase, Passed, Ahead, InWork, StatementDone, LeftAlone
  <2> QED BY <2>2, <2>3 DEF MigrationInv
<1> QED BY <1>1, <1>2, <1>3 DEF MigrationsNext

\* What the invariant says.
LEMMA InvMigrationSound == MigrationInv => MigrationSound
BY DEF MigrationInv, MigrationSound, ServedOnOwnSchema, Honest, Phase

\* The runner's invariant: what each container knows of the history is true.
THEOREM MigrationsKeepInv == MigrationSpec => []MigrationInv
BY MigrationsStart, MigrationsStep, PTL DEF MigrationSpec

\* Containers migrate one at a time, what the history records is in force whole and in
\* order, and who serves does so on the texts of its own release, through whatever
\* kills, errors, timeouts of the lock and releases come between two statements.
THEOREM MigrationsTrue == MigrationSpec => []MigrationSound
BY MigrationsKeepInv, InvMigrationSound, PTL

-----------------------------------------------------------------------------
(* The types.                                                              *)

\* The free slots are what the requests that make a clip leave of them.
LEMMA SpeechTypes == SpeechInv => SpeechTypeOK
<1> SUFFICES ASSUME SpeechInv PROVE SpeechTypeOK
  OBVIOUS
<1>1. free \in 0..Slots
  BY HoldersFinite, SpeechAssumption DEF SpeechInv, AsksTyped, MakerInv
<1>2. \A p \in Procs : proc[p] \in Progress
  BY DEF SpeechInv, SpeechTyped
<1> QED BY <1>1, <1>2 DEF SpeechInv, SpeechTyped, AsksTyped, SpeechTypeOK, Metas, Progress

\* No group has a number above how many there may be: who has counted the others counts a
\* new one that was none of them.
Highest == Cardinality(RallyIds)
NumbersBound ==
  /\ number \in [RallyIds -> 0..Highest]
  /\ \A e \in Edits :
       /\ Renumbering(e) => edit[e].id \in RallyIds /\ edit[e].seen \in [RallyIds -> 0..Highest]
       /\ edit[e].stage = "counted" => edit[e].seen[edit[e].id] = 0

MembersBound == exists \subseteq Captains /\ NumbersBound

LEMMA BoundsBegin == MembersInit => MembersBound
<1> SUFFICES ASSUME MembersInit PROVE MembersBound
  OBVIOUS
<1>1. /\ exists = Captains /\ number = [g \in RallyIds |-> 0] /\ edit = [e \in Edits |-> NotEdited]
  BY DEF MembersInit
<1>2. Highest \in Nat
  BY RallyMembersAssumption, FS_CardinalityType DEF Highest
<1>3. \A e \in Edits : edit[e].stage = "ready"
  BY <1>1 DEF NotEdited
<1> QED BY <1>1, <1>2, <1>3 DEF MembersBound, NumbersBound, Renumbering

LEMMA NumbersBounded ==
  ASSUME NumbersInv, NumbersBound, NumbersNext
  PROVE  NumbersBound'
<1>1. number \in [RallyIds -> 0..Highest] /\ edit \in [Edits -> Looks] /\ IsFiniteSet(RallyIds) /\ Highest \in Nat
  BY RallyMembersAssumption, FS_CardinalityType DEF NumbersInv, NumbersBound, Highest
<1>2. ASSUME NEW e \in Edits, NEW g \in RallyIds, NEW s \in {"counted", "found", "over"},
             edit' = [edit EXCEPT ![e] = [stage |-> s, id |-> g, seen |-> number]], UNCHANGED number,
             s = "counted" => number[g] = 0
      PROVE  NumbersBound'
  <2>1. edit'[e] = [stage |-> s, id |-> g, seen |-> number] /\ \A d \in Edits : d # e => edit'[d] = edit[d]
    BY <1>1, <1>2
  <2>2. ASSUME NEW d \in Edits
        PROVE  /\ Renumbering(d)' => edit'[d].id \in RallyIds /\ edit'[d].seen \in [RallyIds -> 0..Highest]
               /\ edit'[d].stage = "counted" => edit'[d].seen[edit'[d].id] = 0
    BY <1>1, <1>2, <2>1 DEF NumbersBound, Renumbering
  <2> QED BY <1>1, <1>2, <2>2 DEF NumbersBound, Highest
<1>3. ASSUME NEW e \in Edits, edit' = [edit EXCEPT ![e].stage = "over"], number' \in [RallyIds -> 0..Highest]
      PROVE  NumbersBound'
  <2>1. edit'[e].stage = "over" /\ \A d \in Edits : d # e => edit'[d] = edit[d]
    BY <1>1, <1>3 DEF Looks
  <2> QED BY <1>3, <2>1 DEF NumbersBound, Renumbering, Highest
<1>4. ASSUME NEW e \in Edits, CreateSaves(e) PROVE NumbersBound'
  <2> DEFINE seen == edit[e].seen
             id == edit[e].id
  <2>1. id \in RallyIds /\ seen \in [RallyIds -> 0..Highest] /\ seen[id] = 0
    BY <1>4 DEF CreateSaves, NumbersBound, Renumbering
  <2>2. Listed(seen) \subseteq RallyIds \ {id} /\ IsFiniteSet(RallyIds \ {id})
        /\ Cardinality(RallyIds \ {id}) = Highest - 1
    BY <1>1, <2>1, FS_RemoveElement DEF Listed, Highest
  <2>3. Cardinality(Listed(seen)) \in Nat /\ Cardinality(Listed(seen)) <= Highest - 1
    BY <2>2, FS_Subset, FS_CardinalityType
  <2>4. Cardinality(Listed(seen)) + 1 \in 0..Highest
    BY <1>1, <2>3
  <2>5. number' = [number EXCEPT ![id] = Cardinality(Listed(seen)) + 1]
    BY <1>4 DEF CreateSaves
  <2>6. number' \in [RallyIds -> 0..Highest]
    <3> HIDE DEF seen, id
    <3> QED BY <1>1, <2>4, <2>5
  <2> QED BY <1>3, <1>4, <2>6 DEF CreateSaves
<1>5. ASSUME NEW e \in Edits, RemoveSaves(e) PROVE NumbersBound'
  <2> DEFINE seen == edit[e].seen
             id == edit[e].id
  <2>1. id \in RallyIds /\ seen \in [RallyIds -> 0..Highest]
    BY <1>5 DEF RemoveSaves, NumbersBound, Renumbering
  <2>2. \A h \in RallyIds : MovedUp(seen, id)[h] \in 0..Highest
    <3> HIDE DEF seen, id
    <3> QED BY <1>1, <2>1 DEF MovedUp
  <2>3. number' \in [RallyIds -> 0..Highest]
    BY <1>1, <1>5, <2>2 DEF RemoveSaves
  <2> QED BY <1>3, <1>5, <2>3 DEF RemoveSaves
<1>6. ASSUME NEW e \in Edits, NEW g \in RallyIds, CreateCounts(e, g) \/ RemoveReads(e, g) PROVE NumbersBound'
  BY <1>2, <1>6 DEF CreateCounts, RemoveReads
<1> QED BY <1>4, <1>5, <1>6 DEF NumbersNext

LEMMA MembersBounded ==
  NumbersInv /\ MembersBound
    /\ [(MembersNext /\ UNCHANGED numberVars) \/ (NumbersNext /\ UNCHANGED memberVars)]_rallyMemberVars
  => MembersBound'
<1> SUFFICES ASSUME NumbersInv, MembersBound,
                    [(MembersNext /\ UNCHANGED numberVars) \/ (NumbersNext /\ UNCHANGED memberVars)]_rallyMemberVars
             PROVE  MembersBound'
  OBVIOUS
<1>1. ASSUME MembersNext PROVE exists' \subseteq exists
  BY <1>1 DEF MembersNext, StopGroup, AccountGoes, AddInserts, OverrideWrites, Sorts, SettingsCheck, StartSorts,
     StartLoads, AddCounts, RemoveMember, SettingsWrite, OverrideChecks, keepsGroup
<1>2. ASSUME UNCHANGED numberVars PROVE NumbersBound'
  BY <1>2 DEF MembersBound, NumbersBound, Renumbering, numberVars, Highest
<1>3. UNCHANGED numberVars \/ NumbersNext
  BY DEF rallyMemberVars
<1>4. exists' \subseteq exists
  BY <1>1 DEF rallyMemberVars, memberVars
<1> QED BY <1>2, <1>3, <1>4, NumbersBounded DEF MembersBound

LEMMA MembersTypes == MembersInv /\ MembersBound => MembersTypeOK
BY DEF MembersInv, MembersTyped, MembersBound, NumbersBound, Highest, MembersTypeOK

\* A text is as new as the releases have made it, and so is what is recorded of it.
TextsBound ==
  /\ hasDatabase \in BOOLEAN /\ deploys \in 0..MaxDeploys
  /\ \A f \in SqlFiles :
       /\ texts[f] <= First + deploys /\ history[f] <= First + MaxDeploys
       /\ \A r \in Runners : runner[r].files[f] <= First + MaxDeploys

LEMMA TextsBegin == MigrationsInit => TextsBound
<1> SUFFICES ASSUME MigrationsInit PROVE TextsBound
  OBVIOUS
<1>1. /\ hasDatabase \in BOOLEAN /\ deploys = 0 /\ texts = [f \in SqlFiles |-> First]
      /\ runner = [r \in Runners |-> NotStarted] /\ \A f \in SqlFiles : history[f] \in {0, First}
  BY DEF MigrationsInit
<1> QED BY <1>1, MigrationsAssumption DEF TextsBound, NotStarted, NothingKnown, First

LEMMA TextsBounded == MigrationInv /\ TextsBound /\ [MigrationsNext]_migrationVars => TextsBound'
<1> SUFFICES ASSUME MigrationInv, TextsBound, [MigrationsNext]_migrationVars PROVE TextsBound'
  OBVIOUS
<1>1. /\ texts \in [SqlFiles -> Nat] /\ history \in [SqlFiles -> Nat] /\ MaxDeploys \in Nat
      /\ runner \in [Runners -> [stage : RunnerStages, file : Nat, next : Nat,
                                 files : [SqlFiles -> Nat], known : [SqlFiles -> Nat]]]
  BY MigrationsAssumption DEF MigrationInv, Typed
<1>2. ASSUME NEW r \in Runners, \A s \in Runners \ {r} : runner'[s] = runner[s],
             runner'[r].files \in {runner[r].files, texts, NothingKnown},
             hasDatabase' \in BOOLEAN, UNCHANGED <<texts, deploys>>,
             history' = history \/ history' = [history EXCEPT ![runner[r].file] = runner[r].files[runner[r].file]]
      PROVE  TextsBound'
  <2>1. ASSUME NEW f \in SqlFiles, NEW s \in Runners PROVE runner'[s].files[f] <= First + MaxDeploys
    BY <1>1, <1>2 DEF TextsBound, NothingKnown, First
  <2>2. ASSUME NEW f \in SqlFiles PROVE history'[f] <= First + MaxDeploys
    BY <1>1, <1>2 DEF TextsBound, First
  <2> QED BY <1>2, <2>1, <2>2 DEF TextsBound
<1>3. ASSUME NEW r \in Runners, Connects(r) \/ Migrates(r) \/ Killed(r)
      PROVE  /\ \A s \in Runners \ {r} : runner'[s] = runner[s]
             /\ runner'[r].files \in {runner[r].files, texts, NothingKnown}
             /\ hasDatabase' \in BOOLEAN /\ UNCHANGED <<texts, deploys>>
             /\ history' = history \/ history' = [history EXCEPT ![runner[r].file] = runner[r].files[runner[r].file]]
  <2>1. CASE Connects(r) \/ Exits(r) \/ Killed(r)
    <3>1. NotStarted.files = NothingKnown /\ [NotStarted EXCEPT !.stage = "waiting", !.files = texts].files = texts
          /\ [runner[r] EXCEPT !.stage = "serving"].files = runner[r].files
      BY <1>1 DEF NotStarted
    <3>2. PICK old, new, known : old = NotStarted /\ new = [NotStarted EXCEPT !.stage = "waiting", !.files = texts]
                                 /\ known = [runner[r] EXCEPT !.stage = "serving"]
      OBVIOUS
    <3>3. runner' \in {[runner EXCEPT ![r] = old], [runner EXCEPT ![r] = new], [runner EXCEPT ![r] = known]}
      BY <2>1, <3>2 DEF Connects, Exits, Killed
    <3>4. hasDatabase' \in BOOLEAN /\ UNCHANGED <<texts, deploys, history>>
      BY <2>1 DEF TextsBound, Connects, Exits, Killed
    <3> QED BY <1>1, <3>1, <3>2, <3>3, <3>4
  <2>2. CASE AcquireLock(r) \/ ReadApplied(r)
    BY <1>1, <2>2 DEF TextsBound, AcquireLock, ReadApplied, Goes
  <2>3. CASE Chooses(r)
    <3>1. hasDatabase' \in BOOLEAN /\ UNCHANGED <<texts, deploys, history>>
      BY <2>3 DEF TextsBound, Chooses
    <3>2. CASE Goes(r, "done")
      BY <1>1, <3>1, <3>2 DEF Goes
    <3>3. ASSUME NEW f, NEW s, runner' = [runner EXCEPT ![r].file = f, ![r].next = 1, ![r].stage = s]
          PROVE  (\A q \in Runners \ {r} : runner'[q] = runner[q]) /\ runner'[r].files = runner[r].files
      BY <1>1, <3>3
    <3>4. Goes(r, "done") \/ \E f, s : runner' = [runner EXCEPT ![r].file = f, ![r].next = 1, ![r].stage = s]
      BY <2>3, Zenon DEF Chooses
    <3> QED BY <3>1, <3>2, <3>3, <3>4
  <2>4. CASE Executes(r)
    BY <1>1, <2>4 DEF TextsBound, Executes, Goes
  <2>5. CASE Records(r)
    BY <1>1, <2>5 DEF TextsBound, Records, Goes
  <2> QED BY <1>3, <2>1, <2>2, <2>3, <2>4, <2>5 DEF Migrates
<1>4. ASSUME NEW f \in SqlFiles, Deploys(f) PROVE TextsBound'
  BY <1>1, <1>4 DEF Deploys, TextsBound, First
<1>5. ASSUME UNCHANGED migrationVars PROVE TextsBound'
  BY <1>5 DEF migrationVars, TextsBound
<1> QED BY <1>2, <1>3, <1>4, <1>5 DEF MigrationsNext

LEMMA MigrationsTypes == MigrationInv /\ TextsBound => MigrationsTypeOK
<1> SUFFICES ASSUME MigrationInv, TextsBound PROVE MigrationsTypeOK
  OBVIOUS
<1>1. \A f \in SqlFiles : texts[f] \in Nat /\ texts[f] <= First + MaxDeploys /\ history[f] \in Nat
  BY MigrationsAssumption DEF MigrationInv, Typed, TextsBound, First
<1>2. history \in [SqlFiles -> Texts] /\ \A f \in SqlFiles : 0..texts[f] \subseteq Texts
  BY <1>1, MigrationsAssumption DEF MigrationInv, Typed, TextsBound, First, Texts
<1>3. \A f \in SqlFiles : schema[f] \in [StatementsOf(f) -> Texts]
  BY <1>2 DEF MigrationInv, Typed
<1>4. \A r \in Runners : runner[r].stage \in RunnerStages
  BY DEF MigrationInv, Typed
<1> QED BY <1>2, <1>3, <1>4 DEF MigrationInv, Typed, TextsBound, MigrationsTypeOK, RunnerStages
=============================================================================
