----------------------------- MODULE MCStorage -----------------------------
(***************************************************************************)
(* A small instance of what the server keeps for the community: the quota  *)
(* of the uploads, the uploaded files, the lists that are broadcast, the   *)
(* cache of spoken clips, the members of the rally groups and the schema   *)
(* of the database.  They share no state, so a behaviour runs one of them  *)
(* (part) while the others stay where they began: the states add up and do *)
(* not multiply.                                                           *)
(***************************************************************************)
EXTENDS UploadQuota, UploadFiles, Bulletin, SpeechCache, RallyMembers, Migrations, TLC

CONSTANTS n1, w1, ko, a1, m1

VARIABLE part

vars == <<quotaVars, filesVars, bulletinVars, speechVars, rallyMemberVars, migrationVars, part>>

Parts == {"quota", "images", "backgrounds", "purged", "lists", "cache", "clips", "script", "members", "groups", "schema"}

\* The voice of both clips, and three migrations of two statements each.
SpokenBy == n1 :> ko @@ w1 :> ko
TwoOfEach == <<2, 2, 2>>

\* Each part begins in any of its initial states, the others in one.
Init ==
  /\ QuotaInit /\ FilesInit /\ BulletinInit /\ SpeechInit /\ MembersInit /\ MigrationsInit
  /\ part \in Parts
  /\ part \notin {"cache", "clips", "script"} => disk = [c \in Clips |-> "none"]
  /\ part # "cache" => meta = Current
  /\ part # "members" => order = [u \in Captains |-> 0] /\ march = [u \in Captains |-> 0]
  /\ part # "schema" => ~hasDatabase

\* The images and the backgrounds lie in folders of their own.
Unused(files) == \A f \in files : file'[f] = "none"

\* Two removals at a time, or one beside a purge.
OneRemoval == \A p \in Removers \ {m1} : removal'[p] = NoRemoval

\* Two releases, or one that the script meets.
OneScript == releases' <= 1 \/ proc'["script"] = Halted

\* One request at a time is made again.
OneRetried == \A a, o \in Asks : ask'[a].tries > 0 /\ ask'[o].tries > 0 => a = o

\* The caches are sound when the server and the script begin; one request is enough
\* beside the script.
Boots(p) == Start(p) \/ ReadsMeta(p) \/ ListsFiles(p) \/ WritesMeta(p)
SpeechParts ==
  \/ part = "cache" /\ ReconcileNext /\ OneScript
  \/ part = "clips" /\ (ClipNext \/ Boots("server") \/ Stop("server")) /\ OneRetried
  \/ /\ part = "script" /\ (ClipNext \/ \E p \in Procs : Boots(p))
     /\ \A a \in Asks \ {a1} : ask'[a] = ask[a]

Keep(p, v) == part \notin p => UNCHANGED v

Next ==
  /\ UNCHANGED part
  /\ \/ part = "quota" /\ QuotaNext
     \/ part = "images" /\ FilesNext /\ Unused(Backgrounds)
     \/ part = "backgrounds" /\ FilesNext /\ Unused(Images) /\ UNCHANGED purge
     \/ part = "purged" /\ FilesNext /\ Unused(Images) /\ OneRemoval
     \/ part = "lists" /\ BulletinNext
     \/ SpeechParts
     \/ part = "members" /\ MembersNext /\ UNCHANGED numberVars
     \/ part = "groups" /\ NumbersNext /\ UNCHANGED memberVars
     \/ part = "schema" /\ MigrationsNext
  /\ Keep({"quota"}, quotaVars) /\ Keep({"images", "backgrounds", "purged"}, filesVars) /\ Keep({"lists"}, bulletinVars)
  /\ Keep({"cache", "clips", "script"}, speechVars) /\ Keep({"members", "groups"}, rallyMemberVars)
  /\ Keep({"schema"}, migrationVars)

Spec == Init /\ [][Next]_vars /\ QuotaFairness /\ SpeechFairness

\* Every variable has its type.
TypeOK == QuotaTypeOK /\ FilesTypeOK /\ BulletinTypeOK /\ SpeechTypeOK /\ MembersTypeOK /\ MigrationsTypeOK

\* The quota holds; what is spoken is neither old nor broken nor made twice; the
\* captains are numbered and called as they have to start; the schema of the database
\* is what its history says.
StorageSound == QuotaHolds /\ SpeechSound /\ MembersSound /\ MigrationSound

\* Whoever waits, for room for a file or for a clip, is answered.
Waits == Waiting # {} \/ SpeechOpen
WaitersEnd == Waits ~> ~Waits
=============================================================================
