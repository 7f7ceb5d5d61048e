---------------------------- MODULE UploadQuota ----------------------------
(***************************************************************************)
(* The disk quota of the image uploads (server/src/boards:                 *)
(* board-upload-quota.service.ts, its interceptor, and the guards that     *)
(* reserve through it).  An upload reserves the largest size it may have   *)
(* before its body is read; what is on disk is measured by a scan that is  *)
(* shared by the requests that wait for it and thrown away whenever a      *)
(* reservation ends or a file is deleted.                                  *)
(***************************************************************************)
EXTENDS Integers, FiniteSetsExt

CONSTANTS
  Uploads,   \* requests; also the file each one writes
  Quota,     \* BOARD_UPLOAD_TOTAL_QUOTA_BYTES
  FileLimit  \* BOARD_UPLOAD_LIMITS.fileSize: what a request reserves

ASSUME QuotaAssumption == Quota \in Nat /\ FileLimit \in Nat \ {0} /\ IsFiniteSet(Uploads)

VARIABLES
  upload,    \* where each request stands
  gone,      \* requests whose connection closed while they waited
  written,   \* bytes of the file of each request that are on disk
  held,      \* reservations: the Map from tokens to bytes
  reserved,  \* reservedBytes
  version,   \* invalidationVersion
  measured,  \* diskBytes, lastScannedVersion, and whether lastScanAt is recent
  scan       \* the shared scanPromise

quotaVars == <<upload, gone, written, held, reserved, version, measured, scan>>

Stages == {"none", "waiting", "granted", "received", "aborted", "rejected", "done"}
NoScan == [on |-> FALSE, version |-> 0, left |-> {}, total |-> 0]
NothingMeasured == [bytes |-> 0, version |-> -1, recent |-> FALSE]

\* Only a running scan is remembered across steps; a new process knows nothing.
QuotaInit ==
  /\ upload = [u \in Uploads |-> "none"]
  /\ gone = {}
  /\ written = [u \in Uploads |-> 0]
  /\ held = {}
  /\ reserved = 0
  /\ version = 0
  /\ measured = NothingMeasured
  /\ scan = NoScan

FilesOnDisk == {u \in Uploads : written[u] > 0}
Waiting == {u \in Uploads : upload[u] = "waiting"}
Bytes(files) == MapThenSumSet(LAMBDA u : written[u], files)

-----------------------------------------------------------------------------
(* invalidate and release.                                                 *)

Invalidated(m) == [m EXCEPT !.recent = FALSE]

Invalidate == version' = version + 1 /\ measured' = Invalidated(measured)

\* MUTANT of Release: it subtracts the bytes of a token that was already released.
ReleaseTwice(u) ==
  /\ held' = held \ {u}
  /\ reserved' = IF reserved >= FileLimit THEN reserved - FileLimit ELSE 0
  /\ Invalidate

\* MUTANT of Release: neither the map nor the floor is looked at.
ReleaseBlindly(u) ==
  /\ held' = held \ {u} /\ reserved' = reserved - FileLimit
  /\ Invalidate

\* A token that is not in the map any more changes nothing.
Release(u) ==
  IF u \in held
  THEN /\ held' = held \ {u}
       /\ reserved' = IF reserved >= FileLimit THEN reserved - FileLimit ELSE 0
       /\ Invalidate
  ELSE UNCHANGED <<held, reserved, version, measured>>

-----------------------------------------------------------------------------
(* scanUploadBytes: a scan lists the files, adds up their sizes one by one *)
(* and stops early above the quota.                                        *)

Usable(m) == m.version = version /\ m.recent

\* The guard of the request passed its role and rate checks and waits in
\* refreshQuotaIfNeeded.
Ask(u) ==
  /\ upload[u] = "none"
  /\ upload' = [upload EXCEPT ![u] = "waiting"]
  /\ UNCHANGED <<gone, written, held, reserved, version, measured, scan>>

\* A waiting request starts the scan no other request has started.
ScanStarts ==
  /\ Waiting # {} /\ ~scan.on /\ ~Usable(measured)
  /\ scan' = [on |-> TRUE, version |-> version, left |-> FilesOnDisk, total |-> 0]
  /\ UNCHANGED <<upload, gone, written, held, reserved, version, measured>>

ScanReads(u) ==
  /\ scan.on /\ u \in scan.left /\ u \in FilesOnDisk /\ scan.total <= Quota
  /\ scan' = [on |-> TRUE, version |-> scan.version,
              left |-> scan.left \ {u}, total |-> scan.total + written[u]]
  /\ UNCHANGED <<upload, gone, written, held, reserved, version, measured>>

\* MUTANT of ScanEnds: the scan vouches for the version it ends with.
ScanEndsNow ==
  /\ scan.on /\ (scan.left = {} \/ scan.total > Quota)
  /\ measured' = [bytes |-> scan.total, version |-> version, recent |-> TRUE]
  /\ scan' = NoScan
  /\ UNCHANGED <<upload, gone, written, held, reserved, version>>

\* MUTANT of ScanEnds: the time of the scan is never set.
ScanEndsStale ==
  /\ scan.on /\ (scan.left = {} \/ scan.total > Quota)
  /\ measured' = [bytes |-> scan.total, version |-> scan.version, recent |-> FALSE]
  /\ scan' = NoScan
  /\ UNCHANGED <<upload, gone, written, held, reserved, version>>

\* It vouches for the version it began with only.
ScanEnds ==
  /\ scan.on /\ (scan.left = {} \/ scan.total > Quota)
  /\ measured' = [bytes |-> scan.total, version |-> scan.version,
                  recent |-> scan.version = version]
  /\ scan' = NoScan
  /\ UNCHANGED <<upload, gone, written, held, reserved, version>>

\* A file that vanished between the listing and its stat fails the scan, and
\* with it every request that waits for it (503).
ScanFails ==
  /\ scan.on /\ \E u \in scan.left : u \notin FilesOnDisk
  /\ scan' = NoScan
  /\ upload' = [u \in Uploads |-> IF upload[u] = "waiting" THEN "rejected" ELSE upload[u]]
  /\ UNCHANGED <<gone, written, held, reserved, version, measured>>

\* Five seconds pass.  Requests resume in the same turn as the scan ends, so
\* no time passes while one of them may go on.
MeasureAges ==
  /\ measured.recent /\ Waiting = {}
  /\ measured' = Invalidated(measured)
  /\ UNCHANGED <<upload, gone, written, held, reserved, version, scan>>

-----------------------------------------------------------------------------
(* reserve, and what happens to the request afterwards.                    *)

\* MUTANT of Accept: a request that was closed while it waited keeps its token.
AcceptGone(u) ==
  /\ upload[u] = "waiting" /\ ~scan.on /\ Usable(measured)
  /\ IF measured.bytes + reserved + FileLimit > Quota
     THEN /\ upload' = [upload EXCEPT ![u] = "rejected"]
          /\ UNCHANGED <<held, reserved, version, measured>>
     ELSE /\ held' = held \cup {u} /\ reserved' = reserved + FileLimit
          /\ upload' = [upload EXCEPT ![u] = IF u \in gone THEN "aborted" ELSE "granted"]
          /\ UNCHANGED <<version, measured>>
  /\ UNCHANGED <<gone, written, scan>>

\* reserve goes on with a usable measurement: 507, or a token.  A request whose
\* connection closed meanwhile gives the token back at once (408).
Accept(u) ==
  /\ upload[u] = "waiting" /\ ~scan.on /\ Usable(measured)
  /\ \/ /\ measured.bytes + reserved + FileLimit > Quota
        /\ upload' = [upload EXCEPT ![u] = "rejected"]
        /\ UNCHANGED <<held, reserved, version, measured>>
     \/ /\ measured.bytes + reserved + FileLimit <= Quota /\ u \notin gone
        /\ held' = held \cup {u} /\ reserved' = reserved + FileLimit
        /\ upload' = [upload EXCEPT ![u] = "granted"]
        /\ UNCHANGED <<version, measured>>
     \/ /\ measured.bytes + reserved + FileLimit <= Quota /\ u \in gone
        /\ upload' = [upload EXCEPT ![u] = "aborted"]
        /\ Invalidate
        /\ UNCHANGED <<held, reserved>>
  /\ UNCHANGED <<gone, written, scan>>

\* Multer appends a chunk of the body; it cuts a file at the limit.
Write(u) ==
  /\ upload[u] = "granted" /\ written[u] < FileLimit
  /\ written' = [written EXCEPT ![u] = @ + 1]
  /\ UNCHANGED <<upload, gone, held, reserved, version, measured, scan>>

Receive(u) ==
  /\ upload[u] = "granted" /\ written[u] > 0
  /\ upload' = [upload EXCEPT ![u] = "received"]
  /\ UNCHANGED <<gone, written, held, reserved, version, measured, scan>>

\* The connection closes.  While the request waits there is no token yet; once
\* its whole body has arrived the interceptor looks after it.
Disconnect(u) ==
  \/ /\ upload[u] = "waiting" /\ u \notin gone
     /\ gone' = gone \cup {u}
     /\ UNCHANGED <<upload, written, held, reserved, version, measured, scan>>
  \/ /\ upload[u] = "granted"
     /\ upload' = [upload EXCEPT ![u] = "aborted"]
     /\ Release(u)
     /\ UNCHANGED <<gone, written, scan>>

\* The interceptor's finalize runs the cleanup of the request, also the one the
\* disconnect has already run; Multer may have removed the file it gave up.
Finalize(u) ==
  /\ \/ upload[u] = "received" /\ UNCHANGED written
     \/ /\ upload[u] = "aborted"
        /\ written' \in {written, [written EXCEPT ![u] = 0]}
  /\ upload' = [upload EXCEPT ![u] = "done"]
  /\ Release(u)
  /\ UNCHANGED <<gone, scan>>

\* A post, a saved board or a purge gives a file back: unlink, then invalidate.
DeleteFile(u) ==
  /\ upload[u] = "done" /\ written[u] > 0
  /\ written' = [written EXCEPT ![u] = 0]
  /\ Invalidate
  /\ UNCHANGED <<upload, gone, held, reserved, scan>>

\* The process restarts: the requests, the reservations and the measurement are
\* lost, the files stay.
QuotaRestart ==
  /\ upload' = [u \in Uploads |-> IF upload[u] = "none" THEN "none" ELSE "done"]
  /\ gone' = {} /\ held' = {} /\ reserved' = 0 /\ version' = 0
  /\ measured' = NothingMeasured /\ scan' = NoScan
  /\ UNCHANGED written

QuotaNext ==
  \/ ScanStarts \/ ScanEnds \/ ScanFails \/ MeasureAges \/ QuotaRestart
  \/ \E u \in Uploads : \/ Ask(u) \/ ScanReads(u) \/ Accept(u) \/ Write(u) \/ Receive(u)
                        \/ Disconnect(u) \/ Finalize(u) \/ DeleteFile(u)

\* The scan is a chain of promises and a resolved promise resumes its callers.
QuotaFairness ==
  WF_quotaVars(ScanStarts \/ ScanEnds \/ ScanFails \/ \E u \in Uploads : ScanReads(u) \/ Accept(u))

-----------------------------------------------------------------------------
(* Properties.                                                             *)

\* Every variable of the quota has its type.
QuotaTypeOK ==
  /\ upload \in [Uploads -> Stages]
  /\ gone \subseteq Uploads /\ held \subseteq Uploads
  /\ written \in [Uploads -> 0..FileLimit]
  /\ reserved \in Nat /\ version \in Nat
  /\ measured \in [bytes : Nat, version : Nat \cup {-1}, recent : BOOLEAN]
  /\ scan \in [on : BOOLEAN, version : Nat, left : SUBSET Uploads, total : Nat]

\* What is on disk and what the running uploads may still write never exceed
\* the quota together, whatever was written, released or deleted while a scan
\* was adding up the files (reserve checks a measurement made earlier).
NeverOvercommitted ==
  Bytes(Uploads \ held) + Cardinality(held) * FileLimit <= Quota

\* Exactly the uploads under way hold a reservation, and reservedBytes is what
\* they hold: a request that is rejected, closed at any moment or finished twice
\* neither leaks its bytes nor gives back those of another.
ReservationsExact ==
  /\ held = {u \in Uploads : upload[u] \in {"granted", "received"}}
  /\ reserved = Cardinality(held) * FileLimit

\* The quota holds, and so do the books it is kept in.
QuotaHolds == NeverOvercommitted /\ ReservationsExact
=============================================================================
