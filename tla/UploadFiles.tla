---------------------------- MODULE UploadFiles ----------------------------
(***************************************************************************)
(* The uploaded files and who refers to them (server/src/boards,           *)
(* server/src/operation-boards, server/src/admin/upload-orphan.service.ts).*)
(* Posts refer to images, saved operation boards and the live one to       *)
(* backgrounds.  Files are given back when the row that named them is      *)
(* deleted, and by a purge of the files nobody refers to.                  *)
(***************************************************************************)
EXTENDS Integers, FiniteSetsExt

CONSTANTS
  Images, Backgrounds,  \* files of uploads/boards and of uploads/operation-boards
  Posts, Boards,        \* rows: board_posts, operation_boards
  Removers,             \* requests that delete a row
  None

VARIABLES
  file,     \* the file: "none" before its upload, "recent" within the grace, "old", "deleted"
  row,      \* the rows: whether they are there and the file they name
  live,     \* the background of the live operation board, or None
  removal,  \* the progress of each request that deletes a row
  purge,    \* the progress of the administrator's purge
  spared,   \* backgrounds a removal kept: shown live, or unlink failed
  steady    \* per request: the references that were there ever since it began

filesVars == <<file, row, live, removal, purge, spared, steady>>

Files == Images \cup Backgrounds
Rows == Posts \cup Boards
FolderOf(r) == IF r \in Posts THEN Images ELSE Backgrounds

\* The two folders and the two tables are different ones.
ASSUME FilesAssumption ==
  /\ Images \cap Backgrounds = {} /\ Posts \cap Boards = {}
  /\ None \notin Files /\ "live" \notin Rows /\ "purge" \notin Removers

OnDisk == {f \in Files : file[f] \in {"recent", "old"}}

NoRow == [there |-> FALSE, file |-> None]
NoRemoval == [stage |-> "idle", row |-> None]
NoPurge == [stage |-> "idle", folder |-> "boards", live |-> None, orphans |-> {}]

FilesInit ==
  /\ file = [f \in Files |-> "none"]
  /\ row = [r \in Rows |-> NoRow]
  /\ live = None
  /\ removal = [p \in Removers |-> NoRemoval]
  /\ purge = NoPurge
  /\ spared = {}
  /\ steady = [p \in Removers \cup {"purge"} |-> {}]

RowFiles(rows) == {row[r].file : r \in {s \in rows : row[s].there}}

\* Who refers to which file: a row, or the live board.
References ==
  {<<r, row[r].file>> : r \in {s \in Rows : row[s].there}}
    \cup (IF live = None THEN {} ELSE {<<"live", live>>})

-----------------------------------------------------------------------------
(* Uploads, rows and the live board.                                       *)

Upload(f) ==
  /\ file[f] = "none"
  /\ file' = [file EXCEPT ![f] = "recent"]
  /\ UNCHANGED <<row, live, removal, purge, spared>>

\* UPLOAD_ORPHAN_GRACE_MS pass since the file was written.
GraceEnds(f) ==
  /\ file[f] = "recent"
  /\ file' = [file EXCEPT ![f] = "old"]
  /\ UNCHANGED <<row, live, removal, purge, spared>>

\* A post or a saved board is inserted.  Its file was uploaded at some time: the
\* server checks the form of the URL and not whether the file is still there.
Inserts(r, f) ==
  /\ row[r] = NoRow /\ f \in FolderOf(r) /\ file[f] # "none"
  /\ row' = [row EXCEPT ![r] = [there |-> TRUE, file |-> f]]
  /\ UNCHANGED <<file, live, removal, purge, spared>>

AddPost(r, f) == r \in Posts /\ Inserts(r, f)
SaveSnapshot(r, f) == r \in Boards /\ Inserts(r, f)

\* setBackground of the live board, of any uploaded background or of none.
Show(f) ==
  /\ live # f
  /\ f # None => file[f] # "none"
  /\ live' = f
  /\ UNCHANGED <<file, row, removal, purge, spared>>

-----------------------------------------------------------------------------
(* Deleting a row: it is read, deleted, and then its file is given back.   *)

Moves(p, stage) == removal' = [removal EXCEPT ![p].stage = stage]
FileOf(p) == row[removal[p].row].file

RemoveFinds(p, r) ==
  /\ removal[p].stage = "idle" /\ row[r].there
  /\ removal' = [removal EXCEPT ![p] = [stage |-> "found", row |-> r]]
  /\ UNCHANGED <<file, row, live, purge, spared>>

\* BoardsService.remove goes on whether or not the row was still there;
\* OperationBoardsService.remove answers 404 when somebody else deleted it.
RemoveDeletes(p) ==
  /\ removal[p].stage = "found"
  /\ row' = [row EXCEPT ![removal[p].row].there = FALSE]
  /\ UNCHANGED <<file, live, purge, spared>>

RemovesPost(p) == removal[p].row \in Posts /\ RemoveDeletes(p) /\ Moves(p, "unlink")

RemovesBoard(p) ==
  LET r == removal[p].row
  IN  r \in Boards /\ RemoveDeletes(p) /\ Moves(p, IF row[r].there THEN "count" ELSE "idle")

\* MUTANT of RemoveCounts: the count is not consulted.
CountsNothing(p) ==
  /\ removal[p].stage = "count"
  /\ Moves(p, "look")
  /\ UNCHANGED <<file, row, live, purge, spared>>

\* The saved boards that still name the background are counted.
RemoveCounts(p) ==
  /\ removal[p].stage = "count"
  /\ Moves(p, IF FileOf(p) \in RowFiles(Boards) THEN "idle" ELSE "look")
  /\ UNCHANGED <<file, row, live, purge, spared>>

\* MUTANT of RemoveLooks: it does not go on to the file.
LooksAndStops(p) ==
  /\ removal[p].stage = "look"
  /\ Moves(p, "idle")
  /\ UNCHANGED <<file, row, live, purge, spared>>

\* The answer arrived: is the live board showing the background?
RemoveLooks(p) ==
  /\ removal[p].stage = "look"
  /\ IF live = FileOf(p)
     THEN Moves(p, "idle") /\ spared' = spared \cup {live}
     ELSE Moves(p, "unlink") /\ UNCHANGED spared
  /\ UNCHANGED <<file, row, live, purge>>

\* unlink: the file is gone, was gone already (ENOENT), or stays as an orphan.
RemoveUnlinks(p) ==
  /\ removal[p].stage = "unlink"
  /\ Moves(p, "idle")
  /\ \/ FileOf(p) \in OnDisk /\ file' = [file EXCEPT ![FileOf(p)] = "deleted"] /\ UNCHANGED spared
     \/ FileOf(p) \notin OnDisk /\ UNCHANGED <<file, spared>>
     \/ FileOf(p) \in OnDisk /\ spared' = spared \cup {FileOf(p)} /\ UNCHANGED file
  /\ UNCHANGED <<row, live, purge>>

ReclaimsImage(p) == removal[p].row \in Posts /\ RemoveUnlinks(p)
ReclaimsBackground(p) == removal[p].row \in Boards /\ RemoveUnlinks(p)

-----------------------------------------------------------------------------
(* The purge: the references are read, the folder is listed, the           *)
(* references are read again, and what is an orphan both times is          *)
(* unlinked.  First the images, then the backgrounds.                      *)

PurgeGoes(stage) == purge' = [purge EXCEPT !.stage = stage]

PurgeStarts ==
  /\ purge.stage = "idle"
  /\ purge' = [NoPurge EXCEPT !.stage = "rows"]
  /\ UNCHANGED <<file, row, live, removal, spared>>

\* loadReferences of the live board, before it awaits the rows.
PurgeReadsLive ==
  /\ purge.stage \in {"live", "liveAgain"}
  /\ purge' = [purge EXCEPT !.live = live,
                            !.stage = IF @ = "live" THEN "rows" ELSE "rowsAgain"]
  /\ UNCHANGED <<file, row, live, removal, spared>>

ImagesNamed == RowFiles(Posts)
BackgroundsNamed == RowFiles(Boards) \cup {purge.live}
Named(folder) == IF folder = "boards" THEN ImagesNamed ELSE BackgroundsNamed
FilesOf(folder) == IF folder = "boards" THEN Images ELSE Backgrounds

\* The rows are read: what they and the live board did not name may be an orphan.
PurgeReadsRows ==
  /\ purge.stage = "rows"
  /\ purge' = [purge EXCEPT !.stage = "list",
                            !.orphans = FilesOf(purge.folder) \ Named(purge.folder)]
  /\ UNCHANGED <<file, row, live, removal, spared>>

\* MUTANT of PurgeLists: the age of a file does not matter.
ListsAll ==
  /\ purge.stage = "list"
  /\ purge' = [purge EXCEPT !.stage = IF purge.folder = "boards" THEN "rowsAgain" ELSE "liveAgain",
                            !.orphans = @ \cap OnDisk]
  /\ UNCHANGED <<file, row, live, removal, spared>>

\* collectUploadOrphans: the files of the folder past the grace.
PurgeLists ==
  /\ purge.stage = "list"
  /\ purge' = [purge EXCEPT !.stage = IF purge.folder = "boards" THEN "rowsAgain" ELSE "liveAgain",
                            !.orphans = {f \in @ : file[f] = "old"}]
  /\ UNCHANGED <<file, row, live, removal, spared>>

\* MUTANT of PurgeReadsAgain: only what the second reading found is left out.
ReadsOnlyAgain ==
  /\ purge.stage = "rowsAgain"
  /\ purge' = [purge EXCEPT !.stage = "unlink",
                            !.orphans = FilesOf(purge.folder) \ RowFiles(Rows)]
  /\ UNCHANGED <<file, row, live, removal, spared>>

PurgeReadsAgain ==
  /\ purge.stage = "rowsAgain"
  /\ purge' = [purge EXCEPT !.stage = "unlink", !.orphans = @ \ Named(purge.folder)]
  /\ UNCHANGED <<file, row, live, removal, spared>>

\* deleteUploadFiles: one file after the other; a failure leaves the file.
PurgeUnlinks(f) ==
  /\ purge.stage = "unlink" /\ f \in purge.orphans
  /\ purge' = [purge EXCEPT !.orphans = @ \ {f}]
  /\ \/ file' = [file EXCEPT ![f] = "deleted"] /\ UNCHANGED spared
     \/ f \in OnDisk /\ spared' = spared \cup {f} /\ UNCHANGED file
  /\ UNCHANGED <<row, live, removal>>

PurgeEnds ==
  /\ purge.stage = "unlink" /\ purge.orphans = {}
  /\ purge' = IF purge.folder = "boards"
              THEN [NoPurge EXCEPT !.stage = "live", !.folder = "operation-boards"]
              ELSE NoPurge
  /\ UNCHANGED <<file, row, live, removal, spared>>

PurgeNext ==
  \/ PurgeStarts \/ PurgeReadsLive \/ PurgeReadsRows \/ PurgeLists \/ PurgeReadsAgain \/ PurgeEnds
  \/ \E f \in Files : PurgeUnlinks(f)

FilesStep ==
  \/ PurgeNext
  \/ \E f \in Files : Upload(f) \/ GraceEnds(f)
  \/ \E r \in Rows, f \in Files : AddPost(r, f) \/ SaveSnapshot(r, f)
  \/ \E f \in Backgrounds \cup {None} : Show(f)
  \/ \E p \in Removers, r \in Rows : RemoveFinds(p, r)
  \/ \E p \in Removers : \/ RemovesPost(p) \/ RemovesBoard(p) \/ RemoveCounts(p) \/ RemoveLooks(p)
                         \/ ReclaimsImage(p) \/ ReclaimsBackground(p)

\* What a request saw from its beginning on; an idle request saw nothing.
Watches ==
  steady' = [p \in Removers \cup {"purge"} |->
               LET busy  == IF p = "purge" THEN purge.stage # "idle" ELSE removal[p].stage # "idle"
                   busyN == IF p = "purge" THEN purge'.stage # "idle" ELSE removal'[p].stage # "idle"
               IN  IF ~busyN THEN {}
                   ELSE IF busy THEN steady[p] \cap References' ELSE References']

FilesNext == FilesStep /\ Watches

-----------------------------------------------------------------------------
(* Properties.                                                             *)

Deleted(f) == f \in OnDisk /\ file'[f] = "deleted"
StayedNamed(p, f) == \E reference \in steady[p] : reference[2] = f

\* Every variable of the files has its type.
FilesTypeOK ==
  /\ file \in [Files -> {"none", "recent", "old", "deleted"}]
  /\ row \in [Rows -> [there : BOOLEAN, file : Files \cup {None}]]
  /\ live \in Backgrounds \cup {None}
  /\ removal \in [Removers -> [stage : {"idle", "found", "count", "look", "unlink"},
                               row : Rows \cup {None}]]
  /\ purge \in [stage : {"idle", "live", "rows", "list", "liveAgain", "rowsAgain", "unlink"},
                 folder : {"boards", "operation-boards"},
                 live : Backgrounds \cup {None}, orphans : SUBSET Files]
  /\ spared \subseteq Files
  /\ steady \in [Removers \cup {"purge"} -> SUBSET ((Rows \cup {"live"}) \X Files)]

\* The purge never unlinks a file that one row, or the live board, has named from
\* the start of the purge on, nor a file that was uploaded within the grace: two
\* readings of the rows, two looks at the live board and a listing happen at
\* different moments and none of them may lose a reference that was always there.
PurgeSparesSteady ==
  [][\A f \in Files : Deleted(f) /\ purge' # purge =>
        ~StayedNamed("purge", f) /\ file[f] = "old"]_filesVars

\* Deleting a saved board never unlinks a background that another saved board, or
\* the live board, has named since before the deletion was asked for.
RemovalSparesSteady ==
  [][\A f \in Backgrounds, p \in Removers :
        Deleted(f) /\ removal'[p] # removal[p] =>
          \A reference \in steady[p] : reference[2] = f => reference[1] = removal[p].row]_filesVars

\* When the last saved board that named a background is gone and no request is at
\* work on it, its file is gone: two boards of one background that are deleted at
\* the same time do not both leave it to the other.
LastRemovalReclaims ==
  \A r \in Boards :
    LET f == row[r].file
    IN  /\ f # None /\ f \notin RowFiles(Boards) /\ f \notin spared
        /\ \A p \in Removers : removal[p].stage = "idle" \/ FileOf(p) # f
        => f \notin OnDisk

\* No file goes while something names it, and none stays for ever that nothing names.
FilesSurvive == []LastRemovalReclaims /\ PurgeSparesSteady /\ RemovalSparesSteady
=============================================================================
