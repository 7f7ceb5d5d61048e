--------------------------- MODULE StorageProofs ----------------------------
(***************************************************************************)
(* What the server keeps for the community.  No uploaded file goes while   *)
(* something names it, and none stays that nothing names, for any files,   *)
(* rows and requests that delete rows.  The lists that are broadcast show  *)
(* every change, for any authors, requests and clients.  The files on      *)
(* disk and what the running uploads may still write stay within the       *)
(* quota, for any number of uploads.  With what is proved of speech,       *)
(* members and migrations this is what MCStorage promises.                 *)
(***************************************************************************)
EXTENDS MCStorage, RecordsProofs

FilesSpec == FilesInit /\ [][FilesNext]_filesVars

-----------------------------------------------------------------------------
(* What the invariant says.                                                *)

\* A row names a file of its folder that was uploaded, and never another one.
Names(r) == row[r] = NoRow \/ (row[r].file \in FolderOf(r) /\ file[row[r].file] # "none")

\* A removal that is under way is about a row that was there.
Begun(p) == removal[p].stage # "idle" => removal[p].row \in Rows /\ row[removal[p].row] # NoRow
OfBoard(p) == removal[p].stage \in {"count", "look"} => removal[p].row \in Boards

\* What a request has seen from its beginning on is still there.
Sees(p) == steady[p] \subseteq References

\* What the purge has found an orphan nobody has named all the time, and it was old.
Orphans ==
  \A f \in purge.orphans :
    /\ purge.stage \in {"list", "liveAgain", "rowsAgain", "unlink"} => ~StayedNamed("purge", f)
    /\ purge.stage \in {"liveAgain", "rowsAgain", "unlink"} => file[f] \in {"old", "deleted"}
Loaded ==
  purge.stage = "rows" =>
    \A f \in FilesOf(purge.folder) : <<"live", f>> \in steady["purge"] => f = purge.live

\* Once the rows are counted no other row, and once the live board was looked at not
\* even that, has named the background all the time.
Counted(p) ==
  /\ removal[p].stage \in {"look", "unlink"} =>
       \A r \in Boards \ {removal[p].row} : <<r, FileOf(p)>> \notin steady[p]
  /\ removal[p].stage = "unlink" => <<"live", FileOf(p)>> \notin steady[p]

\* A background that no board names any more is on its way out.
Leaves(f) ==
  \/ f \in RowFiles(Boards) \/ f \in spared \/ f \notin OnDisk
  \/ \E p \in Removers : removal[p].stage \in {"count", "look", "unlink"} /\ FileOf(p) = f

Kept ==
  /\ FilesTypeOK
  /\ \A r \in Rows : Names(r)
  /\ \A p \in Removers : Begun(p) /\ OfBoard(p)
  /\ \A p \in Removers \cup {"purge"} : Sees(p)

FilesInv ==
  /\ Kept /\ Orphans /\ Loaded
  /\ \A p \in Removers : Counted(p)
  /\ \A r \in Boards : row[r].file # None => Leaves(row[r].file)

-----------------------------------------------------------------------------
(* What a step does to a row and to a file.                                *)

RowStep(r) ==
  \/ row'[r] = row[r]
  \/ \E f \in FolderOf(r) : row[r] = NoRow /\ file[f] # "none" /\ row'[r] = [there |-> TRUE, file |-> f]
  \/ row[r] # NoRow /\ ~row'[r].there /\ row'[r].file = row[r].file

FileStep(f) ==
  \/ file'[f] = file[f]
  \/ file[f] = "none" /\ file'[f] = "recent"
  \/ file[f] = "recent" /\ file'[f] = "old"
  \/ file[f] \in {"recent", "old"} /\ file'[f] = "deleted"

LEMMA InsertsEdge ==
  ASSUME Kept, NEW r \in Rows, NEW f \in Files, Inserts(r, f)
  PROVE  /\ \A q \in Rows : RowStep(q)
         /\ row' \in [Rows -> [there : BOOLEAN, file : Files \cup {None}]]
<1>1. row' = [row EXCEPT ![r] = [there |-> TRUE, file |-> f]] /\ row[r] = NoRow /\ f \in FolderOf(r) /\ file[f] # "none"
  BY DEF Inserts
<1>2. row \in [Rows -> [there : BOOLEAN, file : Files \cup {None}]]
  BY DEF Kept, FilesTypeOK
<1> QED BY <1>1, <1>2 DEF RowStep

LEMMA DeletesEdge ==
  ASSUME Kept, NEW p \in Removers, removal[p].stage = "found", RemoveDeletes(p)
  PROVE  /\ removal[p].row \in Rows /\ row[removal[p].row] # NoRow
         /\ \A q \in Rows : RowStep(q)
         /\ row' \in [Rows -> [there : BOOLEAN, file : Files \cup {None}]]
         /\ \A q \in Rows \ {removal[p].row} : row'[q] = row[q]
         /\ ~row'[removal[p].row].there /\ row'[removal[p].row].file = row[removal[p].row].file
<1>1. removal[p].row \in Rows /\ row[removal[p].row] # NoRow
  BY DEF Kept, Begun
<1>2. row \in [Rows -> [there : BOOLEAN, file : Files \cup {None}]]
  BY DEF Kept, FilesTypeOK
<1>3. PICK x \in Rows : x = removal[p].row
  BY <1>1
<1>4. row' = [row EXCEPT ![x] = [row[x] EXCEPT !.there = FALSE]]
  BY <1>3 DEF RemoveDeletes
<1>5. /\ [row[x] EXCEPT !.there = FALSE] \in [there : BOOLEAN, file : Files \cup {None}]
      /\ ~[row[x] EXCEPT !.there = FALSE].there /\ [row[x] EXCEPT !.there = FALSE].file = row[x].file
  BY <1>2, <1>3
<1> QED BY <1>1, <1>2, <1>3, <1>4, <1>5 DEF RowStep

LEMMA UnlinksEdge ==
  ASSUME Kept, NEW p \in Removers, RemoveUnlinks(p)
  PROVE  /\ removal[p].row \in Rows /\ FileOf(p) \in Files
         /\ \A f \in Files : FileStep(f)
         /\ file' \in [Files -> {"none", "recent", "old", "deleted"}] /\ spared \subseteq spared' /\ spared' \subseteq Files
<1>1. removal[p].row \in Rows /\ FileOf(p) \in Files
  BY DEF Kept, Begun, RemoveUnlinks, Names, FolderOf, Files, FileOf
<1>2. file \in [Files -> {"none", "recent", "old", "deleted"}] /\ spared \subseteq Files
  BY DEF Kept, FilesTypeOK
<1> QED BY <1>1, <1>2 DEF RemoveUnlinks, FileStep, OnDisk

LEMMA FileEdges ==
  ASSUME FilesInv, FilesStep
  PROVE  /\ \A f \in Files : FileStep(f)
         /\ file' \in [Files -> {"none", "recent", "old", "deleted"}] /\ spared \subseteq spared' /\ spared' \subseteq Files
<1>1. file \in [Files -> {"none", "recent", "old", "deleted"}] /\ spared \subseteq Files /\ purge.orphans \subseteq Files
  BY DEF FilesInv, Kept, FilesTypeOK
<1>2. ASSUME NEW f \in Files, Upload(f) \/ GraceEnds(f)
      PROVE  (\A g \in Files : FileStep(g)) /\ file' \in [Files -> {"none", "recent", "old", "deleted"}] /\ spared' = spared
  BY <1>1, <1>2 DEF Upload, GraceEnds, FileStep
<1>3. ASSUME NEW f \in Files, PurgeUnlinks(f)
      PROVE  (\A g \in Files : FileStep(g)) /\ file' \in [Files -> {"none", "recent", "old", "deleted"}] /\ spared \subseteq spared' /\ spared' \subseteq Files
  <2>1. file[f] \in {"old", "deleted"}
    BY <1>3 DEF PurgeUnlinks, FilesInv, Orphans
  <2> QED BY <1>1, <1>3, <2>1 DEF PurgeUnlinks, FileStep
<1>4. ASSUME NEW p \in Removers, ReclaimsImage(p) \/ ReclaimsBackground(p)
      PROVE  (\A g \in Files : FileStep(g)) /\ file' \in [Files -> {"none", "recent", "old", "deleted"}] /\ spared \subseteq spared' /\ spared' \subseteq Files
  BY <1>4, UnlinksEdge DEF ReclaimsImage, ReclaimsBackground, FilesInv
<1>5. ASSUME file' = file, spared \subseteq spared', spared' \subseteq Files
      PROVE  (\A g \in Files : FileStep(g)) /\ file' \in [Files -> {"none", "recent", "old", "deleted"}] /\ spared \subseteq spared' /\ spared' \subseteq Files
  BY <1>1, <1>5 DEF FileStep
<1>6. ASSUME NEW p \in Removers, RemoveLooks(p) PROVE file' = file /\ spared \subseteq spared' /\ spared' \subseteq Files
  <2>1. live \in Files \cup {None}
    BY DEF FilesInv, Kept, FilesTypeOK, Files
  <2>2. removal[p].row \in Rows /\ FileOf(p) \in Files
    BY <1>6 DEF FilesInv, Kept, Begun, RemoveLooks, Names, FolderOf, Files, FileOf
  <2> QED BY <1>1, <1>6, <2>1, <2>2 DEF RemoveLooks
<1>7. ASSUME \/ PurgeStarts \/ PurgeReadsLive \/ PurgeReadsRows \/ PurgeLists \/ PurgeReadsAgain \/ PurgeEnds
             \/ \E r \in Rows, f \in Files : AddPost(r, f) \/ SaveSnapshot(r, f)
             \/ \E f \in Backgrounds \cup {None} : Show(f)
             \/ \E p \in Removers, r \in Rows : RemoveFinds(p, r)
             \/ \E p \in Removers : RemovesPost(p) \/ RemovesBoard(p) \/ RemoveCounts(p)
      PROVE  file' = file /\ spared' = spared
  BY <1>7 DEF PurgeStarts, PurgeReadsLive, PurgeReadsRows, PurgeLists, PurgeReadsAgain, PurgeEnds, AddPost,
     SaveSnapshot, Inserts, Show, RemoveFinds, RemovesPost, RemovesBoard, RemoveDeletes, RemoveCounts
<1> QED BY <1>1, <1>2, <1>3, <1>4, <1>5, <1>6, <1>7 DEF FilesStep, PurgeNext

LEMMA RowEdges ==
  ASSUME FilesInv, FilesStep
  PROVE  /\ \A r \in Rows : RowStep(r)
         /\ row' \in [Rows -> [there : BOOLEAN, file : Files \cup {None}]]
<1>1. row \in [Rows -> [there : BOOLEAN, file : Files \cup {None}]]
  BY DEF FilesInv, Kept, FilesTypeOK
<1>2. ASSUME NEW r \in Rows, NEW f \in Files, AddPost(r, f) \/ SaveSnapshot(r, f)
      PROVE  (\A q \in Rows : RowStep(q)) /\ row' \in [Rows -> [there : BOOLEAN, file : Files \cup {None}]]
  BY <1>2, InsertsEdge DEF AddPost, SaveSnapshot, FilesInv
<1>3. ASSUME NEW p \in Removers, RemovesPost(p) \/ RemovesBoard(p)
      PROVE  (\A q \in Rows : RowStep(q)) /\ row' \in [Rows -> [there : BOOLEAN, file : Files \cup {None}]]
  BY <1>3, DeletesEdge DEF RemovesPost, RemovesBoard, RemoveDeletes, FilesInv
<1>4. ASSUME \/ PurgeNext
             \/ \E f \in Files : Upload(f) \/ GraceEnds(f)
             \/ \E f \in Backgrounds \cup {None} : Show(f)
             \/ \E p \in Removers, r \in Rows : RemoveFinds(p, r)
             \/ \E p \in Removers : RemoveCounts(p) \/ RemoveLooks(p) \/ ReclaimsImage(p) \/ ReclaimsBackground(p)
      PROVE  row' = row
  BY <1>4 DEF PurgeNext, PurgeStarts, PurgeReadsLive, PurgeReadsRows, PurgeLists, PurgeReadsAgain, PurgeEnds, PurgeUnlinks,
     Upload, GraceEnds, Show, RemoveFinds, RemoveCounts, RemoveLooks, ReclaimsImage, ReclaimsBackground, RemoveUnlinks
<1>5. row' = row => \A q \in Rows : RowStep(q)
  BY DEF RowStep
<1> QED BY <1>1, <1>2, <1>3, <1>4, <1>5 DEF FilesStep

-----------------------------------------------------------------------------
(* What the invariant keeps of the rows, the requests and what they saw.   *)

Removals == [stage : {"idle", "found", "count", "look", "unlink"}, row : Rows \cup {None}]
Purges == [stage : {"idle", "live", "rows", "list", "liveAgain", "rowsAgain", "unlink"},
           folder : {"boards", "operation-boards"}, live : Backgrounds \cup {None}, orphans : SUBSET Files]

LEMMA NamesStep ==
  ASSUME FilesInv, FilesStep
  PROVE  \A r \in Rows : Names(r)' /\ (row[r] # NoRow => row'[r] # NoRow /\ row'[r].file = row[r].file)
<1> SUFFICES ASSUME NEW r \in Rows
             PROVE  Names(r)' /\ (row[r] # NoRow => row'[r] # NoRow /\ row'[r].file = row[r].file)
  OBVIOUS
<1>1. RowStep(r) /\ FolderOf(r) \subseteq Files
  BY RowEdges DEF FolderOf, Files
<1>2. \A f \in Files : file[f] # "none" => file'[f] # "none"
  BY FileEdges DEF FileStep
<1>3. Names(r) /\ row[r] \in [there : BOOLEAN, file : Files \cup {None}]
  BY DEF FilesInv, Kept, FilesTypeOK
<1>4. CASE row'[r] = row[r]
  BY <1>1, <1>2, <1>3, <1>4 DEF Names, NoRow, FolderOf
<1>5. ASSUME NEW f \in FolderOf(r), row[r] = NoRow, file[f] # "none", row'[r] = [there |-> TRUE, file |-> f]
      PROVE  Names(r)'
  <2>1. row'[r].file = f /\ file'[f] # "none"
    BY <1>1, <1>2, <1>5
  <2> QED BY <1>5, <2>1 DEF Names, FolderOf
<1>6. ASSUME row[r] # NoRow, row'[r].file = row[r].file
      PROVE  Names(r)' /\ row'[r] # NoRow /\ row'[r].file = row[r].file
  <2>1. row'[r].file = row[r].file /\ row[r].file \in FolderOf(r) /\ file[row[r].file] # "none"
    BY <1>3, <1>6 DEF Names
  <2>2. row[r].file # None /\ file'[row[r].file] # "none"
    BY <1>1, <1>2, <2>1, FilesAssumption
  <2> QED BY <2>1, <2>2 DEF Names, NoRow, FolderOf
<1> QED BY <1>1, <1>4, <1>5, <1>6 DEF RowStep

LEMMA RemovalEdges ==
  ASSUME FilesInv, FilesStep
  PROVE  /\ removal' \in [Removers -> Removals]
         /\ \A p \in Removers : Begun(p)' /\ OfBoard(p)'
<1>1. removal \in [Removers -> Removals] /\ \A p \in Removers : Begun(p) /\ OfBoard(p)
  BY DEF FilesInv, Kept, FilesTypeOK, Removals
<1>2. \A r \in Rows : row[r] # NoRow => row'[r] # NoRow
  BY NamesStep
<1>3. ASSUME NEW p \in Removers, NEW s \in {"idle", "found", "count", "look", "unlink"}, Moves(p, s),
             removal[p].stage # "idle", s \in {"count", "look"} => removal[p].row \in Boards
      PROVE  removal' \in [Removers -> Removals] /\ \A q \in Removers : Begun(q)' /\ OfBoard(q)'
  <2>1. removal' = [removal EXCEPT ![p] = [removal[p] EXCEPT !.stage = s]]
    BY <1>3 DEF Moves
  <2>2. /\ [removal[p] EXCEPT !.stage = s] \in Removals
        /\ [removal[p] EXCEPT !.stage = s].row = removal[p].row /\ [removal[p] EXCEPT !.stage = s].stage = s
    BY <1>1 DEF Removals
  <2>3. /\ removal' \in [Removers -> Removals] /\ removal'[p].row = removal[p].row /\ removal'[p].stage = s
        /\ \A q \in Removers \ {p} : removal'[q] = removal[q]
    BY <1>1, <2>1, <2>2
  <2>4. \A q \in Removers : Begun(q)'
    BY <1>1, <1>2, <1>3, <2>3 DEF Begun
  <2>5. \A q \in Removers : OfBoard(q)'
    BY <1>1, <1>3, <2>3 DEF OfBoard
  <2> QED BY <2>3, <2>4, <2>5
<1>4. ASSUME NEW p \in Removers, NEW r \in Rows, RemoveFinds(p, r)
      PROVE  removal' \in [Removers -> Removals] /\ \A q \in Removers : Begun(q)' /\ OfBoard(q)'
  <2>1. row' = row /\ row[r] # NoRow /\ removal' = [removal EXCEPT ![p] = [stage |-> "found", row |-> r]]
    BY <1>4 DEF RemoveFinds, NoRow
  <2> QED BY <1>1, <2>1 DEF Removals, Begun, OfBoard
<1>5. ASSUME removal' = removal
      PROVE  removal' \in [Removers -> Removals] /\ \A q \in Removers : Begun(q)' /\ OfBoard(q)'
  BY <1>1, <1>2, <1>5 DEF Begun, OfBoard
<1>6. ASSUME NEW p \in Removers, RemovesPost(p) \/ RemovesBoard(p) \/ RemoveCounts(p) \/ RemoveLooks(p)
                                   \/ ReclaimsImage(p) \/ ReclaimsBackground(p)
      PROVE  removal[p].stage # "idle"
             /\ \E s \in {"idle", "found", "count", "look", "unlink"} :
                  Moves(p, s) /\ (s \in {"count", "look"} => removal[p].row \in Boards)
  BY <1>1, <1>6 DEF RemovesPost, RemovesBoard, RemoveDeletes, RemoveCounts, RemoveLooks, ReclaimsImage,
     ReclaimsBackground, RemoveUnlinks, OfBoard
<1>7. ASSUME \/ PurgeNext
             \/ \E f \in Files : Upload(f) \/ GraceEnds(f)
             \/ \E r \in Rows, f \in Files : AddPost(r, f) \/ SaveSnapshot(r, f)
             \/ \E f \in Backgrounds \cup {None} : Show(f)
      PROVE  removal' = removal
  BY <1>7 DEF PurgeNext, PurgeStarts, PurgeReadsLive, PurgeReadsRows, PurgeLists, PurgeReadsAgain, PurgeEnds, PurgeUnlinks,
     Upload, GraceEnds, Show, AddPost, SaveSnapshot, Inserts
<1> QED BY <1>3, <1>4, <1>5, <1>6, <1>7 DEF FilesStep

LEMMA PurgeEdges ==
  ASSUME FilesInv, FilesStep
  PROVE  purge' \in Purges /\ live' \in Backgrounds \cup {None}
<1>1. /\ purge \in Purges /\ live \in Backgrounds \cup {None} /\ Backgrounds \subseteq Files /\ Images \subseteq Files
      /\ \A folder : FilesOf(folder) \subseteq Files
  BY DEF FilesInv, Kept, FilesTypeOK, Purges, Files, FilesOf
<1>2. ASSUME NEW f \in Backgrounds \cup {None}, Show(f) PROVE purge' = purge /\ live' \in Backgrounds \cup {None}
  BY <1>2 DEF Show
<1>3. ASSUME PurgeNext PROVE purge' \in Purges /\ live' = live
  <2>1. NoPurge \in Purges
    BY DEF NoPurge, Purges
  <2>2. CASE PurgeStarts \/ PurgeEnds
    BY <1>1, <2>1, <2>2 DEF PurgeStarts, PurgeEnds, Purges
  <2>3. CASE PurgeReadsLive
    BY <1>1, <2>3 DEF PurgeReadsLive, Purges
  <2>4. CASE PurgeReadsRows \/ PurgeLists \/ PurgeReadsAgain
    <3>1. CASE PurgeReadsRows
      BY <1>1, <3>1, Zenon DEF PurgeReadsRows, Purges
    <3>2. CASE PurgeLists
      BY <1>1, <3>2, Zenon DEF PurgeLists, Purges
    <3>3. CASE PurgeReadsAgain
      BY <1>1, <3>3, Zenon DEF PurgeReadsAgain, Purges
    <3> QED BY <2>4, <3>1, <3>2, <3>3
  <2>5. ASSUME NEW f \in Files, PurgeUnlinks(f) PROVE purge' \in Purges /\ live' = live
    BY <1>1, <2>5 DEF PurgeUnlinks, Purges
  <2>6. live' = live
    BY <1>3 DEF PurgeNext, PurgeStarts, PurgeReadsLive, PurgeReadsRows, PurgeLists, PurgeReadsAgain, PurgeEnds, PurgeUnlinks
  <2> QED BY <1>3, <2>2, <2>3, <2>4, <2>5, <2>6 DEF PurgeNext
<1>4. ASSUME \/ \E f \in Files : Upload(f) \/ GraceEnds(f)
             \/ \E r \in Rows, f \in Files : AddPost(r, f) \/ SaveSnapshot(r, f)
             \/ \E p \in Removers, r \in Rows : RemoveFinds(p, r)
             \/ \E p \in Removers : \/ RemovesPost(p) \/ RemovesBoard(p) \/ RemoveCounts(p) \/ RemoveLooks(p)
                                    \/ ReclaimsImage(p) \/ ReclaimsBackground(p)
      PROVE  purge' = purge /\ live' = live
  BY <1>4 DEF Upload, GraceEnds, AddPost, SaveSnapshot, Inserts, RemoveFinds, RemovesPost, RemovesBoard, RemoveDeletes,
     RemoveCounts, RemoveLooks, ReclaimsImage, ReclaimsBackground, RemoveUnlinks
<1> QED BY <1>1, <1>2, <1>3, <1>4 DEF FilesStep

\* What a request has seen all the time is there, and was before unless it begins.
LEMMA WatchesEdge ==
  ASSUME Watches
  PROVE  /\ \A p \in Removers \cup {"purge"} : steady'[p] \subseteq References'
         /\ \A p \in Removers : "purge" # p =>
              (removal[p].stage # "idle" => steady'[p] \subseteq steady[p])
         /\ purge.stage # "idle" => steady'["purge"] \subseteq steady["purge"]
BY DEF Watches

LEMMA KeptStep == ASSUME FilesInv, FilesNext PROVE Kept'
<1>1. FilesStep /\ Watches
  BY DEF FilesNext
<1>2. /\ file' \in [Files -> {"none", "recent", "old", "deleted"}] /\ spared' \subseteq Files
      /\ row' \in [Rows -> [there : BOOLEAN, file : Files \cup {None}]]
      /\ removal' \in [Removers -> Removals] /\ purge' \in Purges /\ live' \in Backgrounds \cup {None}
  BY <1>1, FileEdges, RowEdges, RemovalEdges, PurgeEdges
<1>3. \A r \in Rows : Names(r)'
  BY <1>1, NamesStep
<1>4. References' \subseteq (Rows \cup {"live"}) \X Files
  <2>1. \A r \in Rows : row'[r].there => row'[r].file \in Files
    BY <1>3 DEF Names, NoRow, FolderOf, Files
  <2> QED BY <1>2, <2>1 DEF References, Files
<1>5. steady' \in [Removers \cup {"purge"} -> SUBSET ((Rows \cup {"live"}) \X Files)]
  <2>1. \A p \in Removers \cup {"purge"} : steady'[p] \subseteq (Rows \cup {"live"}) \X Files
    BY <1>1, <1>4, WatchesEdge
  <2>2. steady' = [p \in Removers \cup {"purge"} |-> steady'[p]]
    BY <1>1 DEF Watches
  <2> QED BY <2>1, <2>2
<1>6. \A p \in Removers \cup {"purge"} : Sees(p)'
  BY <1>1, WatchesEdge DEF Sees
<1> QED BY <1>1, <1>2, <1>3, <1>5, <1>6, RemovalEdges DEF Kept, FilesTypeOK, Removals, Purges

-----------------------------------------------------------------------------
(* The purge.                                                              *)

LEMMA PurgeStep == ASSUME FilesInv, FilesNext PROVE Orphans' /\ Loaded'
<1>1. FilesStep /\ Watches /\ purge \in Purges
  BY DEF FilesNext, FilesInv, Kept, FilesTypeOK, Purges
<1>2. \A f : purge.stage # "idle" /\ StayedNamed("purge", f)' => StayedNamed("purge", f)
  BY <1>1, WatchesEdge DEF StayedNamed
<1>3. \A f \in Files : file[f] \in {"old", "deleted"} => file'[f] \in {"old", "deleted"}
  BY <1>1, FileEdges DEF FileStep
<1>4. purge.orphans \subseteq Files
  BY <1>1 DEF Purges
<1>5. \A f : <<"live", f>> \in steady'["purge"] => f = live'
  <2>1. \A f : <<"live", f>> \in References' => f = live'
    BY FilesAssumption DEF References
  <2> QED BY <1>1, <2>1, WatchesEdge
<1>6. ASSUME purge'.stage = purge.stage \/ purge.stage \in {"list", "liveAgain", "rowsAgain"},
             purge'.orphans \subseteq purge.orphans,
             purge'.stage \in {"liveAgain", "rowsAgain", "unlink"} =>
               \A f \in purge'.orphans : file[f] \in {"old", "deleted"}
      PROVE  Orphans'
  <2> SUFFICES ASSUME NEW f \in purge'.orphans
               PROVE  /\ purge'.stage \in {"list", "liveAgain", "rowsAgain", "unlink"} => ~StayedNamed("purge", f)'
                      /\ purge'.stage \in {"liveAgain", "rowsAgain", "unlink"} => file'[f] \in {"old", "deleted"}
    BY DEF Orphans
  <2>1. f \in purge.orphans /\ f \in Files
    BY <1>4, <1>6
  <2>2. purge'.stage \in {"list", "liveAgain", "rowsAgain", "unlink"} => ~StayedNamed("purge", f)'
    BY <1>2, <1>6, <2>1 DEF FilesInv, Orphans
  <2> QED BY <1>3, <1>6, <2>1, <2>2
<1>7. CASE purge' = purge
  <2>1. Orphans'
    BY <1>6, <1>7 DEF FilesInv, Orphans
  <2>2. Loaded'
    BY <1>1, <1>7, WatchesEdge DEF FilesInv, Loaded, FilesOf
  <2> QED BY <2>1, <2>2
<1>8. CASE PurgeStarts
  <2>1. purge'.stage = "rows" /\ purge'.folder = "boards" /\ purge'.orphans = {}
    BY <1>8 DEF PurgeStarts, NoPurge
  <2>2. live' \in Backgrounds \cup {None}
    BY <1>1, PurgeEdges
  <2>3. \A f \in Images : f # live'
    BY <2>2, FilesAssumption DEF Files
  <2> QED BY <1>5, <2>1, <2>3 DEF Orphans, Loaded, FilesOf
<1>9. CASE PurgeReadsLive
  <2>1. purge'.orphans = purge.orphans /\ purge'.live = live /\ live' = live
    BY <1>1, <1>9 DEF PurgeReadsLive, Purges
  <2>2. purge'.stage = IF purge.stage = "live" THEN "rows" ELSE "rowsAgain"
    BY <1>1, <1>9 DEF PurgeReadsLive, Purges
  <2>3. Loaded'
    BY <1>5, <2>1 DEF Loaded
  <2>4. CASE purge.stage = "live"
    BY <2>2, <2>3, <2>4 DEF Orphans
  <2>5. CASE purge.stage = "liveAgain"
    BY <1>6, <2>1, <2>2, <2>3, <2>5 DEF FilesInv, Orphans
  <2> QED BY <1>9, <2>4, <2>5 DEF PurgeReadsLive
<1>10. CASE PurgeReadsRows
  <2>1. /\ purge.stage = "rows" /\ purge'.stage = "list" /\ row' = row /\ live' = live
        /\ purge'.orphans = FilesOf(purge.folder) \ Named(purge.folder)
    BY <1>1, <1>10 DEF PurgeReadsRows, Purges
  <2>2. ASSUME NEW f \in purge'.orphans, StayedNamed("purge", f)' PROVE FALSE
    <3>1. PICK reference \in steady'["purge"] : reference[2] = f
      BY <2>2 DEF StayedNamed
    <3>2. reference \in References' /\ reference \in steady["purge"]
      BY <1>1, <2>1, <3>1, WatchesEdge
    <3>3. CASE \E r \in Rows : row[r].there /\ reference = <<r, row[r].file>>
      <4>1. PICK r \in Rows : row[r].there /\ row[r].file = f
        BY <3>1, <3>3
      <4>2. f \in FolderOf(r)
        BY <4>1 DEF FilesInv, Kept, Names, NoRow
      <4>3. f \in FilesOf(purge.folder) /\ f \notin Named(purge.folder)
        BY <2>1
      <4>4. CASE purge.folder = "boards"
        BY <4>1, <4>2, <4>3, <4>4, FilesAssumption DEF FolderOf, FilesOf, Named, ImagesNamed, RowFiles
      <4>5. CASE purge.folder # "boards"
        BY <4>1, <4>2, <4>3, <4>5, FilesAssumption DEF FolderOf, FilesOf, Named, BackgroundsNamed, RowFiles, Rows
      <4> QED BY <4>4, <4>5
    <3>4. CASE live # None /\ reference = <<"live", live>>
      <4>1. f = live /\ <<"live", f>> \in steady["purge"] /\ f \in FilesOf(purge.folder)
        BY <2>1, <3>1, <3>2, <3>4
      <4>2. f = purge.live
        BY <2>1, <4>1 DEF FilesInv, Loaded
      <4>3. f \in Backgrounds
        BY <3>4, <4>1 DEF FilesInv, Kept, FilesTypeOK
      <4>4. CASE purge.folder = "boards"
        BY <4>1, <4>3, <4>4, FilesAssumption DEF FilesOf
      <4>5. CASE purge.folder # "boards"
        BY <2>1, <4>2, <4>5 DEF Named, BackgroundsNamed
      <4> QED BY <4>4, <4>5
    <3> QED BY <2>1, <3>2, <3>3, <3>4 DEF References
  <2> QED BY <2>1, <2>2 DEF Orphans, Loaded
<1>11. CASE PurgeLists
  <2>1. /\ purge.stage = "list" /\ purge'.stage \in {"rowsAgain", "liveAgain"}
        /\ purge'.orphans = {f \in purge.orphans : file[f] = "old"}
    BY <1>1, <1>11 DEF PurgeLists, Purges
  <2> QED BY <1>6, <2>1 DEF Loaded
<1>12. CASE PurgeReadsAgain
  <2>1. /\ purge.stage = "rowsAgain" /\ purge'.stage = "unlink" /\ purge'.orphans \subseteq purge.orphans
    BY <1>1, <1>12 DEF PurgeReadsAgain, Purges
  <2> QED BY <1>6, <2>1 DEF FilesInv, Orphans, Loaded
<1>13. ASSUME NEW f \in Files, PurgeUnlinks(f) PROVE Orphans' /\ Loaded'
  <2>1. purge.stage = "unlink" /\ purge'.stage = "unlink" /\ purge'.orphans \subseteq purge.orphans
    BY <1>1, <1>13 DEF PurgeUnlinks, Purges
  <2> QED BY <1>6, <2>1 DEF FilesInv, Orphans, Loaded
<1>14. CASE PurgeEnds
  <2>1. purge'.orphans = {} /\ purge'.stage # "rows"
    BY <1>1, <1>14 DEF PurgeEnds, NoPurge
  <2> QED BY <2>1 DEF Orphans, Loaded
<1>15. CASE PurgeNext
  BY <1>8, <1>9, <1>10, <1>11, <1>12, <1>13, <1>14, <1>15 DEF PurgeNext
<1>16. ASSUME \/ \E f \in Files : Upload(f) \/ GraceEnds(f)
              \/ \E r \in Rows, f \in Files : AddPost(r, f) \/ SaveSnapshot(r, f)
              \/ \E f \in Backgrounds \cup {None} : Show(f)
              \/ \E p \in Removers, r \in Rows : RemoveFinds(p, r)
              \/ \E p \in Removers : \/ RemovesPost(p) \/ RemovesBoard(p) \/ RemoveCounts(p) \/ RemoveLooks(p)
                                     \/ ReclaimsImage(p) \/ ReclaimsBackground(p)
       PROVE  purge' = purge
  BY <1>16 DEF Upload, GraceEnds, AddPost, SaveSnapshot, Inserts, Show, RemoveFinds, RemovesPost, RemovesBoard,
     RemoveDeletes, RemoveCounts, RemoveLooks, ReclaimsImage, ReclaimsBackground, RemoveUnlinks
<1> QED BY <1>1, <1>7, <1>15, <1>16 DEF FilesStep

-----------------------------------------------------------------------------
(* The requests that delete a row.                                         *)

\* What a step does to the progress of one request.
RemovalStep(p) ==
  \/ removal'[p] = removal[p]
  \/ removal[p].stage = "idle" /\ removal'[p].stage = "found" /\ row' = row
  \/ /\ removal[p].stage # "idle" /\ removal'[p].row = removal[p].row
     /\ \/ RemovesPost(p) /\ removal'[p].stage = "unlink"
        \/ RemovesBoard(p) /\ removal'[p].stage = IF row[removal[p].row].there THEN "count" ELSE "idle"
        \/ RemoveCounts(p) /\ removal'[p].stage = IF FileOf(p) \in RowFiles(Boards) THEN "idle" ELSE "look"
        \/ RemoveLooks(p) /\ removal'[p].stage = IF live = FileOf(p) THEN "idle" ELSE "unlink"
        \/ RemoveUnlinks(p) /\ removal'[p].stage = "idle"

LEMMA MovesEdge ==
  ASSUME FilesInv, NEW p \in Removers, NEW s \in {"idle", "found", "count", "look", "unlink"}, Moves(p, s)
  PROVE  /\ removal'[p].row = removal[p].row /\ removal'[p].stage = s
         /\ \A q \in Removers \ {p} : removal'[q] = removal[q]
<1>1. removal \in [Removers -> Removals]
  BY DEF FilesInv, Kept, FilesTypeOK, Removals
<1>2. removal' = [removal EXCEPT ![p] = [removal[p] EXCEPT !.stage = s]]
  BY DEF Moves
<1>3. [removal[p] EXCEPT !.stage = s].row = removal[p].row /\ [removal[p] EXCEPT !.stage = s].stage = s
  BY <1>1 DEF Removals
<1> QED BY <1>1, <1>2, <1>3

LEMMA RemovalSteps ==
  ASSUME FilesInv, FilesStep
  PROVE  \A p \in Removers :
           /\ RemovalStep(p)
           /\ removal[p].stage # "idle" /\ removal'[p].row = removal[p].row => FileOf(p)' = FileOf(p)
<1>1. removal \in [Removers -> Removals] /\ \A p \in Removers : Begun(p)
  BY DEF FilesInv, Kept, FilesTypeOK, Removals
<1>2. ASSUME NEW p \in Removers, NEW s \in {"idle", "found", "count", "look", "unlink"}, Moves(p, s)
      PROVE  /\ removal'[p].row = removal[p].row /\ removal'[p].stage = s
             /\ \A q \in Removers \ {p} : removal'[q] = removal[q]
  BY <1>2, MovesEdge
<1>3. ASSUME NEW p \in Removers, RemovesPost(p) \/ RemovesBoard(p) PROVE \A q \in Removers : RemovalStep(q)
  <2>1. removal[p].stage = "found"
    BY <1>3 DEF RemovesPost, RemovesBoard, RemoveDeletes
  <2>2. CASE RemovesPost(p)
    BY <1>2, <2>1, <2>2 DEF RemovesPost, RemovalStep
  <2>3. CASE RemovesBoard(p)
    <3>1. Moves(p, IF row[removal[p].row].there THEN "count" ELSE "idle")
      BY <2>3 DEF RemovesBoard
    <3> QED BY <1>2, <2>1, <2>3, <3>1 DEF RemovalStep
  <2> QED BY <1>3, <2>2, <2>3
<1>4. ASSUME NEW p \in Removers, RemoveCounts(p) PROVE \A q \in Removers : RemovalStep(q)
  <2>1. removal[p].stage = "count" /\ Moves(p, IF FileOf(p) \in RowFiles(Boards) THEN "idle" ELSE "look")
    BY <1>4 DEF RemoveCounts
  <2> QED BY <1>2, <1>4, <2>1 DEF RemovalStep
<1>5. ASSUME NEW p \in Removers, RemoveLooks(p) PROVE \A q \in Removers : RemovalStep(q)
  <2>1. removal[p].stage = "look" /\ Moves(p, IF live = FileOf(p) THEN "idle" ELSE "unlink")
    BY <1>5 DEF RemoveLooks
  <2> QED BY <1>2, <1>5, <2>1 DEF RemovalStep
<1>6. ASSUME NEW p \in Removers, ReclaimsImage(p) \/ ReclaimsBackground(p) PROVE \A q \in Removers : RemovalStep(q)
  <2>1. removal[p].stage = "unlink" /\ Moves(p, "idle") /\ RemoveUnlinks(p)
    BY <1>6 DEF ReclaimsImage, ReclaimsBackground, RemoveUnlinks
  <2> QED BY <1>2, <2>1 DEF RemovalStep
<1>7. ASSUME NEW p \in Removers, NEW r \in Rows, RemoveFinds(p, r) PROVE \A q \in Removers : RemovalStep(q)
  BY <1>1, <1>7 DEF RemoveFinds, RemovalStep
<1>8. ASSUME \/ PurgeNext
             \/ \E f \in Files : Upload(f) \/ GraceEnds(f)
             \/ \E r \in Rows, f \in Files : AddPost(r, f) \/ SaveSnapshot(r, f)
             \/ \E f \in Backgrounds \cup {None} : Show(f)
      PROVE  \A q \in Removers : RemovalStep(q)
  BY <1>8 DEF PurgeNext, PurgeStarts, PurgeReadsLive, PurgeReadsRows, PurgeLists, PurgeReadsAgain, PurgeEnds, PurgeUnlinks,
     Upload, GraceEnds, Show, AddPost, SaveSnapshot, Inserts, RemovalStep
<1>9. \A p \in Removers : RemovalStep(p)
  BY <1>3, <1>4, <1>5, <1>6, <1>7, <1>8 DEF FilesStep
<1>10. ASSUME NEW p \in Removers, removal[p].stage # "idle", removal'[p].row = removal[p].row
       PROVE  FileOf(p)' = FileOf(p)
  BY <1>1, <1>10, NamesStep DEF Begun, FileOf
<1> QED BY <1>9, <1>10

\* A row that is gone was deleted by a request that had found it.
LEMMA GoneByRemoval ==
  ASSUME FilesInv, FilesStep, NEW q \in Boards, row[q].there, ~row'[q].there
  PROVE  \E p \in Removers : RemovesBoard(p) /\ removal[p].row = q
<1>1. q \in Rows /\ row[q] # NoRow
  BY DEF Rows, NoRow
<1>2. ASSUME NEW r \in Rows, NEW f \in Files, AddPost(r, f) \/ SaveSnapshot(r, f) PROVE FALSE
  <2>1. row[r] = NoRow /\ row' = [row EXCEPT ![r] = [there |-> TRUE, file |-> f]]
    BY <1>2 DEF AddPost, SaveSnapshot, Inserts
  <2> QED BY <1>1, <2>1 DEF FilesInv, Kept, FilesTypeOK
<1>3. ASSUME NEW p \in Removers, RemovesPost(p) \/ RemovesBoard(p)
      PROVE  RemovesBoard(p) /\ removal[p].row = q
  <2>1. removal[p].stage = "found" /\ RemoveDeletes(p)
    BY <1>3 DEF RemovesPost, RemovesBoard, RemoveDeletes
  <2>2. removal[p].row = q
    BY <1>1, <2>1, DeletesEdge DEF FilesInv
  <2> QED BY <1>3, <2>2, FilesAssumption DEF RemovesPost
<1>4. ~(\/ PurgeNext
        \/ \E f \in Files : Upload(f) \/ GraceEnds(f)
        \/ \E f \in Backgrounds \cup {None} : Show(f)
        \/ \E p \in Removers, r \in Rows : RemoveFinds(p, r)
        \/ \E p \in Removers : RemoveCounts(p) \/ RemoveLooks(p) \/ ReclaimsImage(p) \/ ReclaimsBackground(p))
  BY DEF PurgeNext, PurgeStarts, PurgeReadsLive, PurgeReadsRows, PurgeLists, PurgeReadsAgain, PurgeEnds, PurgeUnlinks,
     Upload, GraceEnds, Show, RemoveFinds, RemoveCounts, RemoveLooks, ReclaimsImage, ReclaimsBackground, RemoveUnlinks
<1> QED BY <1>2, <1>3, <1>4 DEF FilesStep

LEMMA CountedStep == ASSUME FilesInv, FilesNext PROVE \A p \in Removers : Counted(p)'
<1> SUFFICES ASSUME NEW p \in Removers PROVE Counted(p)'
  OBVIOUS
<1>1. FilesStep /\ Watches /\ Kept' /\ Begun(p) /\ Counted(p)
  BY KeptStep DEF FilesNext, FilesInv, Kept
<1>2. RemovalStep(p) /\ steady'[p] \subseteq References'
  BY <1>1, RemovalSteps, WatchesEdge
<1>3. ASSUME removal[p].stage # "idle", removal'[p].row = removal[p].row
      PROVE  steady'[p] \subseteq steady[p] /\ FileOf(p)' = FileOf(p)
  BY <1>1, <1>3, RemovalSteps, WatchesEdge, FilesAssumption
<1>4. CASE removal'[p] = removal[p]
  <2>1. removal[p].stage = "idle" => Counted(p)'
    BY <1>4 DEF Counted
  <2>2. removal[p].stage # "idle" => Counted(p)'
    BY <1>1, <1>3, <1>4 DEF Counted
  <2> QED BY <2>1, <2>2
<1>5. ASSUME NEW r \in Rows, NEW f, <<r, f>> \in steady'[p] PROVE row'[r].there /\ row'[r].file = f
  <2>1. <<r, f>> \in References'
    BY <1>2, <1>5
  <2> QED BY <2>1, FilesAssumption DEF References
<1>6. ASSUME NEW f, <<"live", f>> \in steady'[p] PROVE live' = f /\ f # None
  <2>1. <<"live", f>> \in References'
    BY <1>2, <1>6
  <2> QED BY <2>1, FilesAssumption DEF References
<1>7. CASE RemovesPost(p) /\ removal'[p].row = removal[p].row /\ removal[p].stage # "idle"
  <2>1. removal[p].row \in Posts /\ FileOf(p)' = FileOf(p) /\ FileOf(p) \in Images
    BY <1>1, <1>3, <1>7 DEF RemovesPost, FilesInv, Kept, Begun, Names, FolderOf, FileOf
  <2>2. ASSUME NEW r \in Boards, <<r, FileOf(p)>> \in steady'[p] PROVE FALSE
    <3>1. r \in Rows /\ row'[r].there /\ row'[r].file = FileOf(p) /\ Names(r)'
      BY <1>1, <1>5, <2>2 DEF Kept, Rows
    <3>2. FileOf(p) \in Backgrounds
      BY <3>1, <2>2, FilesAssumption DEF Names, NoRow, FolderOf
    <3> QED BY <2>1, <3>2, FilesAssumption
  <2>3. ASSUME <<"live", FileOf(p)>> \in steady'[p] PROVE FALSE
    <3>1. FileOf(p) \in Backgrounds
      BY <1>1, <1>6, <2>3 DEF Kept, FilesTypeOK
    <3> QED BY <2>1, <3>1, FilesAssumption
  <2> QED BY <2>1, <2>2, <2>3 DEF Counted
<1>8. CASE RemoveCounts(p) /\ removal'[p].row = removal[p].row /\ removal[p].stage # "idle"
           /\ removal'[p].stage = IF FileOf(p) \in RowFiles(Boards) THEN "idle" ELSE "look"
  <2>1. row' = row /\ FileOf(p)' = FileOf(p) /\ removal'[p].stage \in {"idle", "look"}
    BY <1>3, <1>8 DEF RemoveCounts
  <2>2. ASSUME NEW r \in Boards, removal'[p].stage = "look", <<r, FileOf(p)>> \in steady'[p] PROVE FALSE
    <3>1. r \in Rows /\ row[r].there /\ row[r].file = FileOf(p)
      BY <1>5, <2>1, <2>2 DEF Rows
    <3> QED BY <1>8, <2>2, <3>1 DEF RowFiles
  <2> QED BY <2>1, <2>2 DEF Counted
<1>9. CASE RemoveLooks(p) /\ removal'[p].row = removal[p].row /\ removal[p].stage # "idle"
           /\ removal'[p].stage = IF live = FileOf(p) THEN "idle" ELSE "unlink"
  <2>1. /\ removal[p].stage = "look" /\ live' = live /\ FileOf(p)' = FileOf(p) /\ steady'[p] \subseteq steady[p]
        /\ removal'[p].stage \in {"idle", "unlink"}
    BY <1>3, <1>9 DEF RemoveLooks
  <2>2. removal'[p].stage = "unlink" => <<"live", FileOf(p)>> \notin steady'[p]
    BY <1>6, <1>9, <2>1
  <2> QED BY <1>1, <1>9, <2>1, <2>2 DEF Counted
<1>10. CASE removal'[p].stage \in {"idle", "found", "count"}
  BY <1>10 DEF Counted
<1> QED BY <1>2, <1>4, <1>7, <1>8, <1>9, <1>10 DEF RemovalStep

LEMMA LeavesStep ==
  ASSUME FilesInv, FilesNext
  PROVE  \A r \in Boards : (row[r].file # None => Leaves(row[r].file))'
<1> SUFFICES ASSUME NEW r \in Boards, row'[r].file # None PROVE Leaves(row[r].file)'
  OBVIOUS
<1>1. FilesStep /\ r \in Rows /\ Names(r)
  BY DEF FilesNext, FilesInv, Kept, Rows
<1>2. /\ \A q \in Rows : RowStep(q)
      /\ \A f \in Files : FileStep(f)
      /\ spared \subseteq spared'
      /\ \A p \in Removers : RemovalStep(p)
  BY <1>1, RowEdges, FileEdges, RemovalSteps
<1>3. CASE row[r] = NoRow
  <2>1. row'[r].there
    <3>1. row'[r] # row[r]
      BY <1>3 DEF NoRow
    <3>2. PICK f \in FolderOf(r) : row'[r] = [there |-> TRUE, file |-> f]
      BY <1>1, <1>2, <1>3, <3>1 DEF RowStep
    <3> QED BY <3>2
  <2>2. row'[r].file \in RowFiles(Boards)'
    BY <2>1 DEF RowFiles
  <2> QED BY <2>2 DEF Leaves
<1>4. CASE row[r] # NoRow
  <2>1. PICK f \in Backgrounds : f = row[r].file /\ f = row'[r].file /\ file[f] # "none"
    BY <1>1, <1>4, NamesStep, FilesAssumption DEF Names, FolderOf
  <2>2. f \in Files /\ f # None /\ FileStep(f) /\ Leaves(f)
    BY <1>2, <2>1, FilesAssumption DEF Files, FilesInv
  <2>3. CASE f \in spared
    BY <1>2, <2>1, <2>3 DEF Leaves
  <2>4. CASE f \notin OnDisk
    <3>1. file \in [Files -> {"none", "recent", "old", "deleted"}]
      BY DEF FilesInv, Kept, FilesTypeOK
    <3>2. file[f] = "deleted" /\ file'[f] = "deleted"
      BY <2>1, <2>2, <2>4, <3>1 DEF OnDisk, FileStep
    <3>3. f \notin OnDisk'
      BY <3>2 DEF OnDisk
    <3> QED BY <2>1, <3>3 DEF Leaves
  <2>5. CASE f \in RowFiles(Boards)
    <3>1. PICK q \in Boards : row[q].there /\ row[q].file = f
      BY <2>5 DEF RowFiles
    <3>2. q \in Rows /\ row[q] # NoRow
      BY <3>1 DEF Rows, NoRow
    <3>3. CASE row'[q].there
      <4>1. row'[q].file = f
        BY <1>1, <3>1, <3>2, NamesStep
      <4>2. f \in RowFiles(Boards)'
        BY <3>3, <4>1 DEF RowFiles
      <4> QED BY <2>1, <4>2 DEF Leaves
    <3>4. CASE ~row'[q].there
      <4>1. PICK p \in Removers : RemovesBoard(p) /\ removal[p].row = q
        BY <1>1, <3>1, <3>2, <3>4, GoneByRemoval
      <4>2. removal[p].stage = "found"
        BY <4>1 DEF RemovesBoard, RemoveDeletes
      <4>3. removal'[p].stage = "count" /\ removal'[p].row = q
        <5>1. Moves(p, "count")
          BY <3>1, <4>1 DEF RemovesBoard
        <5> QED BY <4>1, <5>1, MovesEdge
      <4>4. FileOf(p)' = f
        BY <1>1, <3>1, <3>2, <4>3, NamesStep DEF FileOf
      <4> QED BY <2>1, <4>3, <4>4 DEF Leaves
    <3> QED BY <3>3, <3>4
  <2>6. ASSUME NEW p \in Removers, removal[p].stage \in {"count", "look", "unlink"}, FileOf(p) = f
        PROVE  Leaves(f)'
    <3>1. RemovalStep(p) /\ (removal'[p].row = removal[p].row => FileOf(p)' = f)
      BY <1>1, <1>2, <2>6, RemovalSteps
    <3>2. CASE removal'[p].row = removal[p].row /\ removal'[p].stage \in {"count", "look", "unlink"}
      BY <3>1, <3>2 DEF Leaves
    <3>3. CASE RemoveCounts(p) /\ f \in RowFiles(Boards)
      <4>1. f \in RowFiles(Boards)'
        BY <3>3 DEF RemoveCounts, RowFiles
      <4> QED BY <4>1 DEF Leaves
    <3>4. CASE RemoveLooks(p) /\ live = f
      <4>1. f \in spared'
        BY <2>6, <3>4 DEF RemoveLooks
      <4> QED BY <4>1 DEF Leaves
    <3>5. CASE RemoveUnlinks(p)
      <4>1. f \in spared' \/ f \notin OnDisk'
        <5>1. CASE f \in OnDisk /\ file' = [file EXCEPT ![f] = "deleted"]
          <6>1. file \in [Files -> {"none", "recent", "old", "deleted"}]
            BY DEF FilesInv, Kept, FilesTypeOK
          <6> QED BY <2>2, <5>1, <6>1 DEF OnDisk
        <5>2. CASE f \notin OnDisk /\ file' = file
          BY <5>2 DEF OnDisk
        <5>3. CASE spared' = spared \cup {f}
          BY <5>3
        <5> QED BY <2>6, <3>5, <5>1, <5>2, <5>3 DEF RemoveUnlinks
      <4> QED BY <4>1 DEF Leaves
    <3>6. ~RemovesPost(p) /\ ~RemovesBoard(p)
      BY <2>6 DEF RemovesPost, RemovesBoard, RemoveDeletes
    <3> QED BY <2>6, <3>1, <3>2, <3>3, <3>4, <3>5, <3>6 DEF RemovalStep
  <2>7. Leaves(f)'
    BY <2>1, <2>2, <2>3, <2>4, <2>5, <2>6 DEF Leaves
  <2> QED BY <2>1, <2>7
<1> QED BY <1>3, <1>4

-----------------------------------------------------------------------------
(* The theorem.                                                            *)

LEMMA FilesStart == FilesInit => FilesInv
<1> SUFFICES ASSUME FilesInit PROVE FilesInv
  OBVIOUS
<1>1. /\ file = [f \in Files |-> "none"] /\ row = [r \in Rows |-> NoRow] /\ live = None
      /\ removal = [p \in Removers |-> NoRemoval] /\ purge = NoPurge /\ spared = {}
      /\ steady = [p \in Removers \cup {"purge"} |-> {}]
  BY DEF FilesInit
<1>2. FilesTypeOK
  <2>1. NoRow \in [there : BOOLEAN, file : Files \cup {None}]
    BY DEF NoRow
  <2>2. NoRemoval \in [stage : {"idle", "found", "count", "look", "unlink"}, row : Rows \cup {None}]
    BY DEF NoRemoval
  <2>3. purge \in [stage : {"idle", "live", "rows", "list", "liveAgain", "rowsAgain", "unlink"},
                   folder : {"boards", "operation-boards"},
                   live : Backgrounds \cup {None}, orphans : SUBSET Files]
    BY <1>1 DEF NoPurge
  <2> QED BY <1>1, <2>1, <2>2, <2>3 DEF FilesTypeOK
<1>3. \A r \in Rows : row[r] = NoRow
  BY <1>1
<1>4. \A p \in Removers : removal[p].stage = "idle"
  BY <1>1 DEF NoRemoval
<1>5. Kept
  BY <1>1, <1>2, <1>3, <1>4 DEF Kept, Names, Begun, OfBoard, Sees
<1>6. Orphans /\ Loaded
  BY <1>1 DEF NoPurge, Orphans, Loaded
<1>7. \A p \in Removers : Counted(p)
  BY <1>4 DEF Counted
<1>8. \A r \in Boards : row[r].file = None
  BY <1>3 DEF Rows, NoRow
<1> QED BY <1>5, <1>6, <1>7, <1>8 DEF FilesInv

LEMMA FilesKeepInv == FilesInv /\ [FilesNext]_filesVars => FilesInv'
<1>1. ASSUME FilesInv, FilesNext PROVE FilesInv'
  BY <1>1, KeptStep, PurgeStep, CountedStep, LeavesStep DEF FilesInv
<1>2. ASSUME FilesInv, UNCHANGED filesVars PROVE FilesInv'
  BY <1>2 DEF filesVars, FilesInv, Kept, FilesTypeOK, Names, Begun, OfBoard, Sees, References, Orphans, Loaded,
     StayedNamed, Counted, FileOf, Leaves, RowFiles, OnDisk
<1> QED BY <1>1, <1>2

LEMMA InvReclaims == FilesInv => LastRemovalReclaims
<1> SUFFICES ASSUME FilesInv, NEW r \in Boards, row[r].file # None, row[r].file \notin RowFiles(Boards),
                    row[r].file \notin spared,
                    \A p \in Removers : removal[p].stage = "idle" \/ FileOf(p) # row[r].file
             PROVE  row[r].file \notin OnDisk
  BY DEF LastRemovalReclaims
<1>1. Leaves(row[r].file)
  BY DEF FilesInv
<1> QED BY <1>1 DEF Leaves

\* What the purge deletes it had found old, and nothing had named it all the time.
LEMMA PurgeSpares ==
  ASSUME FilesInv, [FilesNext]_filesVars, NEW f \in Files, Deleted(f), purge' # purge
  PROVE  ~StayedNamed("purge", f) /\ file[f] = "old"
<1>1. FilesStep /\ file' # file
  BY DEF FilesNext, filesVars, Deleted, OnDisk
<1>2. PICK g \in Files : PurgeUnlinks(g)
  BY <1>1 DEF FilesStep, PurgeNext, PurgeStarts, PurgeReadsLive, PurgeReadsRows, PurgeLists, PurgeReadsAgain, PurgeEnds,
     Upload, GraceEnds, AddPost, SaveSnapshot, Inserts, Show, RemoveFinds, RemovesPost, RemovesBoard,
     RemoveDeletes, RemoveCounts, RemoveLooks, ReclaimsImage, ReclaimsBackground, RemoveUnlinks
<1>3. file \in [Files -> {"none", "recent", "old", "deleted"}]
  BY DEF FilesInv, Kept, FilesTypeOK
<1>4. f = g
  BY <1>2, <1>3 DEF PurgeUnlinks, Deleted, OnDisk
<1>5. f \in purge.orphans /\ purge.stage = "unlink"
  BY <1>2, <1>4 DEF PurgeUnlinks
<1> QED BY <1>5 DEF FilesInv, Orphans, Deleted, OnDisk

\* What a request deletes no other row, and not the live board, had named all the time.
LEMMA RemovalSpares ==
  ASSUME FilesInv, [FilesNext]_filesVars, NEW f \in Backgrounds, NEW p \in Removers, Deleted(f),
         removal'[p] # removal[p], NEW reference \in steady[p], reference[2] = f
  PROVE  reference[1] = removal[p].row
<1>1. FilesStep /\ file' # file /\ removal' # removal
  BY DEF FilesNext, filesVars, Deleted, OnDisk
<1>2. PICK q \in Removers : RemoveUnlinks(q)
  BY <1>1 DEF FilesStep, PurgeNext, PurgeStarts, PurgeReadsLive, PurgeReadsRows, PurgeLists, PurgeReadsAgain, PurgeEnds,
     PurgeUnlinks, Upload, GraceEnds, AddPost, SaveSnapshot, Inserts, Show, RemoveFinds, RemovesPost, RemovesBoard,
     RemoveDeletes, RemoveCounts, RemoveLooks, ReclaimsImage, ReclaimsBackground
<1>3. q = p
  BY <1>2, MovesEdge DEF RemoveUnlinks
<1>4. file \in [Files -> {"none", "recent", "old", "deleted"}] /\ f \in Files
  BY DEF FilesInv, Kept, FilesTypeOK, Files
<1>5. f = FileOf(p) /\ removal[p].stage = "unlink"
  BY <1>2, <1>3, <1>4 DEF RemoveUnlinks, Deleted, OnDisk
<1>6. Counted(p) /\ Sees(p) /\ reference \in References
  BY DEF FilesInv, Kept, Sees
<1>7. CASE live # None /\ reference = <<"live", live>>
  BY <1>5, <1>6, <1>7 DEF Counted
<1>8. ASSUME NEW r \in Rows, row[r].there, reference = <<r, row[r].file>>
      PROVE  reference[1] = removal[p].row
  <2>1. row[r].file = f /\ Names(r) /\ row[r] # NoRow
    BY <1>8 DEF FilesInv, Kept, NoRow
  <2>2. r \in Boards
    BY <2>1, FilesAssumption DEF Names, FolderOf, Rows
  <2> QED BY <1>5, <1>6, <1>8, <2>1, <2>2 DEF Counted
<1> QED BY <1>6, <1>7, <1>8 DEF References

\* However uploads, posts, saved boards, the live board, requests that delete and the
\* purge of orphans interleave, no file is deleted that something named from the
\* beginning of that request on, the purge deletes no file within the grace, and the
\* background of the last saved board that named it is deleted with it.
THEOREM FilesSafe == FilesSpec => FilesSurvive
<1>1. FilesInv /\ [FilesNext]_filesVars =>
        [\A f \in Files : Deleted(f) /\ purge' # purge => ~StayedNamed("purge", f) /\ file[f] = "old"]_filesVars
  BY PurgeSpares
<1>2. FilesInv /\ [FilesNext]_filesVars =>
        [\A f \in Backgrounds, p \in Removers :
           Deleted(f) /\ removal'[p] # removal[p] =>
             \A reference \in steady[p] : reference[2] = f => reference[1] = removal[p].row]_filesVars
  BY RemovalSpares
<1> QED BY <1>1, <1>2, FilesStart, FilesKeepInv, InvReclaims, PTL
        DEF FilesSpec, FilesSurvive, PurgeSparesSteady, RemovalSparesSteady

-----------------------------------------------------------------------------
(* The lists that are broadcast.                                           *)

BulletinSpec == BulletinInit /\ [][BulletinNext]_bulletinVars

Items == [id : Nat, author : Nicknames, account : Nat, at : Nat]
WorkTypes == [stage : {"idle", "found", "saved", "read", "done"}, kind : {"add", "own", "manage"}, item : Nat,
          list : SUBSET Items, edition : Nat]
ClientStates == [stage : {"off", "joining", "read", "online"}, list : SUBSET Items, edition : Nat,
                 shown : SUBSET Items, shownEdition : Nat, overtaken : BOOLEAN]

ListsTyped ==
  /\ second \in Nat /\ edition \in Nat /\ untold \in BOOLEAN
  /\ member \in [Nicknames -> [since : Nat, times : Nat]]
  /\ items \subseteq Items
  /\ work \in [Requests -> WorkTypes]
  /\ client \in [Clients -> ClientStates]

\* What was read at an edition was the rows then: at the current one it still is.
ReadAt(list, at) == at <= edition /\ (at = edition => list = items)
Entries ==
  /\ \A item \in items : item.id <= edition /\ item.at <= second /\ item.account <= member[item.author].times
  /\ \A a, b \in items : a.id = b.id => a = b
  /\ \A n \in Nicknames : member[n].since <= second
  /\ \A r \in Requests : work[r].stage = "read" => ReadAt(work[r].list, work[r].edition)
  /\ \A c \in Clients : /\ ReadAt(client[c].shown, client[c].shownEdition)
                        /\ client[c].stage = "read" => ReadAt(client[c].list, client[c].edition)

\* A change is not told yet: it was lost, or a request is about to tell of it.
Tells(r) == work[r].stage = "saved" \/ (work[r].stage = "read" /\ work[r].edition = edition)
Pending == untold \/ \E r \in Requests : Tells(r)

\* A client has got the current rows, or will, or was overtaken.
Reached(c) ==
  /\ client[c].stage = "online" => client[c].overtaken \/ client[c].shownEdition = edition
  /\ client[c].stage = "read" =>
       client[c].overtaken \/ client[c].shownEdition = edition \/ client[c].edition = edition

Told == Pending \/ \A c \in Clients : Reached(c)

\* What a request has changed shows in what it has read.
Missing(id) == \A item \in items : item.id # id
Lists(r) == \E item \in work[r].list : item.id = work[r].item
Changed(r) ==
  /\ work[r].stage = "idle" => work[r] = NoWork
  /\ work[r].stage \in {"found", "saved", "read"} => work[r].item <= edition
  /\ work[r].stage \in {"saved", "read"} /\ work[r].kind # "add" => Missing(work[r].item)
  /\ work[r].stage = "read" => IF work[r].kind = "add" THEN Lists(r) \/ Missing(work[r].item) ELSE ~Lists(r)

\* Of an item whose account is gone the account that has its nickname now is not older.
Authors ==
  \A item \in items :
    \/ item.account = member[item.author].times \/ member[item.author].since = 0
    \/ item.at <= member[item.author].since

ListsInv == ListsTyped /\ Entries /\ Told /\ (\A r \in Requests : Changed(r)) /\ Authors

LEMMA ListsStart == BulletinInit => ListsInv
<1> SUFFICES ASSUME BulletinInit PROVE ListsInv
  OBVIOUS
<1>1. NoWork \in WorkTypes /\ NoWork.stage = "idle"
  BY DEF NoWork, WorkTypes
<1>2. NoClient \in ClientStates /\ NoClient.stage = "off" /\ NoClient.shown = {} /\ NoClient.shownEdition = 0
  BY DEF NoClient, ClientStates
<1>3. ListsTyped
  BY <1>1, <1>2 DEF BulletinInit, ListsTyped
<1>4. Entries
  BY <1>1, <1>2 DEF BulletinInit, Entries, ReadAt
<1>5. Told
  BY <1>2 DEF BulletinInit, Told, Reached
<1>6. \A r \in Requests : Changed(r)
  BY <1>1 DEF BulletinInit, Changed
<1>7. Authors
  BY DEF BulletinInit, Authors
<1> QED BY <1>3, <1>4, <1>5, <1>6, <1>7 DEF ListsInv

\* Accounts come and go, time passes.
LEMMA AccountsStep ==
  ASSUME ListsInv, SecondPasses \/ \E n \in Nicknames : Banned(n) \/ Registers(n)
  PROVE  ListsInv'
<1>1. ListsTyped /\ Entries /\ Authors
  BY DEF ListsInv
<1>2. UNCHANGED <<items, edition, work, client, untold>>
  BY DEF SecondPasses, Banned, Registers
<1>3. second' \in Nat /\ second' >= second /\ second \in Nat
  BY <1>1 DEF SecondPasses, Banned, Registers, ListsTyped
<1> DEFINE MembersMove ==
             /\ member' \in [Nicknames -> [since : Nat, times : Nat]]
             /\ \A n \in Nicknames :
                  /\ member'[n].times >= member[n].times /\ member'[n].since <= second'
                  /\ member'[n] = member[n] \/ member'[n].since = 0 \/ member'[n].since = second
<1>4. MembersMove
  <2>1. member \in [Nicknames -> [since : Nat, times : Nat]] /\ second \in Nat
        /\ \A n \in Nicknames : member[n].since <= second
    BY <1>1 DEF ListsTyped, Entries
  <2>2. CASE SecondPasses
    BY <1>3, <2>1, <2>2 DEF SecondPasses
  <2>3. ASSUME NEW n \in Nicknames, Banned(n)
        PROVE  MembersMove
    <3>1. member' = [member EXCEPT ![n] = [member[n] EXCEPT !.since = 0]] /\ second' = second
      BY <2>3 DEF Banned
    <3>2. [member[n] EXCEPT !.since = 0] \in [since : Nat, times : Nat] /\ [member[n] EXCEPT !.since = 0].since = 0
          /\ [member[n] EXCEPT !.since = 0].times = member[n].times
      BY <2>1
    <3> QED BY <2>1, <3>1, <3>2
  <2>4. ASSUME NEW n \in Nicknames, Registers(n)
        PROVE  MembersMove
    <3>1. member' = [member EXCEPT ![n] = [since |-> second, times |-> member[n].times + 1]] /\ second' = second
      BY <2>4 DEF Registers
    <3>2. [since |-> second, times |-> member[n].times + 1] \in [since : Nat, times : Nat]
      BY <2>1
    <3> QED BY <2>1, <3>1, <3>2
  <2> QED BY <2>2, <2>3, <2>4
<1>5. items \subseteq Items /\ \A item \in items : item.author \in Nicknames /\ item.at \in Nat /\ item.account \in Nat
  BY <1>1 DEF ListsTyped, Items
<1>6. ListsTyped'
  BY <1>1, <1>2, <1>3, <1>4 DEF ListsTyped
<1>7. Entries'
  <2>1. \A item \in items : item.at <= second' /\ item.account <= member'[item.author].times
    BY <1>1, <1>3, <1>4, <1>5 DEF Entries, ListsTyped
  <2> QED BY <1>1, <1>2, <1>4, <2>1 DEF Entries, ReadAt
<1>8. Told' /\ \A r \in Requests : Changed(r)'
  BY <1>2 DEF ListsInv, Told, Pending, Tells, Reached, Changed, Missing, Lists
<1>9. Authors'
  <2> SUFFICES ASSUME NEW item \in items
               PROVE  \/ item.account = member'[item.author].times \/ member'[item.author].since = 0
                      \/ item.at <= member'[item.author].since
    BY <1>2 DEF Authors
  <2>1. item.at <= second /\ item.author \in Nicknames
    BY <1>1, <1>5 DEF Entries
  <2> QED BY <1>1, <1>4, <2>1 DEF Authors
<1> QED BY <1>6, <1>7, <1>8, <1>9 DEF ListsInv

\* A request that moves on, the others and the clients as they were.
LEMMA OnlyOneMoves ==
  ASSUME ListsTyped, NEW r \in Requests, NEW w \in WorkTypes, work' = [work EXCEPT ![r] = w]
  PROVE  work' \in [Requests -> WorkTypes] /\ work'[r] = w /\ \A q \in Requests : q # r => work'[q] = work[q]
BY DEF ListsTyped

\* What a change of one field leaves of the others.
AtStage(w, s) == [w EXCEPT !.stage = s]
OfKind(w, k) == [w EXCEPT !.kind = k]
OfItem(w, i) == [w EXCEPT !.item = i]
Listing(w, l) == [w EXCEPT !.list = l]
AtEdition(w, e) == [w EXCEPT !.edition = e]

LEMMA StageChanges ==
  ASSUME NEW w \in WorkTypes, NEW s \in {"idle", "found", "saved", "read", "done"}
  PROVE  AtStage(w, s) \in WorkTypes /\ AtStage(w, s).stage = s /\ AtStage(w, s).kind = w.kind /\ AtStage(w, s).item = w.item
BY DEF WorkTypes, AtStage

LEMMA KindChanges ==
  ASSUME NEW w \in WorkTypes, NEW k \in {"add", "own", "manage"}
  PROVE  OfKind(w, k) \in WorkTypes /\ OfKind(w, k).stage = w.stage /\ OfKind(w, k).kind = k
BY DEF WorkTypes, OfKind

LEMMA ItemChanges ==
  ASSUME NEW w \in WorkTypes, NEW i \in Nat
  PROVE  OfItem(w, i) \in WorkTypes /\ OfItem(w, i).stage = w.stage /\ OfItem(w, i).kind = w.kind /\ OfItem(w, i).item = i
BY DEF WorkTypes, OfItem

LEMMA ListChanges ==
  ASSUME NEW w \in WorkTypes, NEW l \in SUBSET Items, NEW e \in Nat
  PROVE  LET v == AtEdition(Listing(w, l), e) IN
         v \in WorkTypes /\ v.stage = w.stage /\ v.kind = w.kind /\ v.item = w.item /\ v.list = l /\ v.edition = e
<1>1. Listing(w, l) \in WorkTypes /\ Listing(w, l).stage = w.stage /\ Listing(w, l).kind = w.kind
      /\ Listing(w, l).item = w.item /\ Listing(w, l).list = l
  BY DEF WorkTypes, Listing
<1> QED BY <1>1 DEF WorkTypes, AtEdition

LEMMA NoWorkTyped == NoWork \in WorkTypes /\ NoWork.kind = "add"
BY DEF NoWork, WorkTypes

\* An item is added.
LEMMA AddsStep ==
  ASSUME ListsInv, NEW r \in Requests, NEW n \in Nicknames, Adds(r, n)
  PROVE  ListsInv'
<1>1. ListsTyped /\ Entries /\ Authors /\ (\A q \in Requests : Changed(q))
  BY DEF ListsInv
<1> DEFINE new == [id |-> edition + 1, author |-> n, account |-> member[n].times, at |-> second]
           w == [NoWork EXCEPT !.stage = "saved", !.item = edition + 1]
<1>2. /\ edition \in Nat /\ second \in Nat /\ member[n].times \in Nat /\ items \subseteq Items
      /\ \A item \in items : item.id \in Nat
  BY <1>1 DEF ListsTyped, Items
<1>3. /\ items' = items \cup {new} /\ edition' = edition + 1 /\ UNCHANGED <<second, member, client, untold>>
      /\ work' = [work EXCEPT ![r] = w]
  BY DEF Adds
<1>4. new \in Items /\ new.id = edition + 1 /\ new.author = n /\ new.account = member[n].times /\ new.at = second
  BY <1>2 DEF Items
<1>5. w \in WorkTypes /\ w.stage = "saved" /\ w.kind = "add" /\ w.item = edition + 1
  <2>1. w = OfItem(AtStage(NoWork, "saved"), edition + 1) /\ edition + 1 \in Nat
    BY <1>2 DEF OfItem, AtStage
  <2>2. AtStage(NoWork, "saved") \in WorkTypes /\ AtStage(NoWork, "saved").stage = "saved" /\ AtStage(NoWork, "saved").kind = "add"
    BY NoWorkTyped, StageChanges
  <2> HIDE DEF w
  <2> QED BY <2>1, <2>2, ItemChanges
<1> HIDE DEF new, w
<1>6. work' \in [Requests -> WorkTypes] /\ work'[r] = w /\ \A q \in Requests : q # r => work'[q] = work[q]
  BY <1>1, <1>3, <1>5, OnlyOneMoves
<1>7. ListsTyped'
  BY <1>1, <1>2, <1>3, <1>4, <1>6 DEF ListsTyped
<1>8. \A list : \A at \in Nat : ReadAt(list, at) => ReadAt(list, at)'
  BY <1>2, <1>3 DEF ReadAt
<1>9. Entries'
  <2>1. \A q \in Requests : work'[q].stage = "read" => ReadAt(work[q].list, work[q].edition)'
    BY <1>1, <1>5, <1>6, <1>8 DEF Entries, ListsTyped, WorkTypes
  <2>2. \A c \in Clients : /\ ReadAt(client[c].shown, client[c].shownEdition)'
                           /\ client'[c].stage = "read" => ReadAt(client[c].list, client[c].edition)'
    BY <1>1, <1>3, <1>8 DEF Entries, ListsTyped, ClientStates
  <2>3. \A item \in items' : item.id <= edition' /\ item.at <= second' /\ item.account <= member'[item.author].times
    BY <1>1, <1>2, <1>3, <1>4 DEF Entries
  <2>4. \A a, b \in items' : a.id = b.id => a = b
    BY <1>1, <1>2, <1>3, <1>4 DEF Entries
  <2> QED BY <1>1, <1>3, <2>1, <2>2, <2>3, <2>4 DEF Entries
<1>10. Told'
  BY <1>5, <1>6 DEF Told, Pending, Tells
<1>11. ASSUME NEW q \in Requests PROVE Changed(q)'
  <2>1. CASE q = r
    BY <1>2, <1>3, <1>5, <1>6, <2>1 DEF Changed
  <2>2. CASE q # r
    <3>1. work'[q] = work[q] /\ work[q].item \in Nat /\ Changed(q)
      BY <1>1, <1>6, <2>2 DEF ListsTyped, WorkTypes
    <3>2. work[q].item <= edition /\ Missing(work[q].item) => \A item \in items' : item.id # work[q].item
      BY <1>2, <1>3, <1>4, <3>1 DEF Missing
    <3> QED BY <1>2, <1>3, <3>1, <3>2 DEF Changed, Missing, Lists
  <2> QED BY <2>1, <2>2
<1>12. Authors'
  BY <1>1, <1>3, <1>4 DEF Authors
<1> QED BY <1>7, <1>9, <1>10, <1>11, <1>12 DEF ListsInv

\* A removal has found its item.
LEMMA FindsStep ==
  ASSUME ListsInv, NEW r \in Requests, NEW item \in items,
         ManagerFinds(r, item) \/ \E n \in Nicknames : OwnerFinds(r, n, item)
  PROVE  ListsInv'
<1>1. ListsTyped /\ Entries /\ Told /\ Authors /\ (\A q \in Requests : Changed(q))
  BY DEF ListsInv
<1>2. UNCHANGED <<second, member, items, edition, client, untold>> /\ work[r].stage = "idle"
  BY DEF ManagerFinds, OwnerFinds
<1>3. PICK w \in WorkTypes : work' = [work EXCEPT ![r] = w] /\ w.stage = "found" /\ w.item = item.id
  <2>1. item.id \in Nat
    BY <1>1 DEF ListsTyped, Items
  <2>2. ASSUME NEW kind \in {"own", "manage"},
               work' = [work EXCEPT ![r] = [NoWork EXCEPT !.stage = "found", !.kind = kind, !.item = item.id]]
        PROVE  \E w \in WorkTypes : work' = [work EXCEPT ![r] = w] /\ w.stage = "found" /\ w.item = item.id
    <3> DEFINE w == OfItem(OfKind(AtStage(NoWork, "found"), kind), item.id)
    <3>1. w \in WorkTypes /\ w.stage = "found" /\ w.item = item.id
      <4>1. AtStage(NoWork, "found") \in WorkTypes /\ AtStage(NoWork, "found").stage = "found"
        BY NoWorkTyped, StageChanges
      <4>2. kind \in {"add", "own", "manage"}
        OBVIOUS
      <4>3. OfKind(AtStage(NoWork, "found"), kind) \in WorkTypes /\ OfKind(AtStage(NoWork, "found"), kind).stage = "found"
        BY <4>1, <4>2, KindChanges
      <4> QED BY <2>1, <4>3, ItemChanges
    <3>2. work' = [work EXCEPT ![r] = w]
      BY <2>2 DEF OfItem, OfKind, AtStage
    <3> HIDE DEF w
    <3> QED BY <3>1, <3>2
  <2> QED BY <2>2 DEF ManagerFinds, OwnerFinds
<1>4. work' \in [Requests -> WorkTypes] /\ work'[r] = w /\ \A q \in Requests : q # r => work'[q] = work[q]
  BY <1>1, <1>3, OnlyOneMoves
<1>5. ListsTyped'
  BY <1>1, <1>2, <1>4 DEF ListsTyped
<1>6. Entries'
  BY <1>1, <1>2, <1>3, <1>4 DEF Entries, ReadAt
<1>7. Told'
  BY <1>1, <1>2, <1>3, <1>4 DEF Told, Pending, Tells, Reached
<1>8. ASSUME NEW q \in Requests PROVE Changed(q)'
  BY <1>1, <1>2, <1>3, <1>4 DEF Changed, Missing, Lists, Entries
<1>9. Authors'
  BY <1>1, <1>2 DEF Authors
<1> QED BY <1>5, <1>6, <1>7, <1>8, <1>9 DEF ListsInv

\* An item is deleted, if it is still there.
LEMMA DeletesStep ==
  ASSUME ListsInv, NEW r \in Requests, ItemDeletes(r)
  PROVE  ListsInv'
<1>1. ListsTyped /\ Entries /\ Told /\ Authors /\ (\A q \in Requests : Changed(q)) /\ work[r] \in WorkTypes
  BY DEF ListsInv, ListsTyped
<1>2. /\ items' = {item \in items : item.id # work[r].item} /\ UNCHANGED <<second, member, client, untold>>
      /\ edition' = (IF items' = items THEN edition ELSE edition + 1) /\ work[r].stage = "found"
  BY DEF ItemDeletes
<1>3. PICK w \in WorkTypes : work' = [work EXCEPT ![r] = w] /\ w.stage = "saved" /\ w.item = work[r].item
  <2>1. work' = [work EXCEPT ![r] = [work[r] EXCEPT !.stage = "saved"]]
    BY DEF ItemDeletes
  <2> DEFINE w == AtStage(work[r], "saved")
  <2>2. w \in WorkTypes /\ w.stage = "saved" /\ w.item = work[r].item /\ work' = [work EXCEPT ![r] = w]
    BY <1>1, <2>1, StageChanges DEF AtStage
  <2> HIDE DEF w
  <2> QED BY <2>2
<1>4. work' \in [Requests -> WorkTypes] /\ work'[r] = w /\ \A q \in Requests : q # r => work'[q] = work[q]
  BY <1>1, <1>3, OnlyOneMoves
<1>5. edition \in Nat /\ edition' \in Nat /\ edition' >= edition /\ (edition' = edition => items' = items)
      /\ items' \subseteq items
  BY <1>1, <1>2 DEF ListsTyped
<1>6. \A list : \A at \in Nat : ReadAt(list, at) => ReadAt(list, at)'
  BY <1>5 DEF ReadAt
<1>7. ListsTyped'
  BY <1>1, <1>2, <1>4, <1>5 DEF ListsTyped
<1>8. Entries'
  <2>1. \A q \in Requests : work'[q].stage = "read" => ReadAt(work[q].list, work[q].edition)'
    BY <1>1, <1>3, <1>4, <1>6 DEF Entries, ListsTyped, WorkTypes
  <2>2. \A c \in Clients : /\ ReadAt(client[c].shown, client[c].shownEdition)'
                           /\ client'[c].stage = "read" => ReadAt(client[c].list, client[c].edition)'
    BY <1>1, <1>2, <1>6 DEF Entries, ListsTyped, ClientStates
  <2>3. \A item \in items' : item.id <= edition'
    BY <1>1, <1>5 DEF Entries, ListsTyped, Items
  <2> QED BY <1>1, <1>2, <1>5, <2>1, <2>2, <2>3 DEF Entries
<1>9. Told'
  BY <1>3, <1>4 DEF Told, Pending, Tells
<1>10. ASSUME NEW q \in Requests PROVE Changed(q)'
  <2>1. \A id : Missing(id) => \A item \in items' : item.id # id
    BY <1>5 DEF Missing
  <2>2. work[q] \in WorkTypes /\ Changed(q)
    BY <1>1 DEF ListsTyped
  <2>3. CASE q = r
    BY <1>2, <1>3, <1>4, <1>5, <2>1, <2>2, <2>3 DEF Changed, Missing, WorkTypes
  <2>4. CASE q # r
    BY <1>4, <1>5, <2>1, <2>2, <2>4 DEF Changed, Missing, Lists, WorkTypes
  <2> QED BY <2>3, <2>4
<1>11. Authors'
  BY <1>1, <1>2, <1>5 DEF Authors
<1> QED BY <1>7, <1>8, <1>9, <1>10, <1>11 DEF ListsInv

\* The list is read back, or its query fails.
LEMMA ReadsStep ==
  ASSUME ListsInv, NEW r \in Requests, ListReads(r) \/ ListFails(r)
  PROVE  ListsInv'
<1>1. ListsTyped /\ Entries /\ Told /\ Authors /\ (\A q \in Requests : Changed(q)) /\ work[r] \in WorkTypes
      /\ edition \in Nat /\ items \subseteq Items
  BY DEF ListsInv, ListsTyped
<1>2. UNCHANGED <<second, member, items, edition, client>> /\ work[r].stage = "saved"
      /\ (untold' = untold \/ untold' = TRUE)
  BY DEF ListReads, ListFails
<1>3. PICK w \in WorkTypes :
        /\ work' = [work EXCEPT ![r] = w]
        /\ \/ /\ w.stage = "read" /\ w.item = work[r].item /\ w.kind = work[r].kind /\ w.list = items /\ w.edition = edition
           \/ w.stage = "done" /\ untold'
  <2>1. CASE ListReads(r)
    <3>1. work' = [work EXCEPT ![r] = [work[r] EXCEPT !.stage = "read", !.list = items, !.edition = edition]]
      BY <2>1 DEF ListReads
    <3> DEFINE w == AtEdition(Listing(AtStage(work[r], "read"), items), edition)
    <3>2. w \in WorkTypes /\ w.stage = "read" /\ w.item = work[r].item /\ w.kind = work[r].kind /\ w.list = items
          /\ w.edition = edition
      <4>1. AtStage(work[r], "read") \in WorkTypes /\ AtStage(work[r], "read").stage = "read"
            /\ AtStage(work[r], "read").item = work[r].item /\ AtStage(work[r], "read").kind = work[r].kind
        BY <1>1, StageChanges
      <4>2. items \in SUBSET Items /\ edition \in Nat
        BY <1>1
      <4> QED BY <4>1, <4>2, ListChanges
    <3>3. work' = [work EXCEPT ![r] = w]
      BY <3>1 DEF AtEdition, Listing, AtStage
    <3> HIDE DEF w
    <3> QED BY <3>2, <3>3
  <2>2. CASE ListFails(r)
    <3> DEFINE w == AtStage(NoWork, "done")
    <3>1. w \in WorkTypes /\ w.stage = "done" /\ untold' /\ work' = [work EXCEPT ![r] = w]
      BY <2>2, NoWorkTyped, StageChanges DEF ListFails, AtStage
    <3> HIDE DEF w
    <3> QED BY <3>1
  <2> QED BY <2>1, <2>2
<1>4. work' \in [Requests -> WorkTypes] /\ work'[r] = w /\ \A q \in Requests : q # r => work'[q] = work[q]
  BY <1>1, <1>3, OnlyOneMoves
<1>5. ListsTyped'
  BY <1>1, <1>2, <1>4 DEF ListsTyped
<1>6. Entries'
  <2>1. \A q \in Requests : work'[q].stage = "read" => ReadAt(work[q].list, work[q].edition)'
    BY <1>1, <1>2, <1>3, <1>4 DEF Entries, ReadAt
  <2> QED BY <1>1, <1>2, <2>1 DEF Entries, ReadAt
<1>7. Told'
  BY <1>2, <1>3, <1>4 DEF Told, Pending, Tells
<1>8. ASSUME NEW q \in Requests PROVE Changed(q)'
  BY <1>1, <1>2, <1>3, <1>4 DEF Changed, Missing, Lists
<1>9. Authors'
  BY <1>1, <1>2 DEF Authors
<1> QED BY <1>5, <1>6, <1>7, <1>8, <1>9 DEF ListsInv

\* What a client shows next, and where it stands then.
LEMMA ShowsChanges ==
  ASSUME NEW s \in ClientStates, NEW l \in SUBSET Items, NEW e \in Nat, edition \in Nat
  PROVE  LET v == Shows(s, l, e) IN
         /\ v \in ClientStates /\ v.stage = s.stage /\ v.list = s.list /\ v.edition = s.edition
         /\ v.shown = l /\ v.shownEdition = e
         /\ v.overtaken <=> (e < s.shownEdition \/ (s.overtaken /\ e < edition))
<1> DEFINE a == [s EXCEPT !.shown = l]
           b == [a EXCEPT !.shownEdition = e]
           late == e < s.shownEdition \/ (s.overtaken /\ e < edition)
<1>1. a \in ClientStates /\ a.stage = s.stage /\ a.list = s.list /\ a.edition = s.edition /\ a.shown = l
      /\ (a.overtaken <=> s.overtaken)
  BY DEF ClientStates
<1>2. Shows(s, l, e) = [b EXCEPT !.overtaken = late]
  BY DEF Shows
<1>3. late \in BOOLEAN
  BY DEF ClientStates
<1> HIDE DEF a, late
<1>4. b \in ClientStates /\ b.stage = s.stage /\ b.list = s.list /\ b.edition = s.edition /\ b.shown = l
      /\ b.shownEdition = e
  BY <1>1 DEF ClientStates
<1> HIDE DEF b
<1>5. /\ [b EXCEPT !.overtaken = late] \in ClientStates /\ [b EXCEPT !.overtaken = late].stage = b.stage
      /\ [b EXCEPT !.overtaken = late].list = b.list /\ [b EXCEPT !.overtaken = late].edition = b.edition
      /\ [b EXCEPT !.overtaken = late].shown = b.shown /\ [b EXCEPT !.overtaken = late].shownEdition = b.shownEdition
      /\ [b EXCEPT !.overtaken = late].overtaken <=> late
  BY <1>3, <1>4 DEF ClientStates
<1> QED BY <1>2, <1>4, <1>5 DEF late

Stands(s, stage, l, e) == [s EXCEPT !.stage = stage, !.list = l, !.edition = e]

LEMMA StandsChanges ==
  ASSUME NEW s \in ClientStates, NEW stage \in {"off", "joining", "read", "online"}, NEW l \in SUBSET Items, NEW e \in Nat
  PROVE  LET v == Stands(s, stage, l, e) IN
         /\ v \in ClientStates /\ v.stage = stage /\ v.list = l /\ v.edition = e
         /\ v.shown = s.shown /\ v.shownEdition = s.shownEdition /\ (v.overtaken <=> s.overtaken)
<1> DEFINE a == [s EXCEPT !.stage = stage]
           b == [a EXCEPT !.list = l]
           v == [b EXCEPT !.edition = e]
<1>1. a \in ClientStates /\ a.stage = stage /\ a.shown = s.shown /\ a.shownEdition = s.shownEdition
      /\ (a.overtaken <=> s.overtaken)
  BY DEF ClientStates
<1>2. Stands(s, stage, l, e) = v
  BY DEF Stands
<1> HIDE DEF a
<1>3. b \in ClientStates /\ b.stage = stage /\ b.list = l /\ b.shown = s.shown /\ b.shownEdition = s.shownEdition
      /\ (b.overtaken <=> s.overtaken)
  BY <1>1 DEF ClientStates
<1> HIDE DEF b
<1>4. v \in ClientStates /\ v.stage = stage /\ v.list = l /\ v.edition = e /\ v.shown = s.shown
      /\ v.shownEdition = s.shownEdition /\ (v.overtaken <=> s.overtaken)
  BY <1>3 DEF ClientStates
<1> HIDE DEF v
<1> QED BY <1>2, <1>4

\* The list is emitted to whoever is connected.
LEMMA EmitsStep ==
  ASSUME ListsInv, NEW r \in Requests, ListEmits(r)
  PROVE  ListsInv'
<1>1. ListsTyped /\ Entries /\ Told /\ Authors /\ (\A q \in Requests : Changed(q)) /\ work[r] \in WorkTypes
      /\ client \in [Clients -> ClientStates] /\ edition \in Nat /\ untold \in BOOLEAN
  BY DEF ListsInv, ListsTyped
<1>2. UNCHANGED <<second, member, items, edition>> /\ work[r].stage = "read" /\ ReadAt(work[r].list, work[r].edition)
      /\ untold' = (untold /\ work[r].edition < edition)
  BY <1>1 DEF ListEmits, Entries
<1> PICK l \in SUBSET Items, e \in Nat : l = work[r].list /\ e = work[r].edition
  BY <1>1 DEF WorkTypes
<1>3. PICK w \in WorkTypes : work' = [work EXCEPT ![r] = w] /\ w.stage = "done"
  BY NoWorkTyped, StageChanges DEF ListEmits, AtStage
<1>4. work' \in [Requests -> WorkTypes] /\ work'[r] = w /\ \A q \in Requests : q # r => work'[q] = work[q]
  BY <1>1, <1>3, OnlyOneMoves
<1>5. /\ client' \in [Clients -> ClientStates]
      /\ \A c \in Clients :
           IF client[c].stage = "off" THEN client'[c] = client[c]
           ELSE /\ client'[c].stage = client[c].stage /\ client'[c].list = client[c].list
                /\ client'[c].edition = client[c].edition /\ client'[c].shown = l /\ client'[c].shownEdition = e
                /\ client'[c].overtaken <=> (e < client[c].shownEdition \/ (client[c].overtaken /\ e < edition))
  <2>1. client' = [c \in Clients |-> IF client[c].stage # "off" THEN Shows(client[c], l, e) ELSE client[c]]
    BY DEF ListEmits
  <2>2. \A c \in Clients : client[c] \in ClientStates
    BY <1>1
  <2> QED BY <1>1, <2>1, <2>2, ShowsChanges
<1>6. ListsTyped'
  BY <1>1, <1>2, <1>4, <1>5 DEF ListsTyped
<1>7. Entries'
  <2>1. \A q \in Requests : work'[q].stage = "read" => ReadAt(work[q].list, work[q].edition)'
    BY <1>1, <1>2, <1>3, <1>4 DEF Entries, ReadAt
  <2>2. ReadAt(l, e)
    BY <1>2
  <2>3. \A c \in Clients : /\ ReadAt(client[c].shown, client[c].shownEdition)'
                           /\ client'[c].stage = "read" => ReadAt(client[c].list, client[c].edition)'
    BY <1>1, <1>2, <1>5, <2>2 DEF Entries, ReadAt
  <2> QED BY <1>1, <1>2, <2>1, <2>3 DEF Entries
<1>8. Told'
  <2>1. e <= edition
    BY <1>2 DEF ReadAt
  <2>2. CASE e = edition
    <3>1. ASSUME NEW c \in Clients PROVE Reached(c)'
      BY <1>2, <1>5, <2>2 DEF Reached
    <3> QED BY <3>1 DEF Told
  <2>3. CASE e < edition /\ Pending
    <3>1. untold' = untold /\ ~Tells(r)
      BY <1>1, <1>2, <2>3 DEF Tells
    <3> QED BY <1>2, <1>4, <2>3, <3>1 DEF Told, Pending, Tells
  <2>4. CASE e < edition /\ ~Pending
    <3>1. ASSUME NEW c \in Clients PROVE Reached(c)'
      <4>1. Reached(c) /\ client[c] \in ClientStates
        BY <1>1, <2>4 DEF Told
      <4>2. client[c].shownEdition \in Nat
        BY <4>1 DEF ClientStates
      <4> QED BY <1>1, <1>2, <1>5, <2>4, <4>1, <4>2 DEF Reached
    <3> QED BY <3>1 DEF Told
  <2> QED BY <1>1, <2>1, <2>2, <2>3, <2>4
<1>9. ASSUME NEW q \in Requests PROVE Changed(q)'
  BY <1>1, <1>2, <1>3, <1>4 DEF Changed, Missing, Lists
<1>10. Authors'
  BY <1>1, <1>2 DEF Authors
<1> QED BY <1>6, <1>7, <1>8, <1>9, <1>10 DEF ListsInv

\* A client connects, is sent a list of its own reading, or leaves.
LEMMA ClientsStep ==
  ASSUME ListsInv, NEW c \in Clients,
         ClientConnects(c) \/ SnapshotReads(c) \/ SnapshotEmits(c) \/ ClientLeaves(c)
  PROVE  ListsInv'
<1>1. ListsTyped /\ Entries /\ Told /\ Authors /\ (\A q \in Requests : Changed(q)) /\ items \in SUBSET Items
      /\ client \in [Clients -> ClientStates] /\ client[c] \in ClientStates /\ edition \in Nat
      /\ {} \in SUBSET Items /\ 0 \in Nat
  BY DEF ListsInv, ListsTyped
<1>2. UNCHANGED <<second, member, items, edition, work, untold>>
  BY DEF ClientConnects, SnapshotReads, SnapshotEmits, ClientLeaves
<1> PICK old \in ClientStates : old = client[c]
  BY <1>1
<1> DEFINE Same(s) == s.shown = old.shown /\ s.shownEdition = old.shownEdition
<1>3. PICK s \in ClientStates :
        /\ client' = [client EXCEPT ![c] = s]
        /\ \/ s.stage \in {"off", "joining"} /\ Same(s)
           \/ s.stage = "read" /\ Same(s) /\ s.list = items /\ s.edition = edition
           \/ /\ s.stage = "online" /\ old.stage = "read" /\ s.shown = old.list /\ s.shownEdition = old.edition
              /\ s.overtaken <=> (old.edition < old.shownEdition \/ (old.overtaken /\ old.edition < edition))
  <2>1. CASE ClientConnects(c)
    <3> DEFINE s == [client[c] EXCEPT !.stage = "joining"]
    <3>1. s \in ClientStates /\ s.stage = "joining" /\ Same(s)
      BY <1>1 DEF ClientStates
    <3>2. client' = [client EXCEPT ![c] = s]
      BY <2>1 DEF ClientConnects
    <3> HIDE DEF s
    <3> QED BY <3>1, <3>2
  <2>2. CASE SnapshotReads(c)
    <3> DEFINE s == Stands(client[c], "read", items, edition)
    <3>1. s \in ClientStates /\ s.stage = "read" /\ Same(s) /\ s.list = items /\ s.edition = edition
      <4>1. "read" \in {"off", "joining", "read", "online"}
        OBVIOUS
      <4> QED BY <1>1, <4>1, StandsChanges
    <3>2. client' = [client EXCEPT ![c] = s]
      BY <2>2 DEF SnapshotReads, Stands
    <3> HIDE DEF s
    <3> QED BY <3>1, <3>2
  <2>3. CASE SnapshotEmits(c)
    <3> PICK l \in SUBSET Items, e \in Nat : l = old.list /\ e = old.edition
      BY DEF ClientStates
    <3> DEFINE v == Shows(old, l, e)
               s == Stands(v, "online", {}, 0)
    <3>2. /\ v \in ClientStates /\ v.shown = l /\ v.shownEdition = e
          /\ v.overtaken <=> (e < old.shownEdition \/ (old.overtaken /\ e < edition))
      BY <1>1, ShowsChanges
    <3>3. client' = [client EXCEPT ![c] = s] /\ client[c].stage = "read"
      BY <2>3 DEF SnapshotEmits, Stands
    <3> HIDE DEF v
    <3>4. s \in ClientStates /\ s.stage = "online" /\ s.shown = v.shown /\ s.shownEdition = v.shownEdition
          /\ (s.overtaken <=> v.overtaken)
      <4>1. "online" \in {"off", "joining", "read", "online"}
        OBVIOUS
      <4> QED BY <1>1, <3>2, <4>1, StandsChanges
    <3> HIDE DEF s
    <3>5. /\ s.stage = "online" /\ old.stage = "read" /\ s.shown = old.list /\ s.shownEdition = old.edition
          /\ s.overtaken <=> (old.edition < old.shownEdition \/ (old.overtaken /\ old.edition < edition))
      BY <3>2, <3>3, <3>4
    <3> QED BY <3>3, <3>4, <3>5
  <2>4. CASE ClientLeaves(c)
    <3> DEFINE s == Stands(client[c], "off", {}, 0)
    <3>1. s \in ClientStates /\ s.stage = "off" /\ Same(s)
      <4>1. "off" \in {"off", "joining", "read", "online"}
        OBVIOUS
      <4> QED BY <1>1, <4>1, StandsChanges
    <3>2. client' = [client EXCEPT ![c] = s]
      BY <2>4 DEF ClientLeaves, Stands
    <3> HIDE DEF s
    <3> QED BY <3>1, <3>2
  <2> QED BY <2>1, <2>2, <2>3, <2>4
<1>4. client' \in [Clients -> ClientStates] /\ client'[c] = s /\ \A d \in Clients : d # c => client'[d] = client[d]
  BY <1>1, <1>3
<1>5. ListsTyped'
  BY <1>1, <1>2, <1>4 DEF ListsTyped
<1>6. Entries'
  <2>1. ASSUME NEW d \in Clients
        PROVE  /\ ReadAt(client[d].shown, client[d].shownEdition)'
               /\ client'[d].stage = "read" => ReadAt(client[d].list, client[d].edition)'
    <3>1. CASE d = c
      BY <1>1, <1>2, <1>3, <1>4, <3>1 DEF Entries, ReadAt
    <3>2. CASE d # c
      BY <1>1, <1>2, <1>4, <3>2 DEF Entries, ReadAt
    <3> QED BY <3>1, <3>2
  <2>2. \A q \in Requests : work'[q].stage = "read" => ReadAt(work[q].list, work[q].edition)'
    BY <1>1, <1>2 DEF Entries, ReadAt
  <2> QED BY <1>1, <1>2, <2>1, <2>2 DEF Entries
<1>7. Told'
  <2>1. CASE Pending
    BY <1>2, <2>1 DEF Told, Pending, Tells
  <2>2. CASE ~Pending
    <3>1. ASSUME NEW d \in Clients PROVE Reached(d)'
      <4>1. Reached(d) /\ Reached(c) /\ ReadAt(client[c].shown, client[c].shownEdition)
        BY <1>1, <2>2 DEF Told, Entries
      <4>2. client[c].shownEdition \in Nat /\ client[c].edition \in Nat
            /\ (client[c].stage = "read" => client[c].edition <= edition)
        BY <1>1 DEF ClientStates, Entries, ReadAt
      <4>3. CASE d # c
        BY <1>2, <1>4, <4>1, <4>3 DEF Reached
      <4>4. CASE d = c
        BY <1>1, <1>2, <1>3, <1>4, <4>1, <4>2, <4>4 DEF Reached
      <4> QED BY <4>3, <4>4
    <3> QED BY <3>1 DEF Told
  <2> QED BY <2>1, <2>2
<1>8. ASSUME NEW q \in Requests PROVE Changed(q)'
  BY <1>1, <1>2 DEF Changed, Missing, Lists
<1>9. Authors'
  BY <1>1, <1>2 DEF Authors
<1> QED BY <1>5, <1>6, <1>7, <1>8, <1>9 DEF ListsInv

LEMMA ListsStep == ListsInv /\ [BulletinNext]_bulletinVars => ListsInv'
<1>1. ListsInv /\ UNCHANGED bulletinVars => ListsInv'
  BY DEF bulletinVars, ListsInv, ListsTyped, Entries, ReadAt, Told, Pending, Tells, Reached, Changed, Missing, Lists, Authors
<1> QED BY <1>1, AccountsStep, AddsStep, FindsStep, DeletesStep, ReadsStep, EmitsStep, ClientsStep DEF BulletinNext

\* The list a request emits shows its own change.
LEMMA EmitsOwn ==
  ASSUME ListsInv, NEW r \in Requests, work[r].stage = "read"
  PROVE  LET listed == \E item \in work[r].list : item.id = work[r].item
             there  == \E item \in items : item.id = work[r].item
         IN  IF work[r].kind = "add" THEN listed \/ ~there ELSE ~listed
BY DEF ListsInv, Changed, Lists, Missing

\* Only the account that wrote an item removes it as its own.
LEMMA OwnsOnlyOnes ==
  ASSUME ListsInv, BulletinNext, NEW r \in Requests, NEW item \in items,
         work[r].stage = "idle", work'[r].kind = "own", work'[r].item = item.id
  PROVE  member[item.author].times = item.account
<1>1. ListsTyped /\ Entries /\ Authors /\ work[r] = NoWork /\ NoWork.kind = "add" /\ work \in [Requests -> WorkTypes]
  BY NoWorkTyped DEF ListsInv, Changed, ListsTyped
<1>2. work'[r] # work[r]
  BY <1>1
<1>3. ASSUME NEW q \in Requests, NEW w, work' = [work EXCEPT ![q] = w], work[q].stage # "idle" \/ w.kind # "own"
      PROVE  FALSE
  <2>1. q = r
    BY <1>1, <1>2, <1>3
  <2> QED BY <1>1, <1>3, <2>1
<1>4. PICK n \in Nicknames, found \in items : OwnerFinds(r, n, found)
  <2>1. ~\E q \in Requests : ItemDeletes(q) \/ ListReads(q) \/ ListFails(q) \/ ListEmits(q)
    <3>1. ASSUME NEW q \in Requests, work[q].stage # "idle", NEW w, work' = [work EXCEPT ![q] = w] PROVE FALSE
      BY <1>3, <3>1
    <3>2. ASSUME NEW q \in Requests, ItemDeletes(q) PROVE FALSE
      BY <3>1, <3>2 DEF ItemDeletes
    <3>3. ASSUME NEW q \in Requests, ListReads(q) PROVE FALSE
      <4>1. work' = [work EXCEPT ![q] = [work[q] EXCEPT !.stage = "read", !.list = items, !.edition = edition]]
            /\ work[q].stage # "idle"
        BY <3>3 DEF ListReads
      <4> QED BY <3>1, <4>1
    <3>4. ASSUME NEW q \in Requests, ListFails(q) \/ ListEmits(q) PROVE FALSE
      BY <3>1, <3>4 DEF ListFails, ListEmits
    <3> QED BY <3>2, <3>3, <3>4
  <2>2. ~\E q \in Requests, i \in items : ManagerFinds(q, i)
    <3> SUFFICES ASSUME NEW q \in Requests, NEW i \in items, ManagerFinds(q, i) PROVE FALSE
      OBVIOUS
    <3> DEFINE w == OfItem(OfKind(AtStage(NoWork, "found"), "manage"), i.id)
    <3>1. w.kind # "own"
      <4>1. AtStage(NoWork, "found") \in WorkTypes /\ i.id \in Nat
        BY <1>1, NoWorkTyped, StageChanges DEF ListsTyped, Items
      <4>2. OfKind(AtStage(NoWork, "found"), "manage") \in WorkTypes
            /\ OfKind(AtStage(NoWork, "found"), "manage").kind = "manage"
        BY <4>1, KindChanges
      <4> QED BY <4>1, <4>2, ItemChanges
    <3>2. work' = [work EXCEPT ![q] = w]
      BY DEF ManagerFinds, OfItem, OfKind, AtStage
    <3> HIDE DEF w
    <3> QED BY <1>3, <3>1, <3>2
  <2>3. ~\E q \in Requests, n \in Nicknames : Adds(q, n)
    <3> SUFFICES ASSUME NEW q \in Requests, NEW n \in Nicknames, Adds(q, n) PROVE FALSE
      OBVIOUS
    <3> PICK i : i = edition'
      OBVIOUS
    <3> DEFINE w == OfItem(AtStage(NoWork, "saved"), i)
    <3>1. w.kind # "own"
      <4>1. AtStage(NoWork, "saved") \in WorkTypes /\ AtStage(NoWork, "saved").kind = "add" /\ i \in Nat
        BY <1>1, NoWorkTyped, StageChanges DEF Adds, ListsTyped
      <4> QED BY <4>1, ItemChanges
    <3>2. work' = [work EXCEPT ![q] = w]
      BY DEF Adds, OfItem, AtStage
    <3> HIDE DEF w
    <3> QED BY <1>3, <3>1, <3>2
  <2>4. ~SecondPasses /\ ~\E n \in Nicknames : Banned(n) \/ Registers(n)
    BY <1>2 DEF SecondPasses, Banned, Registers
  <2>5. ~\E c \in Clients : ClientConnects(c) \/ SnapshotReads(c) \/ SnapshotEmits(c) \/ ClientLeaves(c)
    BY <1>2 DEF ClientConnects, SnapshotReads, SnapshotEmits, ClientLeaves
  <2>6. PICK q \in Requests, n \in Nicknames, found \in items : OwnerFinds(q, n, found)
    BY <2>1, <2>2, <2>3, <2>4, <2>5 DEF BulletinNext
  <2>7. q = r
    BY <1>1, <1>2, <2>6 DEF OwnerFinds
  <2> QED BY <2>6, <2>7
<1>5. found.id = item.id
  <2> DEFINE w == OfItem(OfKind(AtStage(NoWork, "found"), "own"), found.id)
  <2>1. w.item = found.id
    <3>1. AtStage(NoWork, "found") \in WorkTypes /\ found.id \in Nat
      BY <1>1, NoWorkTyped, StageChanges DEF ListsTyped, Items
    <3>2. OfKind(AtStage(NoWork, "found"), "own") \in WorkTypes
      BY <3>1, KindChanges
    <3> QED BY <3>1, <3>2, ItemChanges
  <2>2. work' = [work EXCEPT ![r] = w]
    BY <1>4 DEF OwnerFinds, OfItem, OfKind, AtStage
  <2> HIDE DEF w
  <2> QED BY <1>1, <2>1, <2>2
<1>6. found = item
  BY <1>1, <1>4, <1>5 DEF Entries
<1>7. item.author = n /\ member[n].since # 0 /\ member[n].since < item.at
  BY <1>4, <1>6 DEF OwnerFinds, Owns
<1>8. member[n].since \in Nat /\ item.at \in Nat
  BY <1>1 DEF ListsTyped, Items
<1> QED BY <1>1, <1>7, <1>8 DEF Authors

\* The lists tell everybody of the changes, for any authors, requests and clients:
\* once nothing is under way whoever is connected shows the rows, unless a broadcast
\* failed or an answer was overtaken; what a request emits shows its own change; and an
\* account never removes what an earlier account of its nickname wrote.  Every change
\* is read back before it is emitted, and hasOriginalNicknameOwnership compares strictly.
THEOREM ListsAreTold == BulletinSpec => ListsTrue
<1>1. BulletinSpec => []ListsInv
  BY ListsStart, ListsStep, PTL DEF BulletinSpec
<1>2. ListsInv => ListSettles
  <2> SUFFICES ASSUME ListsInv, ~untold, \A r \in Requests : work[r].stage \in {"idle", "found", "done"},
                      NEW c \in Clients, client[c].stage = "online", ~client[c].overtaken
               PROVE  client[c].shown = items
    BY DEF ListSettles
  <2>1. ~Pending
    BY DEF Pending, Tells
  <2>2. client[c].shownEdition = edition /\ ReadAt(client[c].shown, client[c].shownEdition)
    BY <2>1 DEF ListsInv, Told, Reached, Entries
  <2> QED BY <2>2 DEF ReadAt
<1>3. ListsInv /\ [BulletinNext]_bulletinVars =>
        [\A r \in Requests : work[r].stage = "read" /\ work'[r].stage = "done" =>
           LET listed == \E item \in work[r].list : item.id = work[r].item
               there  == \E item \in items : item.id = work[r].item
           IN  IF work[r].kind = "add" THEN listed \/ ~there ELSE ~listed]_bulletinVars
  BY EmitsOwn
<1>4. ListsInv /\ [BulletinNext]_bulletinVars =>
        [\A r \in Requests, item \in items :
           work[r].stage = "idle" /\ work'[r].kind = "own" /\ work'[r].item = item.id =>
             member[item.author].times = item.account]_bulletinVars
  BY OwnsOnlyOnes
<1> QED BY <1>1, <1>2, <1>3, <1>4, PTL DEF BulletinSpec, ListsTrue, EmitsOwnChange, SuccessorOwnsNothing

\* The clock is within its bound, and a nickname comes back once.
ListsBound ==
  /\ second \in 1..MaxSecond /\ \A n \in Nicknames : member[n].times \in 1..2
  /\ \A item \in items : item.id >= 1 /\ item.at >= 1

LEMMA ListsBegin == BulletinInit => ListsBound
BY BulletinAssumption DEF BulletinInit, ListsBound

LEMMA ListsBounded == ListsInv /\ ListsBound /\ [BulletinNext]_bulletinVars => ListsBound'
<1> SUFFICES ASSUME ListsInv, ListsBound, [BulletinNext]_bulletinVars PROVE ListsBound'
  OBVIOUS
<1>1. /\ second \in Nat /\ edition \in Nat /\ MaxSecond \in Nat /\ items \subseteq Items
      /\ member \in [Nicknames -> [since : Nat, times : Nat]]
  BY BulletinAssumption DEF ListsInv, ListsTyped
<1>2. ASSUME UNCHANGED <<second, member>>, items' \subseteq items PROVE ListsBound'
  BY <1>2 DEF ListsBound
<1>3. CASE SecondPasses
  BY <1>1, <1>3 DEF SecondPasses, ListsBound
<1>4. ASSUME NEW n \in Nicknames, Banned(n) \/ Registers(n) PROVE ListsBound'
  BY <1>1, <1>4 DEF Banned, Registers, ListsBound
<1>5. ASSUME NEW r \in Requests, NEW n \in Nicknames, Adds(r, n) PROVE ListsBound'
  BY <1>1, <1>5 DEF Adds, ListsBound
<1>6. ASSUME NEW r \in Requests,
             \/ ItemDeletes(r) \/ ListReads(r) \/ ListFails(r) \/ ListEmits(r)
             \/ \E item \in items : ManagerFinds(r, item)
             \/ \E n \in Nicknames, item \in items : OwnerFinds(r, n, item)
      PROVE  UNCHANGED <<second, member>> /\ items' \subseteq items
  BY <1>6 DEF ItemDeletes, ListReads, ListFails, ListEmits, ManagerFinds, OwnerFinds
<1>7. ASSUME NEW c \in Clients, ClientConnects(c) \/ SnapshotReads(c) \/ SnapshotEmits(c) \/ ClientLeaves(c)
      PROVE  UNCHANGED <<second, member>> /\ items' \subseteq items
  BY <1>7 DEF ClientConnects, SnapshotReads, SnapshotEmits, ClientLeaves
<1>8. UNCHANGED bulletinVars => UNCHANGED <<second, member>> /\ items' \subseteq items
  BY DEF bulletinVars
<1> QED BY <1>2, <1>3, <1>4, <1>5, <1>6, <1>7, <1>8 DEF BulletinNext

LEMMA ListsTypes == ListsInv /\ ListsBound => BulletinTypeOK
<1> SUFFICES ASSUME ListsInv, ListsBound PROVE BulletinTypeOK
  OBVIOUS
<1>1. second \in 1..MaxSecond /\ MaxSecond \in Nat /\ edition \in Nat /\ untold \in BOOLEAN
  BY BulletinAssumption DEF ListsInv, ListsTyped, ListsBound
<1>2. ASSUME NEW n \in Nicknames PROVE member[n].since \in 0..second /\ member[n].times \in 1..2
  BY <1>1 DEF ListsInv, ListsTyped, ListsBound, Entries
<1>3. ASSUME NEW item \in items PROVE item.id \in 1..edition /\ item.author \in Nicknames /\ item.at \in 1..second
  <2>1. item \in Items /\ item.id <= edition /\ item.at <= second /\ item.id >= 1 /\ item.at >= 1
    BY DEF ListsInv, ListsTyped, ListsBound, Entries
  <2> QED BY <1>1, <2>1 DEF Items
<1>4. \A r \in Requests : work[r] \in WorkTypes
  BY DEF ListsInv, ListsTyped
<1>5. \A c \in Clients : client[c] \in ClientStates
  BY DEF ListsInv, ListsTyped
<1> QED BY <1>1, <1>2, <1>3, <1>4, <1>5 DEF BulletinTypeOK, WorkTypes, ClientStates

-----------------------------------------------------------------------------
(* The upload quota.                                                       *)

\* The bytes on disk are such a sum.
LEMMA BytesAreSum == ASSUME NEW S PROVE Bytes(S) = Sum(written, S)
BY DEF Bytes, MapThenSumSet, MapThenFoldSet, Sum, Some

\* The bytes of the files nobody holds a reservation for, and those of them a scan
\* has come past.
UnheldBytes == Sum(written, Uploads \ held)
CountedBytes == Sum(written, (Uploads \ held) \ scan.left)

\* The invariant: a measurement of this version is no less than what lies there
\* unreserved, and neither is what a scan of this version has counted of it.
Bookkept ==
  /\ QuotaTypeOK
  /\ ReservationsExact
  /\ scan.version <= version
  /\ UnheldBytes + reserved <= Quota
  /\ Usable(measured) => UnheldBytes <= measured.bytes
  /\ (scan.on /\ scan.version = version) => CountedBytes <= scan.total

QuotaSpec == QuotaInit /\ [][QuotaNext]_quotaVars

\* What the sets and the sums of the quota are.
LEMMA BooksTyped ==
  ASSUME QuotaTypeOK
  PROVE  /\ IsFiniteSet(held) /\ IsFiniteSet(Uploads) /\ IsFiniteSet(Uploads \ held)
         /\ IsFiniteSet((Uploads \ held) \ scan.left)
         /\ \A u \in Uploads : written[u] \in Nat /\ written[u] <= FileLimit
         /\ UnheldBytes \in Nat /\ CountedBytes \in Nat
<1>1. /\ IsFiniteSet(held) /\ IsFiniteSet(Uploads) /\ IsFiniteSet(Uploads \ held)
      /\ IsFiniteSet((Uploads \ held) \ scan.left)
  BY QuotaAssumption, FS_Subset DEF QuotaTypeOK
<1>2. \A u \in Uploads : written[u] \in Nat /\ written[u] <= FileLimit
  BY QuotaAssumption DEF QuotaTypeOK
<1>3. UnheldBytes \in Nat /\ CountedBytes \in Nat
  BY <1>1, <1>2, SumParts DEF UnheldBytes, CountedBytes
<1> QED BY <1>1, <1>2, <1>3

\* What a set of reservations amounts to when one is added or taken out.
LEMMA Reserved ==
  ASSUME NEW H, IsFiniteSet(H), NEW u
  PROVE  /\ Cardinality(H) * FileLimit \in Nat
         /\ u \in H => /\ Cardinality(H) * FileLimit >= FileLimit
                       /\ Cardinality(H \ {u}) * FileLimit = Cardinality(H) * FileLimit - FileLimit
         /\ u \notin H => Cardinality(H \cup {u}) * FileLimit = Cardinality(H) * FileLimit + FileLimit
<1>1. Cardinality(H) \in Nat /\ FileLimit \in Nat
  BY FS_CardinalityType, QuotaAssumption
<1>2. Cardinality(H) * FileLimit \in Nat
  BY <1>1
<1>3. ASSUME u \in H
      PROVE  /\ Cardinality(H) * FileLimit >= FileLimit
             /\ Cardinality(H \ {u}) * FileLimit = Cardinality(H) * FileLimit - FileLimit
  <2>1. PICK k \in Nat : k = Cardinality(H \ {u}) /\ k = Cardinality(H) - 1
    <3>1. Cardinality(H \ {u}) = Cardinality(H) - 1
      BY <1>3, FS_RemoveElement
    <3>2. Cardinality(H) # 0
      BY <1>3, FS_EmptySet
    <3> QED BY <1>1, <3>1, <3>2
  <2>2. Cardinality(H) = k + 1 /\ (k + 1) * FileLimit = k * FileLimit + FileLimit /\ k * FileLimit \in Nat
    BY <1>1, <2>1
  <2> QED BY <1>1, <2>1, <2>2
<1>4. ASSUME u \notin H PROVE Cardinality(H \cup {u}) * FileLimit = Cardinality(H) * FileLimit + FileLimit
  <2>1. Cardinality(H \cup {u}) = Cardinality(H) + 1
    BY <1>4, FS_AddElement
  <2>2. (Cardinality(H) + 1) * FileLimit = Cardinality(H) * FileLimit + FileLimit
    BY <1>1
  <2> QED BY <2>1, <2>2
<1> QED BY <1>2, <1>3, <1>4

\* A measurement that has just been invalidated and a scan of an earlier version
\* say nothing.
LEMMA Voided ==
  ASSUME Bookkept, Invalidate
  PROVE  /\ version' = version + 1 /\ version' \in Nat
         /\ measured' \in [bytes : Nat, version : Nat \cup {-1}, recent : BOOLEAN]
         /\ ~Usable(measured)'
         /\ scan' = scan => ~(scan'.on /\ scan'.version = version') /\ scan'.version <= version'
<1>1. version' = version + 1 /\ version \in Nat /\ scan.version \in Nat /\ scan.version <= version
  BY DEF Bookkept, QuotaTypeOK, Invalidate
<1>2. /\ measured' \in [bytes : Nat, version : Nat \cup {-1}, recent : BOOLEAN]
      /\ ~measured'.recent
  BY DEF Bookkept, QuotaTypeOK, Invalidate, Invalidated
<1>3. ~Usable(measured)'
  BY <1>2 DEF Usable
<1> QED BY <1>1, <1>2, <1>3

\* A new process finds no file and holds nothing.
LEMMA QuotaBegins == QuotaInit => Bookkept
<1> SUFFICES ASSUME QuotaInit PROVE Bookkept
  OBVIOUS
<1>1. QuotaTypeOK
  BY QuotaAssumption DEF QuotaInit, QuotaTypeOK, Stages, NoScan, NothingMeasured
<1>2. Cardinality({}) = 0
  BY FS_EmptySet
<1>3. ReservationsExact
  <2>1. Cardinality({}) * FileLimit = 0
    BY <1>2, QuotaAssumption
  <2>2. held = {u \in Uploads : upload[u] \in {"granted", "received"}}
    BY DEF QuotaInit
  <2> QED BY <2>1, <2>2 DEF ReservationsExact, QuotaInit
<1>4. UnheldBytes = 0
  <2>1. \A u \in Uploads : written[u] = 0
    BY DEF QuotaInit
  <2>2. \A u \in Uploads : written[u] \in Nat /\ written[u] <= 0
    BY <2>1
  <2>3. Sum(written, Uploads) <= Sum(written, Uploads \ Uploads) + Cardinality(Uploads) * 0
    BY <2>2, SumBound, QuotaAssumption
  <2>4. Sum(written, Uploads \ Uploads) = 0 /\ Cardinality(Uploads) * 0 = 0
    <3>1. Uploads \ Uploads = {} /\ IsFiniteSet({})
      BY FS_EmptySet
    <3>2. Sum(written, {}) = 0
      BY <3>1, SumParts
    <3> QED BY <3>1, <3>2, QuotaAssumption, FS_CardinalityType
  <2>5. Sum(written, Uploads) \in Nat
    BY <2>2, SumParts, QuotaAssumption
  <2>6. Uploads \ held = Uploads
    BY DEF QuotaInit
  <2> QED BY <2>3, <2>4, <2>5, <2>6 DEF UnheldBytes
<1>5. ~Usable(measured) /\ ~scan.on /\ scan.version <= version
  BY DEF QuotaInit, Usable, NoScan, NothingMeasured
<1>6. UnheldBytes + reserved <= Quota
  BY <1>4, QuotaAssumption DEF QuotaInit
<1> QED BY <1>1, <1>3, <1>5, <1>6 DEF Bookkept

\* Steps that neither write nor change what is reserved nor touch the scan.
LEMMA QuotaRests ==
  ASSUME Bookkept, UNCHANGED <<written, held, reserved, version, scan>>,
         measured' = measured \/ measured' = Invalidated(measured),
         upload' \in [Uploads -> Stages], gone' \subseteq Uploads,
         \A u \in Uploads : upload'[u] \in {"granted", "received"} <=> upload[u] \in {"granted", "received"}
  PROVE  Bookkept'
<1>1. measured' \in [bytes : Nat, version : Nat \cup {-1}, recent : BOOLEAN]
      /\ (Usable(measured)' => Usable(measured) /\ measured'.bytes = measured.bytes)
  BY DEF Bookkept, QuotaTypeOK, Invalidated, Usable
<1>2. QuotaTypeOK'
  BY <1>1 DEF Bookkept, QuotaTypeOK
<1>3. ReservationsExact'
  <2>1. held' = {u \in Uploads : upload'[u] \in {"granted", "received"}}
    BY DEF Bookkept, ReservationsExact
  <2> QED BY <2>1 DEF Bookkept, ReservationsExact
<1>4. UnheldBytes' = UnheldBytes /\ CountedBytes' = CountedBytes
  BY DEF UnheldBytes, CountedBytes
<1> QED BY <1>1, <1>2, <1>3, <1>4 DEF Bookkept

\* A scan in any of its steps.
LEMMA QuotaScans ==
  ASSUME Bookkept, ScanStarts \/ ScanEnds \/ ScanFails \/ \E u \in Uploads : ScanReads(u)
  PROVE  Bookkept'
<1> USE BooksTyped DEF Bookkept
<1>1. ASSUME ScanStarts PROVE Bookkept'
  <2>1. QuotaTypeOK'
    BY <1>1 DEF ScanStarts, QuotaTypeOK, FilesOnDisk
  <2>2. UNCHANGED <<upload, held, reserved, version, written, measured>>
        /\ scan' = [on |-> TRUE, version |-> version, left |-> FilesOnDisk, total |-> 0]
    BY <1>1 DEF ScanStarts
  <2> DEFINE R == (Uploads \ held) \ FilesOnDisk
  <2>3. Sum(written, R) = 0
    <3>1. IsFiniteSet(R) /\ \A u \in R : written[u] \in Nat /\ written[u] <= 0
      BY FS_Subset, QuotaAssumption DEF FilesOnDisk
    <3>2. R \ R = {} /\ IsFiniteSet({}) /\ Cardinality(R) \in Nat
      BY <3>1, FS_EmptySet, FS_CardinalityType
    <3> HIDE DEF R
    <3>3. Sum(written, R) <= Sum(written, R \ R) + Cardinality(R) * 0 /\ Sum(written, R) \in Nat
      BY <3>1, SumBound, SumParts
    <3>4. Sum(written, {}) = 0 /\ Cardinality(R) * 0 = 0
      BY <3>2, SumParts
    <3>5. Sum(written, R \ R) = Sum(written, {})
      BY <3>2, Zenon
    <3> QED BY <3>3, <3>4, <3>5
  <2>4. CountedBytes' = 0 /\ scan'.total = 0 /\ scan'.version = version
    BY <2>2, <2>3 DEF CountedBytes
  <2>5. UnheldBytes' = UnheldBytes /\ ReservationsExact' /\ (Usable(measured)' <=> Usable(measured))
    BY <2>2 DEF UnheldBytes, ReservationsExact, Usable
  <2> QED BY <2>1, <2>2, <2>4, <2>5 DEF QuotaTypeOK
<1>2. ASSUME ScanEnds PROVE Bookkept'
  <2>1. /\ UNCHANGED <<upload, gone, held, reserved, version, written>>
        /\ measured' = [bytes |-> scan.total, version |-> scan.version, recent |-> scan.version = version]
        /\ scan' = NoScan /\ scan.on /\ (scan.left = {} \/ scan.total > Quota)
    BY <1>2 DEF ScanEnds
  <2>2. QuotaTypeOK'
    BY <2>1 DEF QuotaTypeOK, NoScan
  <2>3. UnheldBytes' = UnheldBytes /\ ReservationsExact'
    BY <2>1 DEF UnheldBytes, ReservationsExact
  <2>4. ASSUME Usable(measured)' PROVE UnheldBytes <= measured'.bytes
    <3>1. scan.version = version /\ CountedBytes <= scan.total /\ measured'.bytes = scan.total
      BY <2>1, <2>4 DEF Usable
    <3>2. CASE scan.left = {}
      <4>1. (Uploads \ held) \ scan.left = Uploads \ held
        BY <3>2
      <4>2. CountedBytes = UnheldBytes
        BY <4>1 DEF CountedBytes, UnheldBytes
      <4> QED BY <3>1, <4>2
    <3>3. CASE scan.total > Quota
      <4>1. UnheldBytes <= Quota
        BY QuotaAssumption DEF QuotaTypeOK
      <4> QED BY <3>1, <3>3, <4>1, QuotaAssumption DEF QuotaTypeOK
    <3> QED BY <2>1, <3>2, <3>3
  <2>5. ~scan'.on /\ scan'.version <= version'
    BY <2>1 DEF NoScan, QuotaTypeOK
  <2> QED BY <2>1, <2>2, <2>3, <2>4, <2>5
<1>3. ASSUME ScanFails PROVE Bookkept'
  <2>1. /\ UNCHANGED <<gone, held, reserved, version, written, measured>> /\ scan' = NoScan
        /\ upload' = [u \in Uploads |-> IF upload[u] = "waiting" THEN "rejected" ELSE upload[u]]
    BY <1>3 DEF ScanFails
  <2>2. QuotaTypeOK'
    BY <2>1 DEF QuotaTypeOK, NoScan, Stages
  <2>3. ReservationsExact'
    <3>1. held' = {u \in Uploads : upload'[u] \in {"granted", "received"}}
      BY <2>1 DEF ReservationsExact, QuotaTypeOK
    <3> QED BY <2>1, <3>1 DEF ReservationsExact
  <2>4. UnheldBytes' = UnheldBytes /\ (Usable(measured)' <=> Usable(measured))
    BY <2>1 DEF UnheldBytes, Usable
  <2>5. ~scan'.on /\ scan'.version <= version'
    BY <2>1 DEF NoScan, QuotaTypeOK
  <2> QED BY <2>1, <2>2, <2>3, <2>4, <2>5
<1>4. ASSUME NEW u \in Uploads, ScanReads(u) PROVE Bookkept'
  <2>1. /\ UNCHANGED <<upload, gone, held, reserved, version, written, measured>>
        /\ scan' = [on |-> TRUE, version |-> scan.version,
                    left |-> scan.left \ {u}, total |-> scan.total + written[u]]
        /\ scan.on /\ u \in scan.left
    BY <1>4 DEF ScanReads
  <2>2. QuotaTypeOK'
    BY <2>1 DEF QuotaTypeOK
  <2>3. ReservationsExact' /\ UnheldBytes' = UnheldBytes /\ (Usable(measured)' <=> Usable(measured))
    BY <2>1 DEF ReservationsExact, UnheldBytes, Usable
  <2>4. scan'.version = scan.version /\ scan'.total = scan.total + written[u] /\ scan'.left = scan.left \ {u}
    BY <2>1
  <2> DEFINE R == (Uploads \ held) \ (scan.left \ {u})
  <2>5. Sum(written, R) \in Nat /\ Sum(written, R) <= CountedBytes + written[u]
    <3>1. IsFiniteSet(R) /\ \A x \in R : written[x] \in Nat
      BY FS_Subset, QuotaAssumption
    <3>2. R \ {u} = (Uploads \ held) \ scan.left
      BY <2>1
    <3> HIDE DEF R
    <3>3. Sum(written, R \ {u}) = CountedBytes
      BY <3>2 DEF CountedBytes
    <3>6. Sum(written, R) \in Nat /\ CountedBytes \in Nat /\ written[u] \in Nat
      BY <3>1, SumParts
    <3>4. CASE u \in R
      BY <3>1, <3>3, <3>4, <3>6, SumLess
    <3>5. CASE u \notin R
      <4>1. R \ {u} = R
        BY <3>5
      <4>2. Sum(written, R) = CountedBytes
        BY <3>3, <4>1, Zenon
      <4> QED BY <3>6, <4>2
    <3> QED BY <3>6, <3>4, <3>5
  <2>6. CountedBytes' = Sum(written, R)
    BY <2>1, <2>4 DEF CountedBytes
  <2>7. CountedBytes' <= scan'.total \/ ~(scan'.on /\ scan'.version = version')
    <3> HIDE DEF R
    <3>1. Sum(written, R) \in Nat
      BY <2>5
    <3> QED BY <2>1, <2>4, <2>5, <2>6, <3>1 DEF QuotaTypeOK
  <2> QED BY <2>1, <2>2, <2>3, <2>4, <2>7
<1> QED BY <1>1, <1>2, <1>3, <1>4

\* A reservation ends: its file may be as large as what is given back.
LEMMA QuotaReleases ==
  ASSUME Bookkept, NEW u \in held, Release(u), scan' = scan, gone' = gone, written' = written,
         upload' \in [Uploads -> Stages],
         \A x \in Uploads : upload'[x] \in {"granted", "received"}
                              <=> x # u /\ upload[x] \in {"granted", "received"}
  PROVE  Bookkept'
<1> USE BooksTyped DEF Bookkept
<1>1. /\ held' = held \ {u} /\ Invalidate /\ u \in Uploads
      /\ reserved' = IF reserved >= FileLimit THEN reserved - FileLimit ELSE 0
  BY DEF Release, ReservationsExact
<1>2. reserved >= FileLimit /\ reserved' = reserved - FileLimit
      /\ reserved - FileLimit = Cardinality(held \ {u}) * FileLimit /\ reserved \in Nat
  BY <1>1, Reserved DEF ReservationsExact, QuotaTypeOK
<1>3. /\ version' \in Nat /\ scan'.version <= version' /\ ~Usable(measured)'
      /\ ~(scan'.on /\ scan'.version = version')
      /\ measured' \in [bytes : Nat, version : Nat \cup {-1}, recent : BOOLEAN]
  BY <1>1, Voided
<1>4. QuotaTypeOK'
  <2>1. reserved' \in Nat
    BY <1>2, QuotaAssumption
  <2> QED BY <1>1, <1>3, <2>1 DEF QuotaTypeOK
<1>5. ReservationsExact'
  <2>1. held' = {x \in Uploads : upload'[x] \in {"granted", "received"}}
    BY <1>1 DEF ReservationsExact
  <2> QED BY <1>1, <1>2, <2>1 DEF ReservationsExact
<1>6. UnheldBytes' <= UnheldBytes + FileLimit /\ UnheldBytes' \in Nat
  <2> DEFINE S == Uploads \ (held \ {u})
  <2>1. UnheldBytes' = Sum(written, S)
    BY <1>1 DEF UnheldBytes
  <2>2. IsFiniteSet(S) /\ (\A x \in S : written[x] \in Nat) /\ u \in S /\ S \ {u} = Uploads \ held
    BY <1>1, FS_Subset
  <2> HIDE DEF S
  <2>3. Sum(written, S) \in Nat
    BY <2>2, SumParts
  <2>4. Sum(written, S) = written[u] + UnheldBytes
    <3>1. Sum(written, S) = written[u] + Sum(written, S \ {u})
      BY <2>2, SumLess
    <3> QED BY <2>2, <3>1 DEF UnheldBytes
  <2> QED BY <1>1, <2>1, <2>3, <2>4, QuotaAssumption
<1>7. UnheldBytes \in Nat /\ reserved \in Nat /\ UnheldBytes + reserved <= Quota /\ Quota \in Nat /\ FileLimit \in Nat
  BY QuotaAssumption DEF QuotaTypeOK
<1>8. UnheldBytes' + reserved' <= Quota
  <2>1. PICK kept, was, back \in Nat : kept = UnheldBytes' /\ was = UnheldBytes /\ back = reserved
    BY <1>6, <1>7
  <2>2. kept <= was + FileLimit /\ was + back <= Quota
    BY <1>6, <1>7, <2>1
  <2> HIDE BooksTyped DEF Bookkept
  <2>3. PICK left \in Int : left = back - FileLimit /\ kept + left <= Quota
    BY <1>7, <2>2
  <2>4. reserved' = left /\ UnheldBytes' = kept
    BY <1>2, <2>1, <2>3
  <2> QED BY <2>3, <2>4, Zenon
<1> QED BY <1>3, <1>4, <1>5, <1>8

\* A file nobody holds a reservation for becomes empty.
LEMMA QuotaEmpties ==
  ASSUME Bookkept, NEW u \in Uploads, written' = [written EXCEPT ![u] = 0]
  PROVE  /\ written' \in [Uploads -> 0..FileLimit]
         /\ Sum(written', Uploads \ held) \in Nat /\ Sum(written', Uploads \ held) <= UnheldBytes
         /\ Sum(written', (Uploads \ held) \ scan.left) \in Nat
         /\ Sum(written', (Uploads \ held) \ scan.left) <= CountedBytes
<1> USE BooksTyped DEF Bookkept
<1>1. written' \in [Uploads -> 0..FileLimit]
  BY QuotaAssumption DEF QuotaTypeOK
<1>2. (\A x \in Uploads \ {u} : written'[x] = written[x]) /\ written'[u] \in Nat /\ written'[u] <= written[u]
  BY DEF QuotaTypeOK
<1>3. Sum(written', Uploads \ held) \in Nat /\ Sum(written', Uploads \ held) <= Sum(written, Uploads \ held)
  <2> DEFINE S == Uploads \ held
  <2>1. IsFiniteSet(S) /\ (\A x \in S : written[x] \in Nat) /\ (\A x \in S \ {u} : written'[x] = written[x])
    BY <1>2
  <2> HIDE DEF S
  <2> QED BY <1>2, <2>1, SumSmaller
<1>4. /\ Sum(written', (Uploads \ held) \ scan.left) \in Nat
      /\ Sum(written', (Uploads \ held) \ scan.left) <= Sum(written, (Uploads \ held) \ scan.left)
  <2> DEFINE S == (Uploads \ held) \ scan.left
  <2>1. IsFiniteSet(S) /\ (\A x \in S : written[x] \in Nat) /\ (\A x \in S \ {u} : written'[x] = written[x])
    BY <1>2
  <2> HIDE DEF S
  <2> QED BY <1>2, <2>1, SumSmaller
<1> QED BY <1>1, <1>3, <1>4 DEF UnheldBytes, CountedBytes

\* A chunk is written within what the upload reserved.
LEMMA QuotaWrites ==
  ASSUME Bookkept, NEW u \in Uploads, Write(u)
  PROVE  Bookkept'
<1> USE BooksTyped DEF Bookkept
<1>1. /\ UNCHANGED <<upload, gone, held, reserved, version, measured, scan>>
      /\ written' = [written EXCEPT ![u] = @ + 1] /\ written[u] < FileLimit /\ u \in held
  BY DEF Write, ReservationsExact
<1>2. QuotaTypeOK'
  BY <1>1, QuotaAssumption DEF QuotaTypeOK
<1>3. \A x \in Uploads \ held : written'[x] = written[x]
  BY <1>1 DEF QuotaTypeOK
<1>4. Sum(written', Uploads \ held) = Sum(written, Uploads \ held)
  BY <1>3, SumSame
<1>5. Sum(written', (Uploads \ held) \ scan.left) = Sum(written, (Uploads \ held) \ scan.left)
  <2> DEFINE S == (Uploads \ held) \ scan.left
  <2>1. IsFiniteSet(S) /\ (\A x \in S : written[x] \in Nat) /\ \A x \in S : written'[x] = written[x]
    BY <1>3
  <2> HIDE DEF S
  <2>2. Sum(written', S) = Sum(written, S)
    BY <2>1, SumSame
  <2> QED BY <2>2 DEF S
<1>6. UnheldBytes' = UnheldBytes /\ CountedBytes' = CountedBytes /\ ReservationsExact' /\ (Usable(measured)' <=> Usable(measured))
  BY <1>1, <1>4, <1>5 DEF UnheldBytes, CountedBytes, ReservationsExact, Usable
<1> QED BY <1>1, <1>2, <1>6

\* A file given back makes what was measured too large, never too small.
LEMMA QuotaDeletes ==
  ASSUME Bookkept, NEW u \in Uploads, DeleteFile(u)
  PROVE  Bookkept'
<1> USE BooksTyped DEF Bookkept
<1>1. /\ UNCHANGED <<upload, gone, held, reserved, scan>> /\ Invalidate
      /\ written' = [written EXCEPT ![u] = 0]
  BY DEF DeleteFile
<1>2. /\ version' \in Nat /\ scan'.version <= version' /\ ~Usable(measured)'
      /\ ~(scan'.on /\ scan'.version = version')
      /\ measured' \in [bytes : Nat, version : Nat \cup {-1}, recent : BOOLEAN]
  BY <1>1, Voided
<1>3. QuotaTypeOK'
  BY <1>1, <1>2, QuotaEmpties DEF QuotaTypeOK
<1>4. ReservationsExact'
  BY <1>1 DEF ReservationsExact
<1>5. UnheldBytes' \in Nat /\ UnheldBytes' <= UnheldBytes
  BY <1>1, QuotaEmpties DEF UnheldBytes
<1>6. UnheldBytes \in Nat /\ reserved \in Nat /\ UnheldBytes + reserved <= Quota /\ Quota \in Nat /\ FileLimit \in Nat
  BY QuotaAssumption DEF QuotaTypeOK
<1>7. UnheldBytes' + reserved' <= Quota
  <2>1. PICK kept, was, back \in Nat : kept = UnheldBytes' /\ was = UnheldBytes /\ back = reserved
    BY <1>5, <1>6
  <2>2. kept <= was /\ was + back <= Quota
    BY <1>5, <1>6, <2>1
  <2>3. reserved' = reserved
    BY <1>1
  <2> HIDE BooksTyped DEF Bookkept
  <2>4. kept + back <= Quota
    BY <1>6, <2>2
  <2>5. reserved' = back /\ UnheldBytes' = kept
    BY <2>1, <2>3
  <2> QED BY <2>4, <2>5, Zenon
<1> QED BY <1>2, <1>3, <1>4, <1>7

\* A restart forgets reservations, whose files may have grown up to them.
LEMMA QuotaRestarts == ASSUME Bookkept, QuotaRestart PROVE Bookkept'
<1> USE BooksTyped DEF Bookkept
<1>1. /\ upload' = [u \in Uploads |-> IF upload[u] = "none" THEN "none" ELSE "done"]
      /\ gone' = {} /\ held' = {} /\ reserved' = 0 /\ version' = 0 /\ measured' = NothingMeasured
      /\ scan' = NoScan /\ written' = written
  BY DEF QuotaRestart
<1>2. QuotaTypeOK'
  BY <1>1 DEF QuotaTypeOK, Stages, NoScan, NothingMeasured
<1>3. ReservationsExact'
  <2>1. {} = {u \in Uploads : upload'[u] \in {"granted", "received"}}
    BY <1>1
  <2>2. Cardinality({}) * FileLimit = 0
    <3>1. Cardinality({}) = 0
      BY FS_EmptySet
    <3> QED BY <3>1, QuotaAssumption
  <2> QED BY <1>1, <2>1, <2>2 DEF ReservationsExact
<1>4. ~Usable(measured)' /\ ~scan'.on /\ scan'.version <= version'
  BY <1>1 DEF Usable, NoScan, NothingMeasured
<1>5. UnheldBytes' <= UnheldBytes + reserved /\ UnheldBytes' \in Nat
  <2>1. Sum(written, Uploads) <= Sum(written, Uploads \ held) + Cardinality(held) * FileLimit
    BY SumBound, QuotaAssumption DEF QuotaTypeOK
  <2>2. Sum(written, Uploads) \in Nat
    BY SumParts
  <2>3. UnheldBytes' = Sum(written, Uploads)
    <3>1. Uploads \ {} = Uploads
      OBVIOUS
    <3>2. UnheldBytes' = Sum(written, Uploads \ {})
      BY <1>1 DEF UnheldBytes
    <3> QED BY <3>1, <3>2
  <2> QED BY <2>1, <2>2, <2>3 DEF UnheldBytes, ReservationsExact
<1>6. UnheldBytes \in Nat /\ reserved \in Nat /\ UnheldBytes + reserved <= Quota /\ Quota \in Nat /\ FileLimit \in Nat
  BY QuotaAssumption DEF QuotaTypeOK
<1>7. UnheldBytes' + reserved' <= Quota
  <2>1. PICK kept \in Nat : kept = UnheldBytes'
    BY <1>5
  <2>2. reserved' = 0
    BY <1>1
  <2>3. kept <= Quota
    <3>1. PICK was, back \in Nat : was = UnheldBytes /\ back = reserved
      BY <1>6
    <3>2. kept <= was + back /\ was + back <= Quota
      BY <1>5, <1>6, <2>1, <3>1
    <3> QED BY <1>6, <3>2
  <2>4. UnheldBytes' + 0 <= Quota
    BY <2>1, <2>3
  <2> QED BY <2>2, <2>4
<1> QED BY <1>2, <1>3, <1>4, <1>7

\* A request goes on with a measurement that is up to date.
LEMMA QuotaAccepts ==
  ASSUME Bookkept, NEW u \in Uploads, Accept(u)
  PROVE  Bookkept'
<1> USE BooksTyped DEF Bookkept
<1>1. /\ upload[u] = "waiting" /\ ~scan.on /\ Usable(measured)
      /\ UNCHANGED <<gone, written, scan>>
  BY DEF Accept
<1>2. u \notin held /\ upload \in [Uploads -> Stages]
  BY <1>1 DEF ReservationsExact, QuotaTypeOK
<1>3. CASE upload' = [upload EXCEPT ![u] = "rejected"] /\ UNCHANGED <<held, reserved, version, measured>>
  <2>1. /\ upload' \in [Uploads -> Stages]
        /\ \A x \in Uploads : upload'[x] \in {"granted", "received"} <=> upload[x] \in {"granted", "received"}
    BY <1>1, <1>2, <1>3 DEF Stages
  <2>2. gone' \subseteq Uploads
    BY <1>1 DEF QuotaTypeOK
  <2> QED BY <1>1, <1>3, <2>1, <2>2, QuotaRests
<1>4. CASE /\ measured.bytes + reserved + FileLimit <= Quota
           /\ held' = held \cup {u} /\ reserved' = reserved + FileLimit
           /\ upload' = [upload EXCEPT ![u] = "granted"] /\ UNCHANGED <<version, measured>>
  <2>1. QuotaTypeOK'
    BY <1>1, <1>4, QuotaAssumption DEF QuotaTypeOK, Stages
  <2>2. ReservationsExact'
    <3>1. held' = {x \in Uploads : upload'[x] \in {"granted", "received"}}
      BY <1>2, <1>4 DEF ReservationsExact
    <3>2. reserved' = Cardinality(held \cup {u}) * FileLimit
      BY <1>2, <1>4, Reserved DEF ReservationsExact
    <3> QED BY <1>4, <3>1, <3>2 DEF ReservationsExact
  <2>3. UnheldBytes' \in Nat /\ UnheldBytes' <= UnheldBytes
    <3>1. Uploads \ held' = (Uploads \ held) \ {u}
      BY <1>4
    <3>2. UnheldBytes' = Sum(written, (Uploads \ held) \ {u})
      BY <1>1, <3>1 DEF UnheldBytes
    <3> DEFINE S == Uploads \ held
    <3>3. IsFiniteSet(S) /\ \A x \in S : written[x] \in Nat
      OBVIOUS
    <3>4. UnheldBytes = Sum(written, S) /\ UnheldBytes' = Sum(written, S \ {u})
      BY <3>2 DEF UnheldBytes
    <3> HIDE DEF S
    <3>5. Sum(written, S \ {u}) \in Nat /\ Sum(written, S \ {u}) <= Sum(written, S)
      BY <3>3, SumLess
    <3> QED BY <3>4, <3>5
  <2>4. UnheldBytes \in Nat /\ UnheldBytes <= measured.bytes /\ measured.bytes \in Nat /\ reserved \in Nat
        /\ FileLimit \in Nat /\ Quota \in Nat
    BY <1>1, QuotaAssumption DEF QuotaTypeOK
  <2>5. UnheldBytes' + reserved' <= Quota
    <3>1. PICK kept \in Nat : kept = UnheldBytes'
      BY <2>3
    <3>2. measured.bytes + reserved + FileLimit <= Quota /\ reserved' = reserved + FileLimit
      BY <1>4
    <3> QED BY <2>3, <2>4, <3>1, <3>2
  <2>6. UnheldBytes' <= measured'.bytes
    <3>1. PICK kept \in Nat : kept = UnheldBytes'
      BY <2>3
    <3>2. measured' = measured
      BY <1>4
    <3> QED BY <2>3, <2>4, <3>1, <3>2
  <2>7. ~scan'.on /\ scan'.version <= version'
    BY <1>1, <1>4
  <2> QED BY <2>1, <2>2, <2>5, <2>6, <2>7
<1>5. CASE upload' = [upload EXCEPT ![u] = "aborted"] /\ Invalidate /\ UNCHANGED <<held, reserved>>
  <2>1. /\ version' \in Nat /\ scan'.version <= version' /\ ~Usable(measured)'
        /\ ~(scan'.on /\ scan'.version = version')
        /\ measured' \in [bytes : Nat, version : Nat \cup {-1}, recent : BOOLEAN]
    BY <1>1, <1>5, Voided
  <2>2. QuotaTypeOK'
    BY <1>1, <1>5, <2>1 DEF QuotaTypeOK, Stages
  <2>3. ReservationsExact'
    <3>1. held' = {x \in Uploads : upload'[x] \in {"granted", "received"}}
      BY <1>1, <1>2, <1>5 DEF ReservationsExact
    <3> QED BY <1>5, <3>1 DEF ReservationsExact
  <2>4. UnheldBytes' = UnheldBytes /\ reserved' = reserved
    BY <1>1, <1>5 DEF UnheldBytes
  <2> QED BY <2>1, <2>2, <2>3, <2>4
<1> QED BY <1>3, <1>4, <1>5 DEF Accept

\* A connection closes, or the interceptor finishes a request.
LEMMA QuotaEnds ==
  ASSUME Bookkept, NEW u \in Uploads, Disconnect(u) \/ Finalize(u)
  PROVE  Bookkept'
<1> USE DEF Bookkept
<1>1. upload \in [Uploads -> Stages] /\ gone \subseteq Uploads
  BY DEF QuotaTypeOK
<1>2. CASE upload[u] = "waiting" /\ gone' = gone \cup {u}
           /\ UNCHANGED <<upload, written, held, reserved, version, measured, scan>>
  BY <1>1, <1>2, QuotaRests
<1>3. CASE upload[u] \in {"granted", "received"} /\ upload' \in {[upload EXCEPT ![u] = s] : s \in {"aborted", "done"}}
           /\ Release(u) /\ UNCHANGED <<gone, written, scan>>
  <2>1. u \in held
    BY <1>3 DEF ReservationsExact
  <2>2. /\ upload' \in [Uploads -> Stages]
        /\ \A x \in Uploads : upload'[x] \in {"granted", "received"} <=> x # u /\ upload[x] \in {"granted", "received"}
    BY <1>1, <1>3 DEF Stages
  <2> QED BY <1>3, <2>1, <2>2, QuotaReleases
<1>4. CASE /\ upload[u] = "aborted" /\ written' \in {written, [written EXCEPT ![u] = 0]}
           /\ upload' = [upload EXCEPT ![u] = "done"] /\ Release(u) /\ UNCHANGED <<gone, scan>>
  <2>1. u \notin held
    BY <1>4 DEF ReservationsExact
  <2>2. UNCHANGED <<held, reserved, version, measured>>
    BY <1>4, <2>1 DEF Release
  <2>3. /\ upload' \in [Uploads -> Stages]
        /\ \A x \in Uploads : upload'[x] \in {"granted", "received"} <=> upload[x] \in {"granted", "received"}
    BY <1>1, <1>4 DEF Stages
  <2>4. CASE written' = written
    BY <1>1, <1>4, <2>2, <2>3, <2>4, QuotaRests
  <2>5. CASE written' = [written EXCEPT ![u] = 0]
    <3>1. QuotaTypeOK'
      BY <1>4, <2>2, <2>3, <2>5, QuotaEmpties DEF QuotaTypeOK
    <3>2. ReservationsExact'
      <4>1. held' = {x \in Uploads : upload'[x] \in {"granted", "received"}}
        BY <2>2, <2>3 DEF ReservationsExact
      <4> QED BY <2>2, <4>1 DEF ReservationsExact
    <3>3. PICK kept, counted \in Nat : kept = UnheldBytes' /\ counted = CountedBytes' /\ kept <= UnheldBytes /\ counted <= CountedBytes
      BY <1>4, <2>2, <2>5, QuotaEmpties DEF UnheldBytes, CountedBytes
    <3>4. UnheldBytes \in Nat /\ CountedBytes \in Nat /\ reserved \in Nat /\ Quota \in Nat /\ measured.bytes \in Nat /\ scan.total \in Nat
      BY BooksTyped, QuotaAssumption DEF QuotaTypeOK
    <3>5. UnheldBytes' + reserved' <= Quota
      <4>1. UnheldBytes + reserved <= Quota
        OBVIOUS
      <4>2. kept + reserved <= Quota
        <5>1. PICK was, back \in Nat : was = UnheldBytes /\ back = reserved
          BY <3>4
        <5>2. kept <= was /\ was + back <= Quota
          BY <3>3, <4>1, <5>1
        <5> QED BY <3>4, <5>1, <5>2
      <4> QED BY <2>2, <3>3, <4>2
    <3>6. Usable(measured)' => UnheldBytes' <= measured'.bytes
      <4>1. Usable(measured)' => Usable(measured)
        BY <2>2 DEF Usable
      <4> QED BY <2>2, <3>3, <3>4, <4>1
    <3>7. scan'.on /\ scan'.version = version' => CountedBytes' <= scan'.total
      BY <1>4, <2>2, <3>3, <3>4
    <3>8. scan'.version <= version'
      BY <1>4, <2>2
    <3> QED BY <3>1, <3>2, <3>5, <3>6, <3>7, <3>8
  <2> QED BY <1>4, <2>4, <2>5
<1>5. CASE Disconnect(u)
  BY <1>2, <1>3, <1>5 DEF Disconnect
<1>6. CASE Finalize(u)
  BY <1>3, <1>4, <1>6 DEF Finalize
<1> QED BY <1>5, <1>6

\* Time passes, a request begins to wait, or its body has arrived.
LEMMA QuotaPasses ==
  ASSUME Bookkept, MeasureAges \/ \E u \in Uploads : Ask(u) \/ Receive(u)
  PROVE  Bookkept'
<1>1. upload \in [Uploads -> Stages] /\ gone \subseteq Uploads
  BY DEF Bookkept, QuotaTypeOK
<1>2. CASE MeasureAges
  BY <1>1, <1>2, QuotaRests DEF MeasureAges
<1>3. ASSUME NEW u \in Uploads, Ask(u) \/ Receive(u) PROVE Bookkept'
  <2>1. /\ UNCHANGED <<gone, written, held, reserved, version, measured, scan>>
        /\ upload' \in [Uploads -> Stages]
        /\ \A x \in Uploads : upload'[x] \in {"granted", "received"} <=> upload[x] \in {"granted", "received"}
    BY <1>1, <1>3 DEF Ask, Receive, Stages
  <2> QED BY <1>1, <2>1, QuotaRests
<1> QED BY <1>2, <1>3

LEMMA QuotaStep == Bookkept /\ [QuotaNext]_quotaVars => Bookkept'
<1> SUFFICES ASSUME Bookkept, [QuotaNext]_quotaVars PROVE Bookkept'
  OBVIOUS
<1>1. CASE UNCHANGED quotaVars
  <2>1. upload \in [Uploads -> Stages] /\ gone \subseteq Uploads
    BY DEF Bookkept, QuotaTypeOK
  <2> QED BY <1>1, <2>1, QuotaRests DEF quotaVars
<1>2. CASE QuotaNext
  BY <1>2, QuotaScans, QuotaRestarts, QuotaPasses, QuotaAccepts, QuotaWrites, QuotaEnds, QuotaDeletes DEF QuotaNext
<1> QED BY <1>1, <1>2

\* What the invariant says.
LEMMA InvQuotaHolds == Bookkept => QuotaHolds
<1>1. Bytes(Uploads \ held) = UnheldBytes
  BY BytesAreSum DEF UnheldBytes
<1> QED BY <1>1 DEF Bookkept, ReservationsExact, QuotaHolds, NeverOvercommitted

\* Files and reservations together never exceed the quota, and exactly the uploads
\* under way hold what is reserved (board-upload-quota.service.ts), for any number
\* of uploads, any quota and any limit of a file.
THEOREM QuotaIsKept == QuotaSpec => []QuotaHolds
BY QuotaBegins, QuotaStep, InvQuotaHolds, PTL DEF QuotaSpec

-----------------------------------------------------------------------------
(* All that the server keeps.                                              *)

StorageInv ==
  /\ Bookkept /\ FilesInv /\ ListsInv /\ ListsBound
  /\ SpeechInv /\ MembersInv /\ NumbersInv /\ MembersBound /\ MigrationInv /\ TextsBound

LEMMA StorageStart == Init => StorageInv
BY QuotaBegins, FilesStart, ListsStart, ListsBegin, SpeechStart, MembersStart, NumbersBegin, BoundsBegin,
   MigrationsStart, TextsBegin DEF Init, StorageInv

\* A step of one part is one of its component, and leaves the others alone.
LEMMA OnePartSteps ==
  ASSUME [Next]_vars
  PROVE  /\ [QuotaNext]_quotaVars /\ [FilesNext]_filesVars /\ [BulletinNext]_bulletinVars
         /\ [ReconcileNext \/ ClipNext]_speechVars /\ [MigrationsNext]_migrationVars
         /\ [(MembersNext /\ UNCHANGED numberVars) \/ (NumbersNext /\ UNCHANGED memberVars)]_rallyMemberVars
<1>1. CASE UNCHANGED vars
  BY <1>1 DEF vars
<1>2. CASE Next
  <2>1. SpeechParts => part \in {"cache", "clips", "script"} /\ (ReconcileNext \/ ClipNext)
    BY DEF SpeechParts, Boots, ReconcileNext, Procs
  <2>2. [QuotaNext]_quotaVars
    BY <1>2, <2>1 DEF Next, Keep
  <2>3. [MigrationsNext]_migrationVars
    BY <1>2, <2>1 DEF Next, Keep
  <2>4. [ReconcileNext \/ ClipNext]_speechVars
    BY <1>2, <2>1 DEF Next, Keep
  <2>5. [(MembersNext /\ UNCHANGED numberVars) \/ (NumbersNext /\ UNCHANGED memberVars)]_rallyMemberVars
    BY <1>2, <2>1 DEF Next, Keep
  <2>6. [FilesNext]_filesVars
    BY <1>2, <2>1 DEF Next, Keep
  <2>7. [BulletinNext]_bulletinVars
    BY <1>2, <2>1 DEF Next, Keep
  <2> QED BY <2>2, <2>3, <2>4, <2>5, <2>6, <2>7
<1> QED BY <1>1, <1>2

LEMMA StorageStep == StorageInv /\ [Next]_vars => StorageInv'
<1> SUFFICES ASSUME StorageInv, [Next]_vars PROVE StorageInv'
  OBVIOUS
<1>1. Bookkept' /\ FilesInv' /\ ListsInv' /\ ListsBound'
  BY OnePartSteps, QuotaStep, FilesKeepInv, ListsStep, ListsBounded DEF StorageInv
<1>2. SpeechInv' /\ MembersInv' /\ NumbersInv' /\ MembersBound' /\ MigrationInv' /\ TextsBound'
  BY OnePartSteps, SpeechStep, MembersKeepInv, MembersBounded, MigrationsStep, TextsBounded DEF StorageInv
<1> QED BY <1>1, <1>2 DEF StorageInv

\* The quota holds, what is spoken is neither old nor broken nor made twice, the captains
\* are numbered and called as they have to start, the schema of the database is what its
\* history says, no file that is needed is deleted and the lists are told to everybody, for
\* any of their constants and in whatever part of the storage something happens; and every
\* variable keeps its type.
THEOREM StorageIsSound == Spec => [](TypeOK /\ StorageSound) /\ FilesSurvive /\ ListsTrue
<1>1. StorageInv => TypeOK /\ StorageSound
  <2>1. StorageInv => StorageSound
    BY InvQuotaHolds, InvSpeechSound, InvMembersSound, InvMigrationSound DEF StorageInv, StorageSound
  <2>2. StorageInv => TypeOK
    BY SpeechTypes, MembersTypes, MigrationsTypes, ListsTypes DEF StorageInv, TypeOK, Bookkept, FilesInv, Kept
  <2> QED BY <2>1, <2>2
<1>2. Init => FilesInit /\ BulletinInit
  BY DEF Init
<1>3. [Next]_vars => [FilesNext]_filesVars /\ [BulletinNext]_bulletinVars
  BY OnePartSteps
<1>4. Spec => FilesSpec /\ BulletinSpec
  BY <1>2, <1>3, PTL DEF Spec, FilesSpec, BulletinSpec
<1>5. Spec => [](TypeOK /\ StorageSound)
  BY <1>1, StorageStart, StorageStep, PTL DEF Spec
<1> QED BY <1>4, <1>5, FilesSafe, ListsAreTold
=============================================================================
