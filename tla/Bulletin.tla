------------------------------ MODULE Bulletin ------------------------------
(***************************************************************************)
(* The lists every client shows in full: notices, rallies, members, posts  *)
(* and alliance notices.  A request changes the table, reads the list back *)
(* and emits it to everybody; a connecting client is sent a list of its    *)
(* own reading (server/src/notices, rallies, members, boards,              *)
(* alliance-notices; the broadcasts of realtime.gateway.ts).  An item      *)
(* belongs to the nickname that wrote it, and a nickname may come back     *)
(* with another account (server/src/users/nickname-ownership.ts).          *)
(***************************************************************************)
EXTENDS Integers, FiniteSets

CONSTANTS
  Nicknames,  \* authors
  Requests,   \* requests that add or remove an item; each is made once
  Clients,    \* connected browsers
  MaxSecond   \* bound on the clock, which the database keeps in seconds

ASSUME BulletinAssumption == MaxSecond \in Nat \ {0}

VARIABLES
  second,   \* the time
  member,   \* accounts: when each nickname was registered, and for the how many-eth time
  items,    \* the rows: author, the account it had, and when it was written
  edition,  \* how often the rows changed
  work,     \* the progress of the requests
  client,   \* per browser: its stage, the snapshot it was read, and the list it shows
  untold    \* the last change was saved but its broadcast failed

bulletinVars == <<second, member, items, edition, work, client, untold>>

NoWork == [stage |-> "idle", kind |-> "add", item |-> 0, list |-> {}, edition |-> 0]
NoClient == [stage |-> "off", list |-> {}, edition |-> 0, shown |-> {}, shownEdition |-> 0, overtaken |-> FALSE]
NoMember == [since |-> 0, times |-> 0]

BulletinInit ==
  /\ second = 1
  /\ member = [n \in Nicknames |-> [since |-> 1, times |-> 1]]
  /\ items = {} /\ edition = 0
  /\ work = [r \in Requests |-> NoWork]
  /\ client = [c \in Clients |-> NoClient]
  /\ untold = FALSE

-----------------------------------------------------------------------------
(* Who may remove what.                                                    *)

\* MUTANT of Owns: an item of the same second counts as one's own.
OwnsSameSecond(n, item) == item.author = n /\ member[n].since <= item.at

\* hasOriginalNicknameOwnership: the account is strictly older than the item.
Owns(n, item) == item.author = n /\ member[n].since < item.at

\* banUser: the row of the user is gone, its items stay.
Banned(n) ==
  /\ member[n].since # 0
  /\ member' = [member EXCEPT ![n].since = 0]
  /\ UNCHANGED <<second, items, edition, work, client, untold>>

\* Somebody registers with a nickname that is free.
Registers(n) ==
  /\ member[n].since = 0 /\ member[n].times < 2
  /\ member' = [member EXCEPT ![n] = [since |-> second, times |-> @.times + 1]]
  /\ UNCHANGED <<second, items, edition, work, client, untold>>

SecondPasses ==
  /\ second < MaxSecond
  /\ second' = second + 1
  /\ UNCHANGED <<member, items, edition, work, client, untold>>

-----------------------------------------------------------------------------
(* add and remove.                                                         *)

\* MUTANT of Adds: the list is read while the item is being saved.
AddsTogether(r, n) ==
  /\ work[r].stage = "idle" /\ member[n].since # 0
  /\ items' = items \cup {[id |-> edition + 1, author |-> n, account |-> member[n].times, at |-> second]}
  /\ edition' = edition + 1
  /\ work' = [work EXCEPT ![r] = [stage |-> "read", kind |-> "add", item |-> edition', list |-> items, edition |-> edition]]
  /\ UNCHANGED <<second, member, client, untold>>

\* add: the row is saved.
Adds(r, n) ==
  /\ work[r].stage = "idle" /\ member[n].since # 0
  /\ items' = items \cup {[id |-> edition + 1, author |-> n, account |-> member[n].times, at |-> second]}
  /\ edition' = edition + 1
  /\ work' = [work EXCEPT ![r] = [NoWork EXCEPT !.stage = "saved", !.item = edition']]
  /\ UNCHANGED <<second, member, client, untold>>

\* remove: the row is found and its author checked ...
OwnerFinds(r, n, item) ==
  /\ work[r].stage = "idle" /\ member[n].since # 0 /\ Owns(n, item)
  /\ work' = [work EXCEPT ![r] = [NoWork EXCEPT !.stage = "found", !.kind = "own", !.item = item.id]]
  /\ UNCHANGED <<second, member, items, edition, client, untold>>

\* A manager may remove any item.
ManagerFinds(r, item) ==
  /\ work[r].stage = "idle"
  /\ work' = [work EXCEPT ![r] = [NoWork EXCEPT !.stage = "found", !.kind = "manage", !.item = item.id]]
  /\ UNCHANGED <<second, member, items, edition, client, untold>>

\* ... and deleted by its id, if it is still there.
ItemDeletes(r) ==
  /\ work[r].stage = "found"
  /\ items' = {item \in items : item.id # work[r].item}
  /\ edition' = IF items' = items THEN edition ELSE edition + 1
  /\ work' = [work EXCEPT ![r].stage = "saved"]
  /\ UNCHANGED <<second, member, client, untold>>

-----------------------------------------------------------------------------
(* broadcastNotices and its siblings; the snapshot of a connection.        *)

ListReads(r) ==
  /\ work[r].stage = "saved"
  /\ work' = [work EXCEPT ![r].stage = "read", ![r].list = items, ![r].edition = edition]
  /\ UNCHANGED <<second, member, items, edition, client, untold>>

\* The query fails: the request answers 500, the change stays.
ListFails(r) ==
  /\ work[r].stage = "saved"
  /\ work' = [work EXCEPT ![r] = [NoWork EXCEPT !.stage = "done"]]
  /\ untold' = TRUE
  /\ UNCHANGED <<second, member, items, edition, client>>

Shows(c, list, at) ==
  [c EXCEPT !.shown = list, !.shownEdition = at, !.overtaken = at < c.shownEdition \/ (c.overtaken /\ at < edition)]

\* MUTANT of ListEmits: it goes to the clients that have their snapshot only.
ListEmitsToReady(r) ==
  /\ work[r].stage = "read"
  /\ client' = [c \in Clients |-> IF client[c].stage = "online"
                                  THEN Shows(client[c], work[r].list, work[r].edition) ELSE client[c]]
  /\ untold' = (untold /\ work[r].edition < edition)
  /\ work' = [work EXCEPT ![r] = [NoWork EXCEPT !.stage = "done"]]
  /\ UNCHANGED <<second, member, items, edition>>

\* What was read is emitted to every connection, also those still waiting for their
\* snapshot.
ListEmits(r) ==
  /\ work[r].stage = "read"
  /\ client' = [c \in Clients |-> IF client[c].stage # "off"
                                  THEN Shows(client[c], work[r].list, work[r].edition) ELSE client[c]]
  /\ untold' = (untold /\ work[r].edition < edition)
  /\ work' = [work EXCEPT ![r] = [NoWork EXCEPT !.stage = "done"]]
  /\ UNCHANGED <<second, member, items, edition>>

\* A browser that connects again still shows what it last knew.
ClientConnects(c) ==
  /\ client[c].stage = "off"
  /\ client' = [client EXCEPT ![c].stage = "joining"]
  /\ UNCHANGED <<second, member, items, edition, work, untold>>

SnapshotReads(c) ==
  /\ client[c].stage = "joining"
  /\ client' = [client EXCEPT ![c].stage = "read", ![c].list = items, ![c].edition = edition]
  /\ UNCHANGED <<second, member, items, edition, work, untold>>

SnapshotEmits(c) ==
  /\ client[c].stage = "read"
  /\ client' = [client EXCEPT ![c] = [Shows(@, @.list, @.edition) EXCEPT !.stage = "online", !.list = {}, !.edition = 0]]
  /\ UNCHANGED <<second, member, items, edition, work, untold>>

ClientLeaves(c) ==
  /\ client[c].stage # "off"
  /\ client' = [client EXCEPT ![c].stage = "off", ![c].list = {}, ![c].edition = 0]
  /\ UNCHANGED <<second, member, items, edition, work, untold>>

BulletinNext ==
  \/ SecondPasses
  \/ \E n \in Nicknames : Banned(n) \/ Registers(n)
  \/ \E r \in Requests :
       \/ ItemDeletes(r) \/ ListReads(r) \/ ListFails(r) \/ ListEmits(r)
       \/ \E item \in items : ManagerFinds(r, item)
       \/ \E n \in Nicknames : Adds(r, n) \/ \E item \in items : OwnerFinds(r, n, item)
  \/ \E c \in Clients : ClientConnects(c) \/ SnapshotReads(c) \/ SnapshotEmits(c) \/ ClientLeaves(c)

-----------------------------------------------------------------------------
(* Properties.                                                             *)

\* Every variable of the lists has its type.
BulletinTypeOK ==
  /\ second \in 1..MaxSecond /\ edition \in Nat /\ untold \in BOOLEAN
  /\ \A n \in Nicknames : member[n].since \in 0..second /\ member[n].times \in 1..2
  /\ \A item \in items : item.id \in 1..edition /\ item.author \in Nicknames /\ item.at \in 1..second
  /\ \A r \in Requests : work[r].stage \in {"idle", "found", "saved", "read", "done"}
  /\ \A c \in Clients : client[c].stage \in {"off", "joining", "read", "online"}

\* Once nothing is under way, whoever is connected shows the rows as they are: however
\* the changes, their readings and the snapshots interleaved, unless a broadcast failed
\* or an answer of the database was overtaken by a newer one on its way.
ListSettles ==
  /\ ~untold
  /\ \A r \in Requests : work[r].stage \in {"idle", "found", "done"}
  => \A c \in Clients :
       client[c].stage = "online" /\ ~client[c].overtaken => client[c].shown = items

\* The list a request emits shows its own change: the item it added, unless it was
\* removed meanwhile, and not the item it removed.
EmitsOwnChange ==
  [][\A r \in Requests : work[r].stage = "read" /\ work'[r].stage = "done" =>
       LET listed == \E item \in work[r].list : item.id = work[r].item
           there  == \E item \in items : item.id = work[r].item
       IN  IF work[r].kind = "add" THEN listed \/ ~there ELSE ~listed]_bulletinVars

\* An account that took over a nickname never removes an item of the account before it,
\* not even one written in the second in which it registered.
SuccessorOwnsNothing ==
  [][\A r \in Requests, item \in items :
       work[r].stage = "idle" /\ work'[r].kind = "own" /\ work'[r].item = item.id =>
         member[item.author].times = item.account]_bulletinVars

\* The lists tell everybody of the changes, and a change of ownership hides none.
ListsTrue == []ListSettles /\ EmitsOwnChange /\ SuccessorOwnsNothing
=============================================================================
