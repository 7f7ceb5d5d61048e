------------------------------ MODULE Presence ------------------------------
(***************************************************************************)
(* Who is online (server/src/realtime/realtime.gateway.ts and              *)
(* socket-auth.service.ts), what an administrator does to an account       *)
(* (server/src/admin/admin.service.ts) and how a browser turns the lists   *)
(* it is sent into "joined" and "left" messages                            *)
(* (web/src/chat/systemMessages.js, web/src/hooks/useSocket.js).           *)
(***************************************************************************)
EXTENDS Integers, FiniteSets

CONSTANTS
  Users,    \* nicknames
  Sockets,  \* connections, one of them
  Viewer,   \* that of the browser that is watched
  MaxEdits  \* bound on the edits of accounts

ASSUME PresenceAssumption == Users # {} /\ Viewer \in Sockets /\ MaxEdits \in Nat

VARIABLES
  account,    \* users: "member", "admin" or "gone"
  edit,       \* the progress of changeRole and banUser
  edits,      \* how many there were
  sock,       \* per connection: its stage on the server, its user, its looked up role
  onlineMap,  \* the role under which each connection is listed, or "none"
  emitting,   \* onlineBroadcastTimer
  users,      \* onlineUsers of the viewer's store
  tracker,    \* its createOnlineTracker
  told,       \* what its chat messages say: who is online
  missed      \* connections whose user was being looked up when it was kicked

presenceVars == <<account, edit, edits, sock, onlineMap, emitting, users, tracker, told, missed>>

Roles == {"member", "admin"}
Off == [stage |-> "off", user |-> CHOOSE u \in Users : TRUE, role |-> "gone"]
NoEdit == [stage |-> "idle", user |-> CHOOSE u \in Users : TRUE]
NewTracker == [known |-> {}, started |-> FALSE, joined |-> {}, left |-> {}, timer |-> FALSE]

PresenceInit ==
  /\ account \in [Users -> Roles]
  /\ edit = NoEdit /\ edits = 0
  /\ sock = [s \in Sockets |-> Off]
  /\ onlineMap = [s \in Sockets |-> "none"]
  /\ emitting = FALSE
  /\ users = {} /\ tracker = NewTracker /\ told = {} /\ missed = {}

browserVars == <<users, tracker, told>>
Listed == {s \in Sockets : onlineMap[s] # "none"}
Nicknames == {sock[s].user : s \in Listed}
Connected(s) == sock[s].stage \in {"lookup", "found", "snapshot", "online"}

-----------------------------------------------------------------------------
(* Connections: handleConnection, handleDisconnect.                        *)

\* handleConnection asks SocketAuthService for the user of the cookie.
Connect(s) ==
  /\ sock[s].stage = "off"
  /\ \E u \in Users : sock' = [sock EXCEPT ![s] = [stage |-> "lookup", user |-> u, role |-> "gone"]]
  /\ missed' = missed \ {s}
  /\ UNCHANGED <<account, edit, edits, onlineMap, emitting, browserVars>>

\* findById reads the account; the answer is on its way.
LookupReads(s) ==
  /\ sock[s].stage = "lookup"
  /\ sock' = [sock EXCEPT ![s].stage = "found", ![s].role = account[sock[s].user]]
  /\ UNCHANGED <<account, edit, edits, onlineMap, emitting, browserVars, missed>>

\* MUTANT of LookupResumes: whether the client is still connected is not asked.
LookupResumesBlindly(s) ==
  /\ sock[s].stage \in {"found", "left"}
  /\ onlineMap' = [onlineMap EXCEPT ![s] = account[sock[s].user]]
  /\ emitting' = TRUE
  /\ sock' = [sock EXCEPT ![s].stage = IF @ = "left" THEN "off" ELSE "snapshot"]
  /\ UNCHANGED <<account, edit, edits, browserVars, missed>>

\* MUTANT of LookupResumes: the list is emitted at the next change only.
LookupResumesQuietly(s) ==
  /\ \/ sock[s].stage = "left" /\ sock' = [sock EXCEPT ![s] = Off] /\ UNCHANGED onlineMap
     \/ /\ sock[s].stage = "found" /\ sock[s].role = "gone"
        /\ sock' = [sock EXCEPT ![s] = Off] /\ UNCHANGED onlineMap
     \/ /\ sock[s].stage = "found" /\ sock[s].role # "gone"
        /\ onlineMap' = [onlineMap EXCEPT ![s] = sock[s].role]
        /\ sock' = [sock EXCEPT ![s].stage = "snapshot"]
  /\ UNCHANGED <<account, edit, edits, emitting, browserVars, missed>>

\* After the await: a client that left is forgotten, one without an account is
\* disconnected, another one is listed and sent its snapshot.
LookupResumes(s) ==
  /\ \/ /\ sock[s].stage = "left"
        /\ sock' = [sock EXCEPT ![s] = Off]
        /\ UNCHANGED <<onlineMap, emitting>>
     \/ /\ sock[s].stage = "found" /\ sock[s].role = "gone"
        /\ sock' = [sock EXCEPT ![s] = Off]
        /\ emitting' = TRUE
        /\ UNCHANGED onlineMap
     \/ /\ sock[s].stage = "found" /\ sock[s].role # "gone"
        /\ onlineMap' = [onlineMap EXCEPT ![s] = sock[s].role]
        /\ emitting' = TRUE
        /\ sock' = [sock EXCEPT ![s].stage = "snapshot"]
  /\ UNCHANGED <<account, edit, edits, browserVars, missed>>

SnapshotSent(s) ==
  /\ sock[s].stage = "snapshot"
  /\ sock' = [sock EXCEPT ![s].stage = "online"]
  /\ UNCHANGED <<account, edit, edits, onlineMap, emitting, browserVars, missed>>

\* The connections leave the list: handleDisconnect of each.
Leave(gone) ==
  /\ onlineMap' = [s \in Sockets |-> IF s \in gone THEN "none" ELSE onlineMap[s]]
  /\ emitting' = (emitting \/ gone # {})

\* cleanupFailedConnection: a query of the snapshot failed.
SnapshotFails(s) ==
  /\ sock[s].stage = "snapshot"
  /\ sock' = [sock EXCEPT ![s] = Off]
  /\ Leave({s})
  /\ UNCHANGED <<account, edit, edits, browserVars, missed>>

\* The client goes away.  A lookup that is under way goes on.
Disconnect(s) ==
  /\ Connected(s)
  /\ sock' = [sock EXCEPT ![s] = IF @.stage \in {"lookup", "found"} THEN [@ EXCEPT !.stage = "left", !.role = "gone"] ELSE Off]
  /\ Leave({s})
  /\ UNCHANGED <<account, edit, edits, browserVars, missed>>

-----------------------------------------------------------------------------
(* Accounts: changeRole, banUser and kickUser.                             *)

\* The row is updated or removed; the query before the kick follows.
EditAccount(u) ==
  /\ edit = NoEdit /\ account[u] # "gone" /\ edits < MaxEdits
  /\ \E to \in {"member", "admin", "gone"} \ {account[u]} : account' = [account EXCEPT ![u] = to]
  /\ edit' = [stage |-> "kick", user |-> u] /\ edits' = edits + 1
  /\ UNCHANGED <<sock, onlineMap, emitting, browserVars, missed>>

SocketsOf(u) == {s \in Listed : sock[s].user = u}

\* MUTANT of KickUser: one connection of the user is disconnected.
KickOne ==
  /\ edit.stage = "kick"
  /\ LET all == SocketsOf(edit.user)
         kicked == IF all = {} THEN {} ELSE {CHOOSE s \in all : TRUE}
     IN  /\ sock' = [s \in Sockets |-> IF s \in kicked THEN Off ELSE sock[s]]
         /\ Leave(kicked)
         /\ missed' = (missed \ kicked) \cup
                {s \in Sockets \ all : sock[s].stage = "found" /\ sock[s].user = edit.user}
  /\ edit' = NoEdit
  /\ UNCHANGED <<account, edits, browserVars>>

\* The connections that are listed under the nickname are disconnected.
KickUser ==
  /\ edit.stage = "kick"
  /\ LET kicked == SocketsOf(edit.user)
     IN  /\ sock' = [s \in Sockets |-> IF s \in kicked THEN Off ELSE sock[s]]
         /\ Leave(kicked)
         /\ missed' = (missed \ kicked) \cup
                {s \in Sockets \ kicked : sock[s].stage = "found" /\ sock[s].user = edit.user}
  /\ edit' = NoEdit
  /\ UNCHANGED <<account, edits, browserVars>>

-----------------------------------------------------------------------------
(* broadcastOnline and the viewer: createOnlineTracker.                    *)

\* MUTANT of Update: who joined and left again within the window is announced both ways.
UpdateBoth(t, names) ==
  IF ~t.started THEN [t EXCEPT !.started = TRUE, !.known = names]
  ELSE LET joined == t.joined \cup (names \ t.known)
           left   == t.left \cup (t.known \ names)
       IN  [t EXCEPT !.known = names, !.joined = joined, !.left = left,
                     !.timer = t.timer \/ joined \cup left # {}]

\* The first list is where it starts; later ones are compared with the one before,
\* and who came and went within the window cancels out.
Update(t, names) ==
  IF ~t.started THEN [t EXCEPT !.started = TRUE, !.known = names]
  ELSE LET came   == names \ t.known
           went   == t.known \ names
           joined == (t.joined \ went) \cup (came \ t.left)
           left   == (t.left \ came) \cup (went \ t.joined)
       IN  [t EXCEPT !.known = names, !.joined = joined, !.left = left,
                     !.timer = t.timer \/ joined \cup left # {}]

\* ONLINE_COALESCE_MS later the list is emitted to every connection.
EmitOnline ==
  /\ emitting
  /\ emitting' = FALSE
  /\ IF Connected(Viewer)
     THEN /\ users' = Nicknames
          /\ tracker' = Update(tracker, Nicknames)
          /\ told' = IF tracker.started THEN told ELSE Nicknames
     ELSE UNCHANGED browserVars
  /\ UNCHANGED <<account, edit, edits, sock, onlineMap, missed>>

\* MUTANT of Flush: what was announced is not forgotten.
FlushKeeps ==
  /\ tracker.timer
  /\ told' = (told \cup tracker.joined) \ tracker.left
  /\ tracker' = [tracker EXCEPT !.timer = FALSE]
  /\ UNCHANGED <<account, edit, edits, sock, onlineMap, emitting, users, missed>>

Flush ==
  /\ tracker.timer
  /\ told' = (told \cup tracker.joined) \ tracker.left
  /\ tracker' = [tracker EXCEPT !.timer = FALSE, !.joined = {}, !.left = {}]
  /\ UNCHANGED <<account, edit, edits, sock, onlineMap, emitting, users, missed>>

\* The hook is mounted anew: dispose, and a tracker that starts over.
Remount ==
  /\ tracker.started
  /\ tracker' = NewTracker /\ told' = {}
  /\ UNCHANGED <<account, edit, edits, sock, onlineMap, emitting, users, missed>>

PresenceNext ==
  \/ KickUser \/ EmitOnline \/ Flush \/ Remount
  \/ \E u \in Users : EditAccount(u)
  \/ \E s \in Sockets : \/ Connect(s) \/ LookupReads(s) \/ LookupResumes(s)
                        \/ SnapshotSent(s) \/ SnapshotFails(s) \/ Disconnect(s)

-----------------------------------------------------------------------------
(* Properties.                                                             *)

\* Every variable of the presence has its type.
PresenceTypeOK ==
  /\ account \in [Users -> Roles \cup {"gone"}]
  /\ edit \in [stage : {"idle", "kick"}, user : Users] /\ edits \in 0..MaxEdits
  /\ sock \in [Sockets -> [stage : {"off", "lookup", "found", "left", "snapshot", "online"},
                           user : Users, role : Roles \cup {"gone"}]]
  /\ onlineMap \in [Sockets -> Roles \cup {"none"}]
  /\ emitting \in BOOLEAN /\ users \subseteq Users /\ told \subseteq Users
  /\ tracker.known \subseteq Users /\ tracker.joined \subseteq Users /\ tracker.left \subseteq Users
  /\ missed \subseteq Sockets

\* Nobody stays on the list who is not connected: a client that goes away while its
\* account is being looked up, its snapshot fails or it is kicked is not left there.
OnlyConnectedListed == \A s \in Listed : sock[s].stage \in {"snapshot", "online"}

\* Whenever no list is due, the viewer who is online sees exactly who is listed,
\* whatever changes fell into one window of the timer.
OnlineFollows ==
  ~emitting /\ Viewer \in Listed => users = Nicknames

\* The chat never contradicts itself: what its messages told, with what they are about
\* to tell, is what the last list said, and nobody is announced who was there already.
MessagesAddUp ==
  tracker.started =>
    /\ tracker.known = (told \cup tracker.joined) \ tracker.left
    /\ tracker.joined \cap told = {} /\ tracker.left \subseteq told
    /\ tracker.timer \/ tracker.joined \cup tracker.left = {}

\* After the kick, whoever still acts under a role he no longer has was being looked
\* up at that moment: every other connection of the account was cut off.
StaleOnlyIfMissed ==
  \A s \in Listed :
    onlineMap[s] # account[sock[s].user] =>
      s \in missed \/ (edit.stage = "kick" /\ edit.user = sock[s].user)

\* Who is on the list, what is shown of it and what is said about it agree.
PresenceTrue == OnlyConnectedListed /\ OnlineFollows /\ MessagesAddUp /\ StaleOnlyIfMissed
=============================================================================
